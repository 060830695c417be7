------------------------ MODULE ArtifactFlattenProofs ------------------------
(***************************************************************************)
(* Proofs about artifact-flatten for any number of artifacts, base         *)
(* directories, names and interrupted runs: artifacts whose kinds do not   *)
(* conflict flatten to their union, and what an archive says last is found.*)
(***************************************************************************)
EXTENDS ArtifactFlatten, FiniteSetTheorems, SequenceTheorems, TLAPS

-----------------------------------------------------------------------------
(* Numbers.                                                                 *)

(* Induction: of the numbers that are not as claimed there is a least one.  *)
LEMMA Least == \A S \in SUBSET Nat : S # {} => \E m \in S : \A k \in S : m <= k
  <1> SUFFICES ASSUME NEW S \in SUBSET Nat, S # {} PROVE \E m \in S : \A k \in S : m <= k
    OBVIOUS
  <1>1. PICK m \in S : \A k \in S : ~ (<<k, m>> \in OpToRel(<, Nat))
    BY NatLessThanWellFounded, WFMin
  <1>2. \A k \in S : ~ (k < m)
    BY <1>1 DEF OpToRel
  <1> QED  BY <1>2

LEMMA MinIs ==
  ASSUME NEW S \in SUBSET Nat, S # {}
  PROVE  Min(S) \in S /\ \A k \in S : Min(S) <= k
  BY Least DEF Min

LEMMA MaxIs ==
  ASSUME NEW n \in Nat, NEW S \in SUBSET (1 .. n), S # {}
  PROVE  Max(S) \in S /\ \A k \in S : k <= Max(S)
  <1> DEFINE T == {n - k : k \in S}
  <1>1. T \in SUBSET Nat /\ T # {}
    <2>1. \A k \in S : n - k \in Nat
      OBVIOUS
    <2> QED  BY <2>1
  <1>2. PICK m \in T : \A k \in T : m <= k
    BY <1>1, Least
  <1>3. PICK a \in S : m = n - a
    BY <1>2
  <1>4. \A k \in S : k <= a
    <2> SUFFICES ASSUME NEW k \in S PROVE k <= a
      OBVIOUS
    <2>1. n - k \in T
      OBVIOUS
    <2>2. m <= n - k
      BY <1>2, <2>1
    <2> QED  BY <1>3, <2>2
  <1> QED  BY <1>4 DEF Max

LEMMA SeqOfLength ==
  ASSUME NEW S, NEW n \in Nat, NEW f \in [1 .. n -> S]
  PROVE  f \in Seq(S) /\ Len(f) = n /\ DOMAIN f = 1 .. n
  <1>1. f \in Seq(S)
    BY SeqDef
  <1> QED  BY <1>1, LenProperties

-----------------------------------------------------------------------------
(* Following links.                                                         *)

(* What is no link leads nowhere else.                                      *)
LEMMA FollowStays ==
  ASSUME NEW o, NEW t \in Top, Kind(o[<<t>>]) # "link"
  PROVE  Follow(o, t) = t
  <1> DEFINE c == Cardinality(Top)
             step(u) == IF Kind(o[<<u>>]) = "link" THEN o[<<u>>][2] ELSE u
             Is(f) == f = [n \in 0 .. c |-> IF n = 0 THEN t ELSE step(f[n - 1])]
             g == CHOOSE f : Is(f)
  <1>1. c \in Nat
    BY FiniteAssumption, FS_CardinalityType
  <1>2. Is([n \in 0 .. c |-> t])
    BY <1>1
  <1>3. Is(g)
    BY <1>2
  <1> HIDE DEF g
  <1>4. \A n \in 0 .. c : g[n] = t
    <2> SUFFICES ASSUME NEW k \in 0 .. c, g[k] # t PROVE FALSE
      OBVIOUS
    <2> DEFINE B == {n \in 0 .. c : g[n] # t}
    <2>1. B \in SUBSET Nat /\ B # {}
      BY <1>1
    <2> HIDE DEF B
    <2>2. PICK n \in B : \A i \in B : n <= i
      BY <2>1, Least
    <2>3. n \in 0 .. c /\ g[n] # t
      BY <2>2 DEF B
    <2>4. n # 0
      BY <1>1, <1>3, <2>3
    <2>5. n - 1 \in 0 .. c /\ n - 1 \notin B
      BY <1>1, <2>2, <2>3, <2>4
    <2>6. g[n - 1] = t
      BY <2>5 DEF B
    <2>7. g[n] = step(g[n - 1])
      BY <1>3, <2>3, <2>4
    <2> QED  BY <2>3, <2>6, <2>7
  <1>5. Follow(o, t) = g[c]
    BY DEF Follow, g
  <1> QED  BY <1>1, <1>4, <1>5

-----------------------------------------------------------------------------
(* Trees, paths and entries.                                                *)

LEMMA Kinds ==
  /\ None # Dir /\ Kind(None) = "none" /\ Kind(Dir) = "dir"
  /\ \A c : Kind(File(c)) = "file" /\ File(c) # None /\ File(c) # Dir
  /\ \A t : Kind(Link(t)) = "link"
  BY DEF None, Dir, File, Link, Kind

LEMMA Paths ==
  ASSUME NEW p \in Path
  PROVE  /\ p # Manifest /\ p[1] \in Top
         /\ \/ Len(p) = 1 /\ p = <<p[1]>>
            \/ Len(p) = 2 /\ p[2] \in Leaf /\ p = <<p[1], p[2]>>
  BY DEF Path, Manifest

LEMMA PathsOf ==
  ASSUME NEW t \in Top
  PROVE  /\ <<t>> \in Path /\ Len(<<t>>) = 1
         /\ \A x \in Leaf : <<t, x>> \in Path /\ Len(<<t, x>>) = 2
  BY DEF Path

(* What the proofs need to know of a tree.                                  *)
IsTree(f) ==
  /\ f = [p \in Path |-> f[p]]
  /\ \A p \in Path : Kind(f[p]) = "dir" => f[p] = Dir
  /\ \A t \in Top, x \in Leaf : f[<<t, x>>] # None => f[<<t>>] = Dir

Sized ==
  /\ Len(arts) \in Nat \ {0} /\ DOMAIN arts = 1 .. Len(arts)
  /\ \A i \in DOMAIN arts :
       /\ Len(arts[i]) \in Nat \ {0} /\ DOMAIN arts[i] = 1 .. Len(arts[i])
       /\ \A b \in DOMAIN arts[i] : IsTree(arts[i][b])

IsEntry(i, b, p) ==
  /\ i \in DOMAIN arts /\ b \in DOMAIN arts[i] /\ p \in Path
  /\ arts[i][b][p] # None /\ (mode = "dir" => b = Min(Having(i, p)))

LEMMA EntryHas ==
  ASSUME mode \in {"dir", "tar"}, NEW i, NEW b, NEW p, IsEntry(i, b, p)
  PROVE  <<i, b, p>> \in Entries(mode)
  <1>1. b \in Having(i, p)
    BY DEF Having, IsEntry
  <1>2. <<i, b, p>> \in EntriesOf(mode, i)
    <2>1. CASE mode = "dir"
      BY <1>1, <2>1 DEF EntriesOf, IsEntry
    <2>2. CASE mode = "tar"
      <3>1. p \in There(arts[i][b])
        BY DEF There, IsEntry
      <3> QED  BY <2>2, <3>1 DEF EntriesOf, IsEntry
    <2> QED  BY <2>1, <2>2
  <1> QED  BY <1>2 DEF Entries, IsEntry

LEMMA HavingIs ==
  ASSUME Sized, NEW i \in DOMAIN arts, NEW p \in Path, Having(i, p) # {}
  PROVE  /\ Min(Having(i, p)) \in Having(i, p) /\ \A b \in Having(i, p) : Min(Having(i, p)) <= b
         /\ Max(Having(i, p)) \in Having(i, p) /\ \A b \in Having(i, p) : b <= Max(Having(i, p))
  <1>1. Len(arts[i]) \in Nat /\ Having(i, p) \in SUBSET (1 .. Len(arts[i]))
    BY DEF Sized, Having
  <1>2. Having(i, p) \in SUBSET Nat
    BY <1>1
  <1> QED  BY <1>1, <1>2, MinIs, MaxIs

LEMMA EntryIs ==
  ASSUME Sized, mode \in {"dir", "tar"}, NEW e \in Entries(mode)
  PROVE  \E i, b, p : e = <<i, b, p>> /\
           \/ IsEntry(i, b, p)
           \/ mode = "tar" /\ i \in DOMAIN arts /\ b = 0 /\ p = Manifest
  <1>1. PICK i \in DOMAIN arts : e \in EntriesOf(mode, i)
    BY DEF Entries
  <1>2. CASE mode = "dir"
    <2>1. PICK p \in Path : Having(i, p) # {} /\ e = <<i, Min(Having(i, p)), p>>
      BY <1>1, <1>2 DEF EntriesOf
    <2>2. Min(Having(i, p)) \in Having(i, p)
      BY <2>1, HavingIs
    <2>3. IsEntry(i, Min(Having(i, p)), p)
      BY <2>2 DEF IsEntry, Having
    <2> QED  BY <2>1, <2>3
  <1>3. CASE mode = "tar"
    <2>1. CASE e = <<i, 0, Manifest>>
      BY <1>3, <2>1
    <2>2. CASE e # <<i, 0, Manifest>>
      <3>1. PICK b \in DOMAIN arts[i] : \E p \in There(arts[i][b]) : e = <<i, b, p>>
        BY <1>1, <1>3, <2>2 DEF EntriesOf
      <3>2. PICK p \in There(arts[i][b]) : e = <<i, b, p>>
        BY <3>1
      <3>3. IsEntry(i, b, p)
        BY <1>3, <3>2 DEF IsEntry, There
      <3> QED  BY <3>2, <3>3
    <2> QED  BY <2>1, <2>2
  <1> QED  BY <1>2, <1>3

LEMMA BeforeIs ==
  ASSUME NEW i, NEW b, NEW p, NEW j, NEW c, NEW q
  PROVE  Before(<<i, b, p>>, <<j, c, q>>) <=>
           \/ i < j
           \/ i = j /\ b < c
           \/ i = j /\ b = c /\ Len(p) < Len(q) /\ p[1] = q[1]
  BY DEF Before

(* What an entry says of its path is said by one of the trees.              *)
LEMMA NodeIs ==
  ASSUME Sized, mode \in {"dir", "tar"}, NEW i, NEW b, NEW p, IsEntry(i, b, p)
  PROVE  \E c \in DOMAIN arts[i] : Node(<<i, b, p>>) = arts[i][c][p] /\ arts[i][c][p] # None
  <1>1. CASE mode = "dir"
    <2>1. b \in Having(i, p)
      BY DEF IsEntry, Having
    <2>2. Max(Having(i, p)) \in Having(i, p)
      BY <2>1, HavingIs DEF IsEntry
    <2>3. Node(<<i, b, p>>) = arts[i][Max(Having(i, p))][p]
      BY <1>1 DEF Node
    <2> QED  BY <2>2, <2>3 DEF Having
  <1>2. CASE mode = "tar"
    BY <1>2 DEF Node, IsEntry
  <1> QED  BY <1>1, <1>2

(* The directory that a file is in is an entry of the artifact, and earlier.*)
LEMMA Parent ==
  ASSUME Sized, mode \in {"dir", "tar"}, NEW t \in Top, NEW x \in Leaf, NEW i, NEW b,
         IsEntry(i, b, <<t, x>>)
  PROVE  /\ arts[i][b][<<t>>] = Dir
         /\ \E c : IsEntry(i, c, <<t>>) /\ Before(<<i, c, <<t>>>>, <<i, b, <<t, x>>>>)
  <1> DEFINE p == <<t, x>>
             q == <<t>>
  <1>1. i \in DOMAIN arts /\ b \in DOMAIN arts[i] /\ arts[i][b][p] # None /\ b \in Nat
    BY DEF IsEntry, Sized
  <1>2. arts[i][b][q] = Dir /\ arts[i][b][q] # None
    BY <1>1, Kinds DEF Sized, IsTree
  <1>3. q \in Path /\ Len(q) < Len(p) /\ p[1] = q[1]
    BY PathsOf
  <1> HIDE DEF p, q
  <1>4. CASE mode = "dir"
    <2>1. b \in Having(i, q)
      BY <1>1, <1>2 DEF Having
    <2> DEFINE c == Min(Having(i, q))
    <2>2. c \in Having(i, q) /\ c <= b
      BY <1>1, <1>3, <2>1, HavingIs
    <2> HIDE DEF c
    <2>3. IsEntry(i, c, q)
      BY <1>1, <1>3, <2>2 DEF IsEntry, Having, c
    <2>4. c \in Nat
      BY <1>1, <2>2 DEF Having, Sized
    <2>5. Before(<<i, c, q>>, <<i, b, p>>)
      <3>1. c < b \/ c = b
        BY <1>1, <2>2, <2>4
      <3> QED  BY ONLY <1>3, <3>1 DEF Before
    <2> QED  BY <1>2, <2>3, <2>5 DEF p, q
  <1>5. CASE mode = "tar"
    <2>1. IsEntry(i, b, q)
      BY <1>1, <1>2, <1>3, <1>5 DEF IsEntry
    <2>2. Before(<<i, b, q>>, <<i, b, p>>)
      BY ONLY <1>3 DEF Before
    <2> QED  BY <1>2, <2>1, <2>2 DEF p, q
  <1> QED  BY <1>4, <1>5

(* The artifacts that have a path, and the entry that decides what it is.   *)
Holders(p) == {i \in DOMAIN arts : Having(i, p) # {}}

LastBase(i, p) == IF mode = "dir" THEN Min(Having(i, p)) ELSE Max(Having(i, p))
LastEntry(p) == <<Max(Holders(p)), LastBase(Max(Holders(p)), p), p>>

LEMMA LastIs ==
  ASSUME Sized, mode \in {"dir", "tar"}, NEW p \in Path, Holders(p) # {}
  PROVE  /\ IsEntry(Max(Holders(p)), LastBase(Max(Holders(p)), p), p)
         /\ Node(LastEntry(p)) = Expected(p)
         /\ \A j, c : IsEntry(j, c, p) /\ <<j, c, p>> # LastEntry(p) =>
              Before(<<j, c, p>>, LastEntry(p))
  <1> DEFINE i == Max(Holders(p))
             b == LastBase(i, p)
  <1>1. i \in Holders(p) /\ \A j \in Holders(p) : j <= i
    <2>1. Len(arts) \in Nat /\ Holders(p) \in SUBSET (1 .. Len(arts))
      BY DEF Sized, Holders
    <2> QED  BY <2>1, MaxIs
  <1>2. Expected(p) = arts[i][Max(Having(i, p))][p]
    BY DEF Expected, Holders
  <1> HIDE DEF i
  <1>3. i \in DOMAIN arts /\ Having(i, p) # {} /\ i \in Nat
    BY <1>1 DEF Holders, Sized
  <1>4. /\ Min(Having(i, p)) \in Having(i, p) /\ \A c \in Having(i, p) : Min(Having(i, p)) <= c
        /\ Max(Having(i, p)) \in Having(i, p) /\ \A c \in Having(i, p) : c <= Max(Having(i, p))
    BY <1>3, HavingIs
  <1>5. IsEntry(i, b, p)
    BY <1>3, <1>4 DEF IsEntry, Having, LastBase
  <1>6. Node(<<i, b, p>>) = Expected(p)
    BY <1>2 DEF Node, LastBase
  <1>7. ASSUME NEW j, NEW c, IsEntry(j, c, p), <<j, c, p>> # <<i, b, p>>
        PROVE  Before(<<j, c, p>>, <<i, b, p>>)
    <2>1. j \in DOMAIN arts /\ c \in DOMAIN arts[j] /\ c \in Having(j, p) /\ j \in Nat /\ c \in Nat
      BY <1>7 DEF IsEntry, Having, Sized
    <2>2. j \in Holders(p)
      BY <2>1 DEF Holders
    <2>3. j <= i
      BY <1>1, <2>2
    <2>4. CASE j < i
      BY <2>4, BeforeIs
    <2>5. CASE j = i
      <3>1. c # b
        BY <1>7, <2>5
      <3>2. mode # "dir"
        BY <1>7, <2>5, <3>1 DEF IsEntry, LastBase
      <3>3. b = Max(Having(i, p)) /\ b \in Nat
        BY <1>3, <1>4, <3>2 DEF LastBase, Having, Sized
      <3>4. c <= b
        BY <1>4, <2>1, <2>5, <3>3
      <3>5. c < b
        BY <2>1, <3>1, <3>3, <3>4
      <3> QED  BY <2>5, <3>5, BeforeIs
    <2> QED  BY <1>3, <2>1, <2>3, <2>4, <2>5
  <1> QED  BY <1>5, <1>6, <1>7 DEF LastEntry, i

-----------------------------------------------------------------------------
(* The invariant.                                                           *)

(* What is given does not change, and out is a tree of such nodes.          *)
Shape ==
  /\ mode \in {"dir", "tar"} /\ Sized
  /\ out = [p \in Path |-> out[p]]
  /\ \A p \in Path : Kind(out[p]) = "dir" => out[p] = Dir
  /\ pending \subseteq Entries(mode)

(* What has still to be unpacked is the end of what is given.               *)
Upward == \A e \in pending, f \in Entries(mode) : Before(e, f) => f \in pending

(* A path is what its last entry says, once that entry is unpacked; until   *)
(* then it is of the same kind; and no entry is refused, but for hard links.*)
NoneHard == mode = "tar" => Unshared
Merged == Compatible =>
  /\ NoneHard => status # "failed"
  /\ \A p \in Path, g \in Given :
       out[p] # None /\ arts[g[1]][g[2]][p] # None => Kind(out[p]) = Kind(arts[g[1]][g[2]][p])
  /\ \A p \in Path : Holders(p) = {} => out[p] = Expected(p)
  /\ status # "failed" =>
       /\ \A i, b, p : IsEntry(i, b, p) /\ <<i, b, p>> \notin pending => out[p] # None
       /\ \A p \in Path :
            Holders(p) = {} \/ LastEntry(p) \notin pending => out[p] = Expected(p)

(* The last base directory of the last archive is not overwritten.          *)
LastArt == Len(arts)
LastTree == Len(arts[LastArt])
LastUnpacked == mode = "tar" /\ status # "failed" =>
  \A p \in Path :
    arts[LastArt][LastTree][p] # None /\ <<LastArt, LastTree, p>> \notin pending =>
      out[p] = arts[LastArt][LastTree][p]

Finished == status = "done" => pending = {}

Inv == Shape /\ Upward /\ Merged /\ LastUnpacked /\ Finished

-----------------------------------------------------------------------------
(* Initially, and when a run starts again.                                  *)

LEMMA FirstIs ==
  ASSUME NEW l \in Layouts, NEW tree \in [Slots(l) -> Trees(Inode)],
         arts = [i \in DOMAIN l |-> [b \in 1 .. l[i] |->
                   [p \in Path |-> IF Kind(tree[<<i, b>>][p]) = "file"
                                     THEN File(<<i, tree[<<i, b>>][p][2]>>) ELSE tree[<<i, b>>][p]]]]
  PROVE  Sized
  <1>1. l \in Seq(Nat \ {0}) /\ l # << >>
    BY LayoutAssumption
  <1>2. Len(l) \in Nat \ {0} /\ DOMAIN l = 1 .. Len(l) /\ \A i \in DOMAIN l : l[i] \in Nat \ {0}
    BY <1>1
  <1>3. Len(arts) = Len(l) /\ DOMAIN arts = 1 .. Len(l)
    <2> DEFINE S == {arts[i] : i \in DOMAIN l}
    <2>1. arts \in [1 .. Len(l) -> S]
      BY <1>2
    <2> QED  BY <1>2, <2>1, SeqOfLength
  <1>4. ASSUME NEW i \in DOMAIN l
        PROVE  /\ Len(arts[i]) = l[i] /\ DOMAIN arts[i] = 1 .. l[i]
               /\ \A b \in 1 .. l[i] : IsTree(arts[i][b])
    <2>1. arts[i] = [b \in 1 .. l[i] |->
                       [p \in Path |-> IF Kind(tree[<<i, b>>][p]) = "file"
                                         THEN File(<<i, tree[<<i, b>>][p][2]>>) ELSE tree[<<i, b>>][p]]]
      BY <1>4
    <2>2. Len(arts[i]) = l[i] /\ DOMAIN arts[i] = 1 .. l[i]
      <3> DEFINE S == {arts[i][b] : b \in 1 .. l[i]}
      <3>1. arts[i] \in [1 .. l[i] -> S]
        BY <2>1
      <3>2. l[i] \in Nat
        BY <1>2, <1>4
      <3> QED  BY <3>1, <3>2, SeqOfLength
    <2>3. ASSUME NEW b \in 1 .. l[i] PROVE IsTree(arts[i][b])
      <3> DEFINE f == tree[<<i, b>>]
                 c(p) == File(<<i, f[p][2]>>)
                 h == arts[i][b]
      <3>1. f \in Trees(Inode)
        <4>1. <<i, b>> \in Slots(l)
          BY <1>4, <2>3 DEF Slots
        <4> QED  BY <4>1
      <3>2. h = [p \in Path |-> IF Kind(f[p]) = "file" THEN c(p) ELSE f[p]]
        BY <2>1, <2>3
      <3>3. \A p \in Path : f[p] \in Nodes(Inode)
        BY <3>1 DEF Trees
      <3>4. \A t \in Top, x \in Leaf : f[<<t, x>>] # None => f[<<t>>] = Dir
        BY <3>1 DEF Trees
      <3>5. \A p \in Path : Kind(c(p)) = "file" /\ c(p) # None
        BY Kinds
      <3> HIDE DEF f, c, h
      <3>6. \A p \in Path : Kind(f[p]) = "dir" => f[p] = Dir
        BY <3>3, Kinds DEF Nodes
      <3>7. \A p \in Path : Kind(h[p]) = "dir" => h[p] = Dir
        BY <3>2, <3>5, <3>6
      <3>8. \A t \in Top, x \in Leaf : h[<<t, x>>] # None => h[<<t>>] = Dir
        <4> SUFFICES ASSUME NEW t \in Top, NEW x \in Leaf, h[<<t, x>>] # None
                     PROVE  h[<<t>>] = Dir
          OBVIOUS
        <4>1. <<t>> \in Path /\ <<t, x>> \in Path
          BY PathsOf
        <4>2. f[<<t, x>>] # None
          BY <3>2, <4>1, Kinds
        <4>3. f[<<t>>] = Dir
          BY <3>4, <4>2
        <4> QED  BY <3>2, <4>1, <4>3, Kinds
      <3>9. h = [p \in Path |-> h[p]]
        BY <3>2
      <3> QED  BY <3>7, <3>8, <3>9 DEF IsTree, h
    <2> QED  BY <2>2, <2>3
  <1> QED  BY <1>2, <1>3, <1>4 DEF Sized

LEMMA LastIsEntry ==
  ASSUME Sized, mode \in {"dir", "tar"}, NEW p \in Path, Holders(p) # {}
  PROVE  LastEntry(p) \in Entries(mode)
  BY LastIs, EntryHas DEF LastEntry

(* When all entries are still to be unpacked, little is claimed.            *)
Fresh ==
  /\ Shape /\ pending = Entries(mode) /\ status = "running"
  /\ Compatible =>
       /\ \A p \in Path : Holders(p) = {} => out[p] = Expected(p)
       /\ \A p \in Path, g \in Given :
            out[p] # None /\ arts[g[1]][g[2]][p] # None
              => Kind(out[p]) = Kind(arts[g[1]][g[2]][p])

LEMMA AllPending == Fresh => Inv
  <1> SUFFICES ASSUME Fresh PROVE Inv
    OBVIOUS
  <1>0. Shape /\ Sized /\ mode \in {"dir", "tar"} /\ pending = Entries(mode) /\ status = "running"
    BY DEF Fresh, Shape
  <1>1. Upward /\ Finished
    BY <1>0 DEF Upward, Finished
  <1>2. \A i, b, p : IsEntry(i, b, p) => <<i, b, p>> \in pending
    BY <1>0, EntryHas
  <1>3. \A p \in Path : Holders(p) = {} \/ LastEntry(p) \in pending
    BY <1>0, LastIsEntry
  <1>4. Merged
    BY <1>0, <1>2, <1>3 DEF Fresh, Merged
  <1>5. LastUnpacked
    <2> SUFFICES ASSUME mode = "tar", NEW p \in Path, arts[LastArt][LastTree][p] # None
                 PROVE  <<LastArt, LastTree, p>> \in pending
      BY DEF LastUnpacked
    <2>1. IsEntry(LastArt, LastTree, p)
      <3>1. LastArt \in DOMAIN arts
        BY <1>0 DEF LastArt, Sized
      <3>2. LastTree \in DOMAIN arts[LastArt]
        BY <1>0, <3>1 DEF LastTree, Sized
      <3> QED  BY <3>1, <3>2 DEF IsEntry
    <2> QED  BY <1>2, <2>1
  <1> QED  BY <1>0, <1>1, <1>4, <1>5 DEF Inv

(* Without conflicts two nodes that are given for a path are of one kind.   *)
LEMMA SameKind ==
  ASSUME Compatible, NEW p \in Path, NEW m, NEW n, m # None, n # None,
         m = prev[p] \/ \E g \in Given : m = arts[g[1]][g[2]][p],
         n = prev[p] \/ \E g \in Given : n = arts[g[1]][g[2]][p]
  PROVE  Kind(m) = Kind(n)
  BY DEF Compatible

LEMMA InitInv == Init => Inv
  <1> SUFFICES ASSUME Init PROVE Inv
    OBVIOUS
  <1>1. mode \in {"dir", "tar"}
    <2>1. mode \in Modes /\ Modes \subseteq {"dir", "tar"}
      BY LayoutAssumption DEF Init
    <2> QED  BY ONLY <2>1
  <1>2. Sized
    <2>1. PICK l \in Layouts : \E tree \in [Slots(l) -> Trees(Inode)] :
            arts = [i \in DOMAIN l |-> [b \in 1 .. l[i] |->
                      [p \in Path |-> IF Kind(tree[<<i, b>>][p]) = "file"
                                        THEN File(<<i, tree[<<i, b>>][p][2]>>) ELSE tree[<<i, b>>][p]]]]
      BY DEF Init
    <2> QED  BY <2>1, FirstIs
  <1>3. out = prev /\ pending = Entries(mode) /\ status = "running"
    BY DEF Init
  <1>4. out = [p \in Path |-> out[p]] /\ \A p \in Path : out[p] \in Nodes({<< 0 >>})
    BY DEF Init, Trees
  <1>5. \A p \in Path : Kind(out[p]) = "dir" => out[p] = Dir
    BY <1>4, Kinds DEF Nodes
  <1>6. Shape
    BY <1>1, <1>2, <1>3, <1>4, <1>5 DEF Shape
  <1>7. \A p \in Path : Holders(p) = {} => out[p] = Expected(p)
    BY <1>3 DEF Holders, Expected
  <1>8. Compatible => \A p \in Path, g \in Given :
           out[p] # None /\ arts[g[1]][g[2]][p] # None => Kind(out[p]) = Kind(arts[g[1]][g[2]][p])
    BY <1>3, SameKind
  <1> QED  BY <1>3, <1>6, <1>7, <1>8, AllPending DEF Fresh

(* What is given stays.                                                     *)
LEMMA Fixed ==
  ASSUME UNCHANGED <<mode, arts, prev>>
  PROVE  /\ Entries(mode)' = Entries(mode) /\ (Sized' <=> Sized)
         /\ (Compatible' <=> Compatible) /\ (NoneHard' <=> NoneHard) /\ Given' = Given
         /\ \A i, b, p : IsEntry(i, b, p)' <=> IsEntry(i, b, p)
         /\ \A p : Expected(p)' = Expected(p) /\ Holders(p)' = Holders(p)
                   /\ LastEntry(p)' = LastEntry(p)
         /\ LastArt' = LastArt /\ LastTree' = LastTree
  <1>1. \A i, p : Having(i, p)' = Having(i, p)
    BY DEF Having
  <1>2. Given' = Given /\ (Compatible' <=> Compatible) /\ (NoneHard' <=> NoneHard)
    BY DEF Given, Compatible, NoneHard, Unshared
  <1>3. \A i, b, p : IsEntry(i, b, p)' <=> IsEntry(i, b, p)
    BY <1>1 DEF IsEntry
  <1>4. \A p : Holders(p)' = Holders(p)
    BY <1>1 DEF Holders
  <1>5. \A p : Expected(p)' = Expected(p)
    BY <1>1 DEF Expected
  <1>6. \A p : LastEntry(p)' = LastEntry(p)
    BY <1>1, <1>4 DEF LastEntry, LastBase
  <1>7. Entries(mode)' = Entries(mode)
    BY <1>1 DEF Entries, EntriesOf, There
  <1>8. LastArt' = LastArt /\ LastTree' = LastTree
    BY DEF LastArt, LastTree
  <1>9. Sized' <=> Sized
    BY DEF Sized, IsTree
  <1> QED  BY <1>2, <1>3, <1>4, <1>5, <1>6, <1>7, <1>8, <1>9

LEMMA AllPendingNext == (Fresh => Inv)'
  BY AllPending, PTL

LEMMA RestartStep ==
  ASSUME Inv, Restart
  PROVE  Inv'
  <1>1. /\ UNCHANGED <<mode, arts, prev, out>>
        /\ pending' = Entries(mode) /\ status' = "running"
    BY DEF Restart
  <1>2. Shape'
    BY <1>1, Fixed DEF Inv, Shape
  <1>3. Compatible' => \A p \in Path : Holders(p)' = {} => out'[p] = Expected(p)'
    <2>1. Compatible => \A p \in Path : Holders(p) = {} => out[p] = Expected(p)
      BY DEF Inv, Merged
    <2> QED  BY <1>1, <2>1, Fixed
  <1>4. Compatible' => \A p \in Path, g \in Given' :
           out'[p] # None /\ arts'[g[1]][g[2]][p] # None
             => Kind(out'[p]) = Kind(arts'[g[1]][g[2]][p])
    <2>1. Compatible => \A p \in Path, g \in Given :
           out[p] # None /\ arts[g[1]][g[2]][p] # None => Kind(out[p]) = Kind(arts[g[1]][g[2]][p])
      BY DEF Inv, Merged
    <2> QED  BY <1>1, <2>1, Fixed
  <1>5. pending' = Entries(mode)'
    BY <1>1, Fixed
  <1> QED  BY <1>1, <1>2, <1>3, <1>4, <1>5, AllPendingNext DEF Fresh

-----------------------------------------------------------------------------
(* Unpacking an entry.                                                      *)

LEMMA Except ==
  ASSUME Shape, NEW p, NEW n
  PROVE  /\ DOMAIN [out EXCEPT ![p] = n] = Path
         /\ \A q \in Path : [out EXCEPT ![p] = n][q] = IF q = p THEN n ELSE out[q]
         /\ [out EXCEPT ![p] = n] = [q \in Path |-> [out EXCEPT ![p] = n][q]]
  <1>1. DOMAIN out = Path
    BY DEF Shape
  <1> QED  BY <1>1

(* Wherever it goes, out stays a tree.                                      *)
LEMMA PutShape ==
  ASSUME Inv, NEW i, NEW b, NEW p, IsEntry(i, b, p), out' = Put(<<i, b, p>>)
  PROVE  /\ out' = [q \in Path |-> out'[q]]
         /\ \A q \in Path : Kind(out'[q]) = "dir" => out'[q] = Dir
  <1> DEFINE n == Node(<<i, b, p>>)
  <1>1. out' = out \/ \E q : out' = [out EXCEPT ![q] = n]
    <2> DEFINE e == <<i, b, p>>
               a == <<Follow(out, p[1]), p[2]>>
    <2>1. e[3] = p /\ Node(e) = n
      OBVIOUS
    <2>2. out' = out \/ out' = CopyPut(out, e[3], Node(e)) \/ out' = TarPut(out, e[3], Node(e))
      BY DEF Put
    <2> HIDE DEF e, n
    <2>3. out' = out \/ out' = CopyPut(out, p, n) \/ out' = TarPut(out, p, n)
      BY <2>1, <2>2
    <2>4. /\ CopyPut(out, p, n) \in {out, [out EXCEPT ![p] = n], [out EXCEPT ![a] = n]}
          /\ TarPut(out, p, n) \in {[out EXCEPT ![p] = n], [out EXCEPT ![a] = n]}
      BY DEF CopyPut, TarPut, PutLeaf
    <2> HIDE DEF a
    <2> QED  BY <2>3, <2>4
  <1>2. Kind(n) = "dir" => n = Dir
    <2>1. PICK c \in DOMAIN arts[i] : n = arts[i][c][p]
      BY NodeIs DEF Inv, Shape
    <2>2. IsTree(arts[i][c]) /\ p \in Path
      BY DEF Inv, Shape, Sized, IsEntry
    <2> QED  BY <2>1, <2>2 DEF IsTree
  <1> HIDE DEF n
  <1>3. Shape
    BY DEF Inv
  <1>4. CASE out' = out
    BY <1>3, <1>4 DEF Shape
  <1>5. ASSUME NEW q, out' = [out EXCEPT ![q] = n]
        PROVE  /\ out' = [r \in Path |-> out'[r]]
               /\ \A r \in Path : Kind(out'[r]) = "dir" => out'[r] = Dir
    BY <1>2, <1>3, <1>5, Except DEF Shape
  <1> QED  BY <1>1, <1>4, <1>5

(* Without conflicts on its way, an entry goes where it says.               *)
LEMMA PutIs ==
  ASSUME Inv, NEW i, NEW b, NEW p, IsEntry(i, b, p), out' = Put(<<i, b, p>>),
         \A t \in Top, x \in Leaf : p = <<t, x>> => out[<<t>>] = Dir,
         mode = "dir" /\ Node(<<i, b, p>>) = Dir /\ out[p] # None => out[p] = Dir
  PROVE  \A q \in Path : out'[q] = IF q = p THEN Node(<<i, b, p>>) ELSE out[q]
  <1> DEFINE e == <<i, b, p>>
             n == Node(e)
  <1>1. p \in Path /\ p # Manifest /\ Shape
    BY Paths DEF IsEntry, Inv
  <1>2. e[3] = p
    OBVIOUS
  <1>3. out' = IF mode = "dir" THEN CopyPut(out, p, n) ELSE TarPut(out, p, n)
    BY <1>1, <1>2 DEF Put
  <1> HIDE DEF n, e
  <1>4. \A q \in Path : [out EXCEPT ![p] = n][q] = IF q = p THEN n ELSE out[q]
    BY <1>1, Except
  <1>5. CASE Len(p) = 1
    <2>1. CASE mode = "dir" /\ n = Dir /\ out[p] # None
      BY <1>3, <1>5, <2>1 DEF CopyPut, n, e
    <2>2. CASE ~ (mode = "dir" /\ n = Dir /\ out[p] # None)
      <3>1. out' = [out EXCEPT ![p] = n]
        BY <1>3, <1>5, <2>2 DEF CopyPut, TarPut
      <3> QED  BY <1>4, <3>1 DEF n, e
    <2> QED  BY <2>1, <2>2
  <1>6. CASE Len(p) = 2
    <2>1. p[1] \in Top /\ p[2] \in Leaf /\ p = <<p[1], p[2]>>
      BY <1>1, <1>6, Paths
    <2>2. Kind(out[<<p[1]>>]) # "link"
      BY <2>1, Kinds
    <2>3. Follow(out, p[1]) = p[1]
      BY <2>1, <2>2, FollowStays
    <2>4. out' = [out EXCEPT ![p] = n]
      BY <1>3, <1>6, <2>1, <2>3 DEF CopyPut, TarPut, PutLeaf
    <2> QED  BY <1>4, <2>4 DEF n, e
  <1> QED  BY <1>1, <1>5, <1>6, Paths

(* Where no kinds conflict, the way is free.                                *)
LEMMA Free ==
  ASSUME Inv, Compatible, status # "failed", NEW i, NEW b, NEW p, IsEntry(i, b, p),
         Ready(<<i, b, p>>)
  PROVE  /\ \A t \in Top, x \in Leaf : p = <<t, x>> => out[<<t>>] = Dir
         /\ out[p] # None => (out[p] = Dir <=> Node(<<i, b, p>>) = Dir)
  <1>1. Shape /\ Merged /\ Sized /\ mode \in {"dir", "tar"}
    BY DEF Inv, Shape
  <1>2. /\ \A q \in Path, g \in Given :
             out[q] # None /\ arts[g[1]][g[2]][q] # None
               => Kind(out[q]) = Kind(arts[g[1]][g[2]][q])
        /\ \A j, c, q : IsEntry(j, c, q) /\ <<j, c, q>> \notin pending => out[q] # None
    BY <1>1 DEF Merged
  <1>3. \A j \in DOMAIN arts : \A c \in DOMAIN arts[j] : \A q \in Path :
          out[q] # None /\ arts[j][c][q] # None => Kind(out[q]) = Kind(arts[j][c][q])
    <2> SUFFICES ASSUME NEW j \in DOMAIN arts, NEW c \in DOMAIN arts[j], NEW q \in Path,
                        out[q] # None, arts[j][c][q] # None
                 PROVE  Kind(out[q]) = Kind(arts[j][c][q])
      OBVIOUS
    <2>1. <<j, c>> \in Given
      BY DEF Given
    <2> QED  BY <1>2, <2>1
  <1>4. i \in DOMAIN arts /\ b \in DOMAIN arts[i] /\ p \in Path
    BY DEF IsEntry
  <1>5. ASSUME NEW t \in Top, NEW x \in Leaf, p = <<t, x>>
        PROVE  out[<<t>>] = Dir
    <2>1. arts[i][b][<<t>>] = Dir
          /\ \E c : IsEntry(i, c, <<t>>) /\ Before(<<i, c, <<t>>>>, <<i, b, <<t, x>>>>)
      BY <1>1, <1>5, Parent
    <2>2. PICK c : IsEntry(i, c, <<t>>) /\ Before(<<i, c, <<t>>>>, <<i, b, p>>)
      BY <1>5, <2>1
    <2>3. <<i, c, <<t>>>> \notin pending
      BY <2>2 DEF Ready
    <2>4. out[<<t>>] # None
      BY <1>2, <2>2, <2>3
    <2>5. <<t>> \in Path
      BY PathsOf
    <2>6. Kind(out[<<t>>]) = "dir"
      BY <1>3, <1>4, <2>1, <2>4, <2>5, Kinds
    <2> QED  BY <1>1, <2>5, <2>6 DEF Shape
  <1>6. ASSUME out[p] # None
        PROVE  out[p] = Dir <=> Node(<<i, b, p>>) = Dir
    <2>1. PICK c \in DOMAIN arts[i] : Node(<<i, b, p>>) = arts[i][c][p] /\ arts[i][c][p] # None
      BY <1>1, NodeIs
    <2>2. Kind(out[p]) = Kind(arts[i][c][p])
      BY <1>3, <1>4, <1>6, <2>1
    <2>3. Kind(arts[i][c][p]) = "dir" => arts[i][c][p] = Dir
      BY <1>1, <1>4 DEF Sized, IsTree
    <2>4. Kind(out[p]) = "dir" => out[p] = Dir
      BY <1>1, <1>4 DEF Shape
    <2> QED  BY <2>1, <2>2, <2>3, <2>4, Kinds
  <1> QED  BY <1>5, <1>6

LEMMA UnpackMerged ==
  ASSUME Inv, Compatible, status # "failed", NEW i, NEW b, NEW p, IsEntry(i, b, p), Ready(<<i, b, p>>),
         out' = Put(<<i, b, p>>), pending' = pending \ {<<i, b, p>>},
         UNCHANGED <<mode, arts, prev, status>>
  PROVE  Merged'
  <1> DEFINE e == <<i, b, p>>
  <1>1. Shape /\ Sized /\ mode \in {"dir", "tar"} /\ Upward /\ Merged
    BY DEF Inv, Shape
  <1>2. p \in Path /\ i \in DOMAIN arts
    BY DEF IsEntry
  <1>3. \A q \in Path : out'[q] = IF q = p THEN Node(e) ELSE out[q]
    <2>1. /\ \A t \in Top, x \in Leaf : p = <<t, x>> => out[<<t>>] = Dir
          /\ mode = "dir" /\ Node(e) = Dir /\ out[p] # None => out[p] = Dir
      BY Free
    <2> QED  BY <2>1, PutIs
  <1>4. PICK c \in DOMAIN arts[i] : Node(e) = arts[i][c][p] /\ arts[i][c][p] # None
    BY <1>1, NodeIs
  <1>5. status' # "failed"
    OBVIOUS
  <1>6. \A q \in Path, g \in Given' :
          out'[q] # None /\ arts'[g[1]][g[2]][q] # None
            => Kind(out'[q]) = Kind(arts'[g[1]][g[2]][q])
    <2> SUFFICES ASSUME NEW q \in Path, NEW g \in Given,
                        out'[q] # None, arts[g[1]][g[2]][q] # None
                 PROVE  Kind(out'[q]) = Kind(arts[g[1]][g[2]][q])
      BY Fixed
    <2>1. CASE q # p
      BY <1>1, <1>3, <2>1 DEF Merged
    <2>2. CASE q = p
      <3>1. <<i, c>> \in Given
        BY <1>2 DEF Given
      <3>2. \E h \in Given : Node(e) = arts[h[1]][h[2]][p]
        BY <1>4, <3>1
      <3> HIDE DEF e
      <3> QED  BY <1>2, <1>3, <1>4, <2>2, <3>2, SameKind
    <2> QED  BY <2>1, <2>2
  <1>7. ASSUME NEW j, NEW d, NEW q, IsEntry(j, d, q), <<j, d, q>> \notin pending'
        PROVE  out'[q] # None
    <2>1. q \in Path
      BY <1>7 DEF IsEntry
    <2>2. CASE q = p
      BY <1>2, <1>3, <1>4, <2>2
    <2>3. CASE q # p
      <3>1. <<j, d, q>> # e
        BY <2>3
      <3>2. <<j, d, q>> \notin pending
        BY <1>7, <3>1
      <3> QED  BY <1>1, <1>3, <1>7, <2>1, <2>3, <3>2 DEF Merged
    <2> QED  BY <2>2, <2>3
  <1>8. ASSUME NEW q \in Path, Holders(q) = {} \/ LastEntry(q) \notin pending'
        PROVE  out'[q] = Expected(q)
    <2>1. CASE q # p
      <3>1. LastEntry(q) # e
        BY <2>1 DEF LastEntry
      <3>2. Holders(q) = {} \/ LastEntry(q) \notin pending
        BY <1>8, <3>1
      <3> QED  BY <1>1, <1>3, <2>1, <3>2 DEF Merged
    <2>2. CASE q = p
      <3>1. Holders(p) # {}
        <4>1. b \in Having(i, p)
          BY DEF IsEntry, Having
        <4> QED  BY <1>2, <4>1 DEF Holders
      <3>2. LastEntry(p) \notin pending'
        BY <1>8, <2>2, <3>1
      <3>3. /\ Node(LastEntry(p)) = Expected(p)
            /\ e # LastEntry(p) => Before(e, LastEntry(p))
        BY <1>1, <1>2, <3>1, LastIs
      <3>4. e = LastEntry(p)
        <4> SUFFICES ASSUME e # LastEntry(p) PROVE FALSE
          OBVIOUS
        <4>1. LastEntry(p) \notin pending
          BY <3>2
        <4>2. LastEntry(p) \in Entries(mode)
          BY <1>1, <1>2, <3>1, LastIsEntry
        <4>3. e \in pending
          BY DEF Ready
        <4> QED  BY <1>1, <3>3, <4>1, <4>2, <4>3 DEF Upward
      <3> QED  BY <1>2, <1>3, <2>2, <3>3, <3>4
    <2> QED  BY <2>1, <2>2
  <1>9. \A j, d, q : IsEntry(j, d, q)' /\ <<j, d, q>> \notin pending' => out'[q] # None
    BY <1>7, Fixed
  <1>10. \A q \in Path : Holders(q)' = {} \/ LastEntry(q)' \notin pending' => out'[q] = Expected(q)'
    BY <1>8, Fixed
  <1> QED  BY <1>5, <1>6, <1>9, <1>10 DEF Merged

(* The last base directory of the last archive.                             *)
LEMMA LastBlock ==
  ASSUME Sized, mode = "tar"
  PROVE  /\ LastArt \in DOMAIN arts /\ LastTree \in DOMAIN arts[LastArt]
         /\ \A i \in DOMAIN arts : i <= LastArt /\ i \in Nat
         /\ \A b \in DOMAIN arts[LastArt] : b <= LastTree /\ b \in Nat
         /\ LastArt \in Nat /\ LastTree \in Nat \ {0}
         /\ \A p \in Path : arts[LastArt][LastTree][p] # None => IsEntry(LastArt, LastTree, p)
  <1>1. /\ LastArt \in DOMAIN arts /\ LastArt \in Nat
        /\ \A i \in DOMAIN arts : i <= LastArt /\ i \in Nat
    BY DEF Sized, LastArt
  <1>2. /\ LastTree \in DOMAIN arts[LastArt] /\ LastTree \in Nat \ {0}
        /\ \A b \in DOMAIN arts[LastArt] : b <= LastTree /\ b \in Nat
    BY <1>1 DEF Sized, LastTree
  <1>3. \A p \in Path : arts[LastArt][LastTree][p] # None => IsEntry(LastArt, LastTree, p)
    BY <1>1, <1>2 DEF IsEntry
  <1> QED  BY <1>1, <1>2, <1>3

LEMMA UnpackLast ==
  ASSUME Inv, status # "failed", NEW i, NEW b, NEW p, Ready(<<i, b, p>>),
         IsEntry(i, b, p) \/ (i \in DOMAIN arts /\ b = 0 /\ p = Manifest),
         out' = Put(<<i, b, p>>), pending' = pending \ {<<i, b, p>>},
         UNCHANGED <<mode, arts, prev, status>>
  PROVE  LastUnpacked'
  <1> DEFINE m == LastArt
             n == LastTree
             last == arts[m][n]
  <1> SUFFICES ASSUME mode = "tar", NEW q \in Path, last[q] # None, <<m, n, q>> \notin pending'
               PROVE  out'[q] = last[q]
    <2>1. LastArt' = m /\ LastTree' = n /\ mode' = mode /\ arts' = arts
      BY Fixed
    <2> HIDE DEF m, n
    <2> QED  BY <2>1 DEF LastUnpacked
  <1>1. Shape /\ Sized /\ Upward /\ LastUnpacked
    BY DEF Inv, Shape
  <1>2. /\ m \in DOMAIN arts /\ n \in DOMAIN arts[m] /\ m \in Nat /\ n \in Nat \ {0}
        /\ \A j \in DOMAIN arts : j <= m /\ j \in Nat
        /\ \A c \in DOMAIN arts[m] : c <= n /\ c \in Nat
        /\ \A r \in Path : last[r] # None => IsEntry(m, n, r)
    BY <1>1, LastBlock
  <1>3. LastUnpacked <=>
          \A r \in Path : last[r] # None /\ <<m, n, r>> \notin pending => out[r] = last[r]
    BY DEF LastUnpacked
  <1> HIDE DEF m, n
  <1>4. <<m, n, q>> \in Entries(mode)
    BY <1>2, EntryHas
  <1>5. <<i, b, p>> \in pending /\ \A f \in pending : ~ Before(f, <<i, b, p>>)
    BY DEF Ready
  <1>6. i = m /\ b = n
    <2> SUFFICES ASSUME i # m \/ b # n PROVE FALSE
      OBVIOUS
    <2>1. <<m, n, q>> # <<i, b, p>>
      OBVIOUS
    <2>2. <<m, n, q>> \notin pending
      BY <2>1
    <2>3. i \in DOMAIN arts /\ (b \in DOMAIN arts[i] \/ b = 0)
      BY DEF IsEntry
    <2>4. i < m \/ (i = m /\ b < n)
      BY <1>2, <2>3
    <2>5. Before(<<i, b, p>>, <<m, n, q>>)
      BY <2>4, BeforeIs
    <2> QED  BY <1>1, <1>4, <1>5, <2>2, <2>5 DEF Upward
  <1>7. IsEntry(m, n, p) /\ p \in Path
    BY <1>2, <1>6 DEF IsEntry
  <1>8. Node(<<i, b, p>>) = last[p]
    BY <1>6 DEF Node
  <1>9. ASSUME NEW t \in Top, NEW x \in Leaf, p = <<t, x>>
        PROVE  out[<<t>>] = Dir
    <2>1. arts[m][n][<<t>>] = Dir
      BY <1>1, <1>7, <1>9, Parent
    <2>2. last[<<t>>] # None /\ <<t>> \in Path
      BY <2>1, Kinds, PathsOf
    <2>3. Len(<<t>>) < Len(p) /\ p[1] = t
      BY <1>9
    <2>4. Before(<<m, n, <<t>>>>, <<i, b, p>>)
      BY <1>6, <2>3 DEF Before
    <2>5. <<m, n, <<t>>>> \notin pending
      BY <1>5, <2>4
    <2> QED  BY <1>1, <1>3, <2>1, <2>2, <2>5
  <1>10. \A r \in Path : out'[r] = IF r = p THEN last[p] ELSE out[r]
    <2>1. IsEntry(i, b, p)
      BY <1>6, <1>7
    <2> QED  BY <1>8, <1>9, <2>1, PutIs
  <1>11. CASE q = p
    BY <1>10, <1>11
  <1>12. CASE q # p
    <2>1. <<m, n, q>> # <<i, b, p>>
      BY <1>12
    <2>2. <<m, n, q>> \notin pending
      BY <2>1
    <2> QED  BY <1>1, <1>3, <1>10, <1>12, <2>2
  <1> QED  BY <1>11, <1>12

LEMMA UnpackManifest ==
  ASSUME Inv, Compatible, status # "failed", NEW i, out' = out, pending' = pending \ {<<i, 0, Manifest>>},
         UNCHANGED <<mode, arts, prev, status>>
  PROVE  Merged'
  <1>1. Merged /\ \A q \in Path : q # Manifest
    BY Paths DEF Inv
  <1>2. \A j, d, q : q \in Path /\ <<j, d, q>> \notin pending' => <<j, d, q>> \notin pending
    <2> SUFFICES ASSUME NEW j, NEW d, NEW q \in Path, <<j, d, q>> \notin pending'
                 PROVE  <<j, d, q>> \notin pending
      OBVIOUS
    <2>1. <<j, d, q>> # <<i, 0, Manifest>>
      BY <1>1
    <2> QED  BY <2>1
  <1>3. \A j, d, q : IsEntry(j, d, q) /\ <<j, d, q>> \notin pending' => out[q] # None
    BY <1>1, <1>2 DEF Merged, IsEntry
  <1>4. \A q \in Path : Holders(q) = {} \/ LastEntry(q) \notin pending' => out[q] = Expected(q)
    BY <1>1, <1>2 DEF Merged, LastEntry
  <1>5. /\ status' # "failed"
        /\ \A q \in Path, g \in Given :
             out[q] # None /\ arts[g[1]][g[2]][q] # None => Kind(out[q]) = Kind(arts[g[1]][g[2]][q])
    BY <1>1 DEF Merged
  <1> QED  BY <1>3, <1>4, <1>5, Fixed DEF Merged

LEMMA UnpackStep ==
  ASSUME Inv, NEW e \in pending, Unpack(e)
  PROVE  Inv'
  <1>1. /\ status = "running" /\ Ready(e) /\ out' = Put(e) /\ pending' = pending \ {e}
        /\ UNCHANGED <<mode, arts, prev, status, restarts>>
    BY DEF Unpack
  <1>2. Shape /\ Sized /\ mode \in {"dir", "tar"} /\ Upward
    BY DEF Inv, Shape
  <1>3. PICK i, b, p : e = <<i, b, p>> /\
           \/ IsEntry(i, b, p)
           \/ mode = "tar" /\ i \in DOMAIN arts /\ b = 0 /\ p = Manifest
    BY <1>2, EntryIs DEF Shape
  <1>4. /\ Ready(<<i, b, p>>) /\ out' = Put(<<i, b, p>>) /\ pending' = pending \ {<<i, b, p>>}
    BY <1>1, <1>3
  <1>5. p = Manifest => out' = out
    <2> SUFFICES ASSUME p = Manifest PROVE out' = out
      OBVIOUS
    <2>1. e[3] = Manifest /\ mode = "tar"
      BY <1>3, Paths DEF IsEntry
    <2> QED  BY <1>1, <2>1 DEF Put
  <1>6. Shape'
    <2>1. /\ out' = [q \in Path |-> out'[q]]
          /\ \A q \in Path : Kind(out'[q]) = "dir" => out'[q] = Dir
      <3>1. CASE IsEntry(i, b, p)
        BY <1>4, <3>1, PutShape
      <3>2. CASE p = Manifest
        BY <1>2, <1>5, <3>2 DEF Shape
      <3> QED  BY <1>3, <3>1, <3>2
    <2>2. pending' \subseteq Entries(mode)' /\ Sized'
      BY <1>1, <1>2, Fixed DEF Shape
    <2> QED  BY <1>1, <1>2, <2>1, <2>2 DEF Shape
  <1>7. Upward'
    <2> SUFFICES ASSUME NEW g \in pending', NEW f \in Entries(mode), Before(g, f)
                 PROVE  f \in pending'
      BY <1>1, Fixed DEF Upward
    <2>1. g \in pending /\ f \in pending
      BY <1>1, <1>2 DEF Upward
    <2>2. f # e
      BY <1>1, <2>1 DEF Ready
    <2> QED  BY <1>1, <2>1, <2>2
  <1>8. Merged'
    <2> SUFFICES ASSUME Compatible PROVE Merged'
      BY <1>1, Fixed DEF Merged
    <2>1. CASE IsEntry(i, b, p)
      BY <1>1, <1>4, <2>1, UnpackMerged
    <2>2. CASE b = 0 /\ p = Manifest
      BY <1>1, <1>4, <1>5, <2>2, UnpackManifest
    <2> QED  BY <1>3, <2>1, <2>2
  <1>9. LastUnpacked'
    BY <1>1, <1>3, <1>4, UnpackLast
  <1>10. Finished'
    BY <1>1 DEF Finished
  <1> QED  BY <1>6, <1>7, <1>8, <1>9, <1>10 DEF Inv

(* What stays true when nothing is unpacked.                                *)
LEMMA Stays ==
  ASSUME Inv, UNCHANGED <<mode, arts, prev, out, pending>>,
         Compatible /\ NoneHard => status' # "failed", status' # "failed" => status # "failed",
         status' = "done" => pending = {}
  PROVE  Inv'
  <1>1. Shape'
    BY Fixed DEF Inv, Shape
  <1>2. Upward' /\ Finished'
    BY Fixed DEF Inv, Upward, Finished
  <1>3. Merged'
    <2> SUFFICES ASSUME Compatible PROVE Merged'
      BY Fixed DEF Merged
    <2>1. Merged
      BY DEF Inv
    <2>2. /\ \A p \in Path, g \in Given :
               out[p] # None /\ arts[g[1]][g[2]][p] # None
                 => Kind(out[p]) = Kind(arts[g[1]][g[2]][p])
          /\ \A p \in Path : Holders(p) = {} => out[p] = Expected(p)
          /\ status # "failed" =>
               /\ \A i, b, p : IsEntry(i, b, p) /\ <<i, b, p>> \notin pending => out[p] # None
               /\ \A p \in Path :
                    Holders(p) = {} \/ LastEntry(p) \notin pending => out[p] = Expected(p)
      BY <2>1 DEF Merged
    <2> QED  BY <2>2, Fixed DEF Merged
  <1>4. LastUnpacked'
    BY Fixed DEF Inv, LastUnpacked
  <1> QED  BY <1>1, <1>2, <1>3, <1>4 DEF Inv

(* Without conflicts an entry is refused only if it is a hard link.         *)
LEMMA RefusedIsHard ==
  ASSUME Inv, Compatible, status # "failed", NEW i, NEW b, NEW p, IsEntry(i, b, p),
         Ready(<<i, b, p>>), ~ Fits(<<i, b, p>>)
  PROVE  mode = "tar" /\ ~ Unshared
  <1> DEFINE e == <<i, b, p>>
             n == Node(e)
  <1>1. Shape /\ Sized /\ mode \in {"dir", "tar"} /\ p \in Path /\ p # Manifest
    BY Paths DEF Inv, Shape, IsEntry
  <1>2. /\ \A t \in Top, x \in Leaf : p = <<t, x>> => out[<<t>>] = Dir
        /\ out[p] # None => (out[p] = Dir <=> n = Dir)
    BY Free
  <1>3. e[3] = p /\ e[1] = i
    OBVIOUS
  <1>4. IF mode = "dir" THEN ~ CopyFits(out, p, n) ELSE ~ (TarFits(out, p, n) /\ ~ HardLink(e))
    BY <1>1, <1>3 DEF Fits
  <1>5. mode = "tar" /\ HardLink(e)
    <2> HIDE DEF n, e
    <2>1. \A t \in Top : out[<<t>>] = Dir => IsDir(out, t)
      <3> SUFFICES ASSUME NEW t \in Top, out[<<t>>] = Dir PROVE IsDir(out, t)
        OBVIOUS
      <3>1. Follow(out, t) = t
        BY Kinds, FollowStays
      <3> QED  BY <3>1 DEF IsDir
    <2>2. CASE Len(p) = 1
      <3>1. p[1] \in Top /\ p = <<p[1]>>
        BY <1>1, <2>2, Paths
      <3>2. out[p] = Dir => IsDir(out, p[1])
        BY <2>1, <3>1
      <3>3. out[p] = Dir => out[p] # None
        BY Kinds
      <3> QED  BY <1>1, <1>2, <1>4, <2>2, <3>2, <3>3 DEF CopyFits, TarFits
    <2>3. CASE Len(p) = 2
      <3>1. p[1] \in Top /\ p[2] \in Leaf /\ p = <<p[1], p[2]>>
        BY <1>1, <2>3, Paths
      <3>2. IsDir(out, p[1])
        BY <1>2, <2>1, <3>1
      <3> QED  BY <1>1, <1>4, <2>3, <3>2 DEF CopyFits, TarFits
    <2> QED  BY <1>1, <2>2, <2>3, Paths
  <1>6. PICK f \in Entries(mode) \ pending : f[1] = i /\ f[3] # Manifest /\ Node(f) = n
    BY <1>3, <1>5 DEF HardLink
  <1>7. PICK c, q : f = <<i, c, q>> /\ IsEntry(i, c, q)
    <2>1. PICK j, c, q : f = <<j, c, q>> /\
             \/ IsEntry(j, c, q)
             \/ mode = "tar" /\ j \in DOMAIN arts /\ c = 0 /\ q = Manifest
      BY <1>1, EntryIs
    <2>2. j = i /\ q # Manifest
      BY <1>6, <2>1
    <2> QED  BY <2>1, <2>2
  <1>8. n = arts[i][b][p] /\ Node(f) = arts[i][c][q] /\ Kind(n) = "file"
    BY <1>5, <1>7 DEF Node, HardLink
  <1>9. f # e
    BY <1>6 DEF Ready
  <1>10. b # c \/ p # q
    BY <1>7, <1>9
  <1> QED  BY <1>5, <1>6, <1>7, <1>8, <1>10 DEF Unshared, IsEntry

(* An archive member that is refused may have lost what was in its way.     *)
LEMMA ClearIs ==
  ASSUME Inv, NEW p \in Path, out' = TarPut(out, p, None)
  PROVE  /\ out' = [q \in Path |-> out'[q]]
         /\ \A q \in Path : Kind(out'[q]) = "dir" => out'[q] = Dir
         /\ (\A t \in Top, x \in Leaf : p = <<t, x>> => out[<<t>>] = Dir) =>
              \A q \in Path : out'[q] = IF q = p THEN None ELSE out[q]
  <1> DEFINE a == <<Follow(out, p[1]), p[2]>>
  <1>1. Shape
    BY DEF Inv
  <1>2. out' = IF Len(p) = 2 THEN [out EXCEPT ![a] = None] ELSE [out EXCEPT ![p] = None]
    BY DEF TarPut, PutLeaf
  <1>3. \A t \in Top, x \in Leaf : p = <<t, x>> /\ out[<<t>>] = Dir => a = p
    <2> SUFFICES ASSUME NEW t \in Top, NEW x \in Leaf, p = <<t, x>>, out[<<t>>] = Dir PROVE a = p
      OBVIOUS
    <2>1. Follow(out, t) = t
      BY Kinds, FollowStays
    <2> QED  BY <2>1
  <1> HIDE DEF a
  <1>4. ASSUME NEW r, out' = [out EXCEPT ![r] = None]
        PROVE  /\ out' = [q \in Path |-> out'[q]]
               /\ \A q \in Path : Kind(out'[q]) = "dir" => out'[q] = Dir
               /\ \A q \in Path : out'[q] = IF q = r THEN None ELSE out[q]
    <2>1. /\ [out EXCEPT ![r] = None] = [q \in Path |-> [out EXCEPT ![r] = None][q]]
          /\ \A q \in Path : [out EXCEPT ![r] = None][q] = IF q = r THEN None ELSE out[q]
      BY <1>1, Except
    <2>2. \A q \in Path : out'[q] = IF q = r THEN None ELSE out[q]
      BY <1>4, <2>1
    <2>3. \A q \in Path : Kind(out[q]) = "dir" => out[q] = Dir
      BY <1>1 DEF Shape
    <2>4. \A q \in Path : Kind(out'[q]) = "dir" => out'[q] = Dir
      BY <2>2, <2>3, Kinds
    <2>5. out' = [q \in Path |-> out'[q]]
      BY <1>4, <2>1
    <2> QED  BY <2>2, <2>4, <2>5
  <1>5. CASE Len(p) = 1
    <2>1. out' = [out EXCEPT ![p] = None]
      BY <1>2, <1>5
    <2> QED  BY <1>4, <2>1
  <1>6. CASE Len(p) = 2
    <2>1. p[1] \in Top /\ p[2] \in Leaf /\ p = <<p[1], p[2]>>
      BY <1>6, Paths
    <2>2. out' = [out EXCEPT ![a] = None]
      BY <1>2, <1>6
    <2>3. /\ out' = [q \in Path |-> out'[q]]
          /\ \A q \in Path : Kind(out'[q]) = "dir" => out'[q] = Dir
          /\ \A q \in Path : out'[q] = IF q = a THEN None ELSE out[q]
      BY <1>4, <2>2
    <2>4. ASSUME NEW t \in Top, NEW x \in Leaf, p = <<t, x>>, out[<<t>>] = Dir
          PROVE  \A q \in Path : out'[q] = IF q = p THEN None ELSE out[q]
      <3>1. a = p
        BY <1>3, <2>4
      <3> QED  BY <2>3, <3>1
    <2>5. Len(p) # 1
      BY <1>6
    <2> QED  BY <2>1, <2>3, <2>4, <2>5
  <1> QED  BY <1>5, <1>6, Paths

LEMMA RaiseStep ==
  ASSUME Inv, NEW e \in pending, Raise(e)
  PROVE  Inv'
  <1>1. /\ status = "running" /\ Ready(e) /\ ~ Fits(e) /\ status' = "failed"
        /\ out' = IF mode = "tar" /\ TarFits(out, e[3], Node(e)) THEN TarPut(out, e[3], None) ELSE out
        /\ UNCHANGED <<mode, arts, prev, pending>>
    BY DEF Raise
  <1>2. Shape /\ Sized /\ mode \in {"dir", "tar"}
    BY DEF Inv, Shape
  <1>3. PICK i, b, p : e = <<i, b, p>> /\ IsEntry(i, b, p)
    <2>1. PICK i, b, p : e = <<i, b, p>> /\
             \/ IsEntry(i, b, p)
             \/ mode = "tar" /\ i \in DOMAIN arts /\ b = 0 /\ p = Manifest
      BY <1>2, EntryIs DEF Shape
    <2>2. p # Manifest
      <3> SUFFICES ASSUME p = Manifest PROVE FALSE
        OBVIOUS
      <3>1. e[3] = Manifest /\ mode = "tar"
        BY <2>1, Paths DEF IsEntry
      <3> QED  BY <1>1, <3>1 DEF Fits
    <2> QED  BY <2>1, <2>2
  <1>4. p \in Path /\ e[3] = p /\ Ready(<<i, b, p>>) /\ ~ Fits(<<i, b, p>>)
    BY <1>1, <1>3 DEF IsEntry
  <1>5. Compatible => ~ NoneHard
    BY <1>1, <1>3, <1>4, RefusedIsHard DEF NoneHard
  <1>6. CASE out' = out
    BY <1>1, <1>5, <1>6, Stays
  <1>7. CASE out' = TarPut(out, p, None)
    <2>1. Shape'
      BY <1>1, <1>2, <1>4, <1>7, ClearIs, Fixed DEF Shape
    <2>2. Upward' /\ Finished' /\ LastUnpacked'
      BY <1>1, Fixed DEF Inv, Upward, Finished, LastUnpacked
    <2>3. Merged'
      <3> SUFFICES ASSUME Compatible PROVE Merged'
        BY <1>1, Fixed DEF Merged
      <3>1. \A t \in Top, x \in Leaf : p = <<t, x>> => out[<<t>>] = Dir
        BY <1>1, <1>3, <1>4, Free
      <3>2. \A q \in Path : out'[q] = IF q = p THEN None ELSE out[q]
        BY <1>4, <1>7, <3>1, ClearIs
      <3>3. Holders(p) # {}
        BY <1>3 DEF Holders, IsEntry, Having
      <3>4. Merged
        BY DEF Inv
      <3>5. \A q \in Path, g \in Given' :
              out'[q] # None /\ arts'[g[1]][g[2]][q] # None
                => Kind(out'[q]) = Kind(arts'[g[1]][g[2]][q])
        BY <1>1, <3>2, <3>4, Fixed DEF Merged
      <3>6. \A q \in Path : Holders(q)' = {} => out'[q] = Expected(q)'
        BY <1>1, <3>2, <3>3, <3>4, Fixed DEF Merged
      <3>7. ~ NoneHard'
        BY <1>1, <1>5, Fixed
      <3> QED  BY <1>1, <3>5, <3>6, <3>7 DEF Merged
    <2> QED  BY <2>1, <2>2, <2>3 DEF Inv
  <1> QED  BY <1>1, <1>4, <1>6, <1>7

LEMMA StepInv == Inv /\ [Next]_vars => Inv'
  <1> SUFFICES ASSUME Inv, [Next]_vars PROVE Inv'
    OBVIOUS
  <1>1. ASSUME NEW e \in pending, Unpack(e) PROVE Inv'
    BY <1>1, UnpackStep
  <1>2. ASSUME NEW e \in pending, Raise(e) PROVE Inv'
    BY <1>2, RaiseStep
  <1>3. CASE Finish
    BY <1>3, Stays DEF Finish
  <1>4. CASE Restart
    BY <1>4, RestartStep
  <1>5. CASE UNCHANGED vars
    <2>1. UNCHANGED <<mode, arts, prev, out, pending, status>>
      BY <1>5 DEF vars
    <2> QED  BY <2>1, Stays DEF Inv, Merged, Finished
  <1> QED  BY <1>1, <1>2, <1>3, <1>4, <1>5 DEF Next

-----------------------------------------------------------------------------
(* The theorems.                                                            *)

(* Whatever order entries come in and however often a run is cut short,     *)
(* what is unpacked is in its place and what is not is still to come.       *)
THEOREM Inductive == Spec => []Inv
  BY InitInv, StepInv, PTL DEF Spec

(* Without conflicts between kinds, artifacts flatten to the union of what  *)
(* was there and all that is given, the last one to have a path deciding.   *)
THEOREM FlattenMerges == Spec => []FlattenIsUnion
  <1>1. Inv => FlattenIsUnion
    <2> SUFFICES ASSUME Inv, status = "done", Compatible
                 PROVE  out = [p \in Path |-> Expected(p)]
      BY DEF FlattenIsUnion
    <2>1. pending = {} /\ Merged /\ out = [p \in Path |-> out[p]]
      BY DEF Inv, Finished, Shape
    <2>2. \A p \in Path : out[p] = Expected(p)
      BY <2>1 DEF Merged
    <2> QED  BY <2>1, <2>2
  <1> QED  BY <1>1, Inductive, PTL

(* ... and no run is refused an entry, if no two files of an artifact are   *)
(* hard links of one another, which archives do not survive.                *)
THEOREM NoConflict == Spec => []CompatibleNeverFails
  <1>1. Inv => CompatibleNeverFails
    BY DEF Inv, Merged, NoneHard, CompatibleNeverFails
  <1> QED  BY <1>1, Inductive, PTL

(* Whatever the conflicts: an archive that is unpacked to the end has the   *)
(* files of its last base directory where it says.                          *)
THEOREM LastArchiveFound == Spec => []ArchiveFilesFound
  <1>1. Inv => ArchiveFilesFound
    <2> DEFINE last == arts[LastArt][LastTree]
    <2> SUFFICES ASSUME Inv, mode = "tar", status = "done", NEW p \in Path, Kind(last[p]) = "file"
                 PROVE  Lookup(p) = last[p]
      BY DEF ArchiveFilesFound, LastArtifactFound, LastArt, LastTree
    <2>1. pending = {} /\ LastUnpacked /\ Sized
      BY DEF Inv, Finished, Shape
    <2>2. \A q \in Path : last[q] # None => out[q] = last[q]
      BY <2>1 DEF LastUnpacked
    <2>3. IsTree(last)
      BY <2>1, LastBlock DEF Sized
    <2> HIDE DEF last
    <2>4. last[p] # None /\ out[p] = last[p]
      BY <2>2, Kinds
    <2>5. CASE Len(p) = 1
      <3>1. p[1] \in Top /\ p = <<p[1]>>
        BY <2>5, Paths
      <3>2. Kind(out[<<p[1]>>]) # "link"
        BY <2>4, <3>1
      <3>3. Follow(out, p[1]) = p[1]
        BY <3>1, <3>2, FollowStays
      <3> QED  BY <2>4, <2>5, <3>1, <3>3 DEF Lookup
    <2>6. CASE Len(p) = 2
      <3>1. p[1] \in Top /\ p[2] \in Leaf /\ p = <<p[1], p[2]>>
        BY <2>6, Paths
      <3>2. last[<<p[1]>>] = Dir /\ <<p[1]>> \in Path
        BY <2>3, <2>4, <3>1, PathsOf DEF IsTree
      <3>3. out[<<p[1]>>] = Dir
        BY <2>2, <3>2, Kinds
      <3>4. Follow(out, p[1]) = p[1]
        BY <3>1, <3>3, Kinds, FollowStays
      <3>5. IsDir(out, p[1])
        BY <3>3, <3>4 DEF IsDir
      <3> QED  BY <2>4, <2>6, <3>1, <3>4, <3>5 DEF Lookup
    <2> QED  BY <2>5, <2>6, Paths
  <1> QED  BY <1>1, Inductive, PTL
=============================================================================
