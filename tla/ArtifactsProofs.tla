--------------------------- MODULE ArtifactsProofs ---------------------------
(***************************************************************************)
(* Proofs about artifact slices: whatever descriptors, stage trees and     *)
(* failures, what ninja finds clean and has not been fooled about is the   *)
(* slice of the stage trees as they are now.                               *)
(***************************************************************************)
EXTENDS Artifacts, SequenceTheorems, TLAPS

-----------------------------------------------------------------------------
(* The invariant.                                                           *)

(* An edge is at one of its commands, or not at work.                       *)
JobOK ==
  /\ job \in [Edge -> Int]
  /\ job[ArtifactEdge] \in -1 .. 3 * Len(Comps) - 1
  /\ job[DistEdge] \in -1 .. Len(Comps)
  /\ \A c \in Comp : job[ArchiveEdge(c)] \in {-1, 0, 1}

(* Every variable is in its domain; of archive and hash only that of the   *)
(* functions matters.                                                       *)
TypeOK ==
  /\ stage \in Tree /\ art \in [Comp -> Tree] /\ dist \in Tree
  /\ manifest \in [Comp -> {None} \union SUBSET Stage]
  /\ archive \in [Comp -> {archive[c] : c \in Comp}]
  /\ hash \in [Comp -> {hash[c] : c \in Comp}]
  /\ todo \subseteq Edge /\ JobOK

(* What is at work is planned and finds its inputs finished, for which ninja*)
(* has found or made them clean.                                            *)
AtWork ==
  /\ \A e \in Edge : job[e] >= 0 => e \in todo /\ Inputs(e) \intersect todo = {}
  /\ todo # {} /\ ArtifactEdge \notin todo => Current(ArtifactEdge)

(* A component as it should be, in its directory, in an archive, and in     *)
(* dist/rocm.                                                               *)
Exact(c)    == art[c] = SliceTree(c) /\ manifest[c] = Basedirs(c)
Packing(c)  == <<Basedirs(c), SliceTree(c)>>
Archived(c) == archive[c] \in {None, Packing(c)} /\ hash[c] \in {None, Packing(c)}
Covered(c)  == \A f \in SliceFiles(c) : stage[f] # 0 => dist[f] = stage[f]

(* The artifact edge is at command n of its i-th component.                 *)
At(i, n) == job[ArtifactEdge] = 3 * (i - 1) + n

(* The component the artifact edge is at has no manifest yet; those before  *)
(* are made, and what is made from them is not.                             *)
Making ==
  \A i \in DOMAIN Comps :
    /\ At(i, 1) => art[Comps[i]] = Nothing
    /\ At(i, 2) => art[Comps[i]] = SliceTree(Comps[i])
    /\ At(i, 1) \/ At(i, 2) => manifest[Comps[i]] = None
    /\ 3 * i <= job[ArtifactEdge] =>
         Exact(Comps[i]) /\ DistEdge \notin logged /\ ArchiveEdge(Comps[i]) \notin logged

(* An edge that has succeeded on its inputs, and not failed since.          *)
Sound(e) == e \in logged /\ e \notin fooled

(* What a success of the artifact edge is worth for each component whose    *)
(* manifest is there; and for what is made from it, or half made.           *)
ArtSettled == \A c \in Comp : manifest[c] # None => Exact(c)
ArchiveSettled ==
  \A c \in Comp : /\ Sound(ArchiveEdge(c)) => Archived(c)
                  /\ job[ArchiveEdge(c)] = 1 => archive[c] = Packing(c)
DistSettled ==
  /\ Sound(DistEdge) => \A c \in Comp : Covered(c)
  /\ \A i \in DOMAIN Comps : i <= job[DistEdge] => Covered(Comps[i])
Settled == Sound(ArtifactEdge) => ArtSettled /\ ArchiveSettled /\ DistSettled

(* The inductive invariant behind all properties.                           *)
IndInv == TypeOK /\ AtWork /\ Making /\ Settled

-----------------------------------------------------------------------------
(* Components, edges and slices.                                            *)

LEMMA CompFacts ==
  /\ Len(Comps) \in Nat \ {0} /\ DOMAIN Comps = 1 .. Len(Comps)
  /\ \A i \in DOMAIN Comps : Comps[i] \in Comp
  /\ \A c \in Comp : \E i \in DOMAIN Comps : c = Comps[i]
  /\ \A i, j \in DOMAIN Comps : Comps[i] = Comps[j] => i = j
  <1> DEFINE Names == {"dbg", "dev", "lib", "run", "doc", "test"}
  <1>1. Comps \in Seq(Names) /\ Comps # << >> /\ \A i, j \in DOMAIN Comps : Comps[i] = Comps[j] => i = j
    BY SliceAssumption
  <1> HIDE DEF Names
  <1>2. Len(Comps) \in Nat \ {0} /\ DOMAIN Comps = 1 .. Len(Comps)
    BY <1>1, EmptySeq, LenProperties
  <1> QED  BY <1>1, <1>2 DEF Comp

LEMMA EdgeFacts ==
  /\ ArtifactEdge \in Edge /\ DistEdge \in Edge /\ ArtifactEdge # DistEdge
  /\ \A c \in Comp : /\ ArchiveEdge(c) \in Edge
                     /\ ArchiveEdge(c) \notin {ArtifactEdge, DistEdge}
                     /\ ArchiveEdge(c)[1] = "archive" /\ ArchiveEdge(c)[2] = c
                     /\ \A d \in Comp : ArchiveEdge(c) = ArchiveEdge(d) => c = d
  /\ ArtifactEdge[1] # "archive" /\ DistEdge[1] # "archive"
  /\ \A e \in Edge : e \in {ArtifactEdge, DistEdge} \/ \E c \in Comp : e = ArchiveEdge(c)
  BY DEF Edge, ArtifactEdge, DistEdge, ArchiveEdge

LEMMA InputFacts ==
  /\ Inputs(ArtifactEdge) = {}
  /\ \A e \in Edge : e # ArtifactEdge => Inputs(e) = {ArtifactEdge}
  BY DEF Inputs

LEMMA CurrentFacts ==
  Current(ArtifactEdge) <=> ArtifactEdge \in logged /\ \A c \in Comp : manifest[c] # None
  BY EdgeFacts DEF Current, OutputsExist

(* The tree of a slice has the current revision of its files.               *)
LEMMA SliceFacts ==
  ASSUME TypeOK, NEW c \in Comp
  PROVE  /\ SliceTree(c) \in Tree /\ SliceFiles(c) \subseteq File
         /\ Basedirs(c) \in SUBSET Stage /\ Basedirs(c) # None
         /\ \A f \in File : SliceTree(c)[f] = IF f \in SliceFiles(c) THEN stage[f] ELSE 0
         /\ \A f \in SliceFiles(c) : f[1] \in Basedirs(c)
  <1>1. Basedirs(c) \in SUBSET Stage
    BY DEF Basedirs
  <1>2. Basedirs(c) # None
    BY <1>1, SliceAssumption
  <1>3. ASSUME NEW s \in Stage PROVE Slice(c, s) \subseteq File /\ \A f \in Slice(c, s) : f[1] = s
    <2>1. Has[s] \subseteq Kind
      BY SliceAssumption
    <2> QED  BY <2>1 DEF Slice, File
  <1>4. SliceFiles(c) \subseteq File /\ \A f \in SliceFiles(c) : f[1] \in Basedirs(c)
    BY <1>1, <1>3 DEF SliceFiles
  <1>5. /\ SliceTree(c) \in Tree
        /\ \A f \in File : SliceTree(c)[f] = IF f \in SliceFiles(c) THEN stage[f] ELSE 0
    <2>1. stage \in [File -> 0 .. MaxRev] /\ 0 \in 0 .. MaxRev
      BY SliceAssumption DEF Tree, TypeOK
    <2>2. SliceTree(c) = [f \in File |-> IF f \in SliceFiles(c) /\ stage[f] # 0 THEN stage[f] ELSE 0]
      BY DEF SliceTree, Over, Nothing
    <2> QED  BY <2>1, <2>2 DEF Tree
  <1> QED  BY <1>1, <1>2, <1>4, <1>5

(* Trees that nobody writes make the same slices.                           *)
LEMMA SliceSame ==
  ASSUME UNCHANGED trees, NEW c \in Comp
  PROVE  /\ SliceTree(c)' = SliceTree(c) /\ SliceFiles(c)' = SliceFiles(c)
         /\ Basedirs(c)' = Basedirs(c) /\ Packing(c)' = Packing(c)
  <1>1. stage' = stage /\ there' = there /\ desc' = desc
    BY DEF trees
  <1>2. Basedirs(c)' = Basedirs(c)
    BY <1>1 DEF Basedirs
  <1>3. \A s \in Stage : Slice(c, s)' = Slice(c, s)
    BY <1>1 DEF Slice
  <1>4. SliceFiles(c)' = SliceFiles(c)
    BY <1>2, <1>3 DEF SliceFiles, Basedirs
  <1>5. SliceTree(c)' = SliceTree(c)
    BY <1>1, <1>4 DEF SliceTree
  <1> QED  BY <1>2, <1>4, <1>5 DEF Packing

(* ... and are as well or badly copied by what nobody writes.               *)
LEMMA CompSame ==
  ASSUME UNCHANGED trees, NEW c \in Comp
  PROVE  /\ art'[c] = art[c] /\ manifest'[c] = manifest[c] => (Exact(c)' <=> Exact(c))
         /\ archive'[c] = archive[c] /\ hash'[c] = hash[c] => (Archived(c)' <=> Archived(c))
         /\ dist' = dist => (Covered(c)' <=> Covered(c))
  BY SliceSame DEF Exact, Archived, Covered, trees

(* An artifact directory that is exact is packed as it is.                  *)
LEMMA PackedExact ==
  ASSUME TypeOK, NEW c \in Comp, Exact(c)
  PROVE  Packed(c) = Packing(c)
  <1>1. \A f \in File : (IF f[1] \in Basedirs(c) THEN SliceTree(c)[f] ELSE 0) = SliceTree(c)[f]
    BY SliceFacts
  <1>2. SliceTree(c) = [f \in File |-> SliceTree(c)[f]]
    BY SliceFacts DEF Tree
  <1> QED  BY <1>1, <1>2 DEF Packed, Packing, Exact

(* Merging trees.                                                           *)
LEMMA OverFacts ==
  /\ Nothing \in Tree
  /\ \A s, t \in Tree : \A F \in SUBSET File :
       /\ Over(s, F, t) \in Tree
       /\ \A f \in File : Over(s, F, t)[f] = IF f \in F /\ s[f] # 0 THEN s[f] ELSE t[f]
  BY SliceAssumption DEF Over, Tree, Nothing

LEMMA PackedType ==
  ASSUME TypeOK, NEW c \in Comp
  PROVE  Packed(c)[2] \in Tree
  <1>1. art[c] \in [File -> 0 .. MaxRev] /\ 0 \in 0 .. MaxRev
    BY SliceAssumption DEF TypeOK, Tree
  <1> QED  BY <1>1 DEF Packed, Tree

-----------------------------------------------------------------------------
(* Where the edges are.                                                     *)

LEMMA Position ==
  ASSUME TypeOK, NEW n \in 0 .. 2, AtStep(n)
  PROVE  \E i \in DOMAIN Comps : Component = Comps[i] /\ At(i, n)
  <1>1. job[ArtifactEdge] \in 0 .. 3 * Len(Comps) - 1 /\ job[ArtifactEdge] % 3 = n
    BY DEF AtStep, TypeOK, JobOK
  <1> DEFINE i == job[ArtifactEdge] \div 3 + 1
  <1>2. i \in DOMAIN Comps /\ job[ArtifactEdge] = 3 * (i - 1) + n
    <2> DEFINE j == job[ArtifactEdge]
               len == Len(Comps)
    <2>1. len \in Nat /\ j \in 0 .. 3 * len - 1 /\ j % 3 = n
      BY <1>1, CompFacts
    <2> HIDE DEF j, len
    <2>2. j \div 3 + 1 \in 1 .. len /\ j = 3 * (j \div 3) + n
      BY <2>1
    <2> QED  BY <2>1, <2>2, CompFacts DEF j, len
  <1> QED  BY <1>2 DEF Component, At

(* Nothing works next to the artifact edge.                                 *)
LEMMA Alone ==
  ASSUME TypeOK, AtWork, job[ArtifactEdge] >= 0
  PROVE  \A e \in Edge : e # ArtifactEdge => job[e] = -1
  <1>1. \A e \in Edge : job[e] \in Int /\ job[e] >= -1
    <2>1. ASSUME NEW e \in Edge PROVE job[e] \in Int /\ job[e] >= -1
      <3>1. CASE \E c \in Comp : e = ArchiveEdge(c)
        <4>1. PICK c \in Comp : e = ArchiveEdge(c)
          BY <3>1
        <4>2. job[ArchiveEdge(c)] \in {-1, 0, 1}
          BY DEF TypeOK, JobOK
        <4> QED  BY <4>1, <4>2
      <3>2. job[ArtifactEdge] \in Int /\ job[DistEdge] \in Int
        BY EdgeFacts DEF TypeOK, JobOK
      <3>3. job[ArtifactEdge] >= -1 /\ job[DistEdge] >= -1
        BY <3>2, CompFacts DEF TypeOK, JobOK
      <3> QED  BY <3>1, <3>2, <3>3, EdgeFacts
    <2> QED  BY <2>1
  <1>2. ArtifactEdge \in todo
    BY EdgeFacts DEF AtWork
  <1> QED  BY <1>1, <1>2, InputFacts DEF AtWork

(* What is made from it works on what it has made.                          *)
LEMMA Others ==
  ASSUME TypeOK, AtWork, NEW e \in Edge, e # ArtifactEdge, job[e] >= 0
  PROVE  /\ e \in todo /\ ArtifactEdge \notin todo /\ job[ArtifactEdge] = -1
         /\ ArtifactEdge \in logged /\ \A c \in Comp : manifest[c] # None
  <1>1. e \in todo /\ ArtifactEdge \notin todo
    BY InputFacts DEF AtWork
  <1>2. job[ArtifactEdge] = -1
    BY <1>1, EdgeFacts DEF AtWork, TypeOK, JobOK
  <1>3. Current(ArtifactEdge)
    BY <1>1 DEF AtWork
  <1> QED  BY <1>1, <1>2, <1>3, CurrentFacts

LEMMA Resting ==
  ASSUME job[ArtifactEdge] = -1
  PROVE  Making
  <1>1. \A i \in DOMAIN Comps : i \in Nat /\ i > 0
    BY CompFacts
  <1> QED  BY <1>1 DEF Making, At

(* One edge goes to another of its commands.                                *)
LEMMA JobStep ==
  ASSUME TypeOK, NEW e \in Edge, job' \in [Edge -> Int],
         \A f \in Edge : f # e => job'[f] = job[f],
         e = ArtifactEdge => job'[e] \in -1 .. 3 * Len(Comps) - 1,
         e = DistEdge => job'[e] \in -1 .. Len(Comps),
         e \notin {ArtifactEdge, DistEdge} => job'[e] \in {-1, 0, 1}
  PROVE  JobOK'
  <1>1. job'[ArtifactEdge] \in -1 .. 3 * Len(Comps) - 1
    BY EdgeFacts DEF TypeOK, JobOK
  <1>2. job'[DistEdge] \in -1 .. Len(Comps)
    BY EdgeFacts DEF TypeOK, JobOK
  <1>3. ASSUME NEW c \in Comp PROVE job'[ArchiveEdge(c)] \in {-1, 0, 1}
    <2>1. ArchiveEdge(c) \in Edge /\ ArchiveEdge(c) \notin {ArtifactEdge, DistEdge}
      BY EdgeFacts
    <2>2. job[ArchiveEdge(c)] \in {-1, 0, 1}
      BY DEF TypeOK, JobOK
    <2> QED  BY <2>1, <2>2
  <1> QED  BY <1>1, <1>2, <1>3 DEF JobOK

-----------------------------------------------------------------------------
(* ninja.                                                                   *)

LEMMA StartNinjaStep ==
  ASSUME IndInv, NEW targets \in SUBSET Edge, StartNinja(targets)
  PROVE  IndInv'
  <1>1. /\ todo = {} /\ todo' \subseteq Edge
        /\ UNCHANGED <<stage, there, desc, art, manifest, archive, hash, dist, stamp, logged, fooled, job>>
    BY EdgeFacts, InputFacts DEF StartNinja, trees, outputs, ninja
  <1>2. \A e \in Edge : ~ (job[e] >= 0)
    BY <1>1 DEF IndInv, AtWork
  <1>3. ASSUME todo' # {}, ArtifactEdge \notin todo' PROVE Current(ArtifactEdge)
    <2>1. PICK e \in todo' : TRUE
      BY <1>3
    <2>2. e # ArtifactEdge /\ e \in targets \union UNION {Inputs(t) : t \in targets}
      BY <1>3 DEF StartNinja
    <2>3. e \in targets /\ Inputs(e) = {ArtifactEdge}
      BY <2>2, InputFacts
    <2>4. Clean(ArtifactEdge)
      BY <1>3, <2>3 DEF StartNinja
    <2> QED  BY <2>4 DEF Clean
  <1>4. /\ UNCHANGED trees
        /\ \A c \in Comp : (Exact(c)' <=> Exact(c)) /\ (Covered(c)' <=> Covered(c))
        /\ \A c \in Comp : (Archived(c)' <=> Archived(c)) /\ Packing(c)' = Packing(c)
        /\ \A c \in Comp : SliceTree(c)' = SliceTree(c)
    BY <1>1, CompSame, SliceSame DEF trees
  <1>7. TypeOK'
    BY <1>1 DEF IndInv, TypeOK, JobOK
  <1>8. Making'
    BY <1>1, <1>4, CompFacts DEF IndInv, Making, At
  <1>9. Settled'
    BY <1>1, <1>4, CompFacts DEF IndInv, Settled, Sound, ArtSettled, ArchiveSettled, DistSettled
  <1>5. Current(ArtifactEdge)' <=> Current(ArtifactEdge)
    BY <1>1 DEF Current, OutputsExist
  <1>6. AtWork'
    BY <1>1, <1>2, <1>3, <1>5 DEF AtWork
  <1> QED  BY <1>6, <1>7, <1>8, <1>9 DEF IndInv

(* An edge that starts changes nothing.                                     *)
LEMMA StartEdgeStep ==
  ASSUME IndInv, NEW e \in Edge, StartEdge(e)
  PROVE  IndInv'
  <1>1. /\ e \in todo /\ job[e] = -1 /\ Inputs(e) \intersect todo = {}
        /\ job' = [job EXCEPT ![e] = 0]
        /\ UNCHANGED <<stage, there, desc, art, manifest, archive, hash, dist, stamp, logged, fooled, todo>>
    BY DEF StartEdge, trees, outputs, ninja
  <1>2. JobOK' /\ job'[e] = 0 /\ \A f \in Edge : f # e => job'[f] = job[f]
    <2>1. 0 \in -1 .. 3 * Len(Comps) - 1 /\ 0 \in -1 .. Len(Comps)
      BY CompFacts
    <2>2. job' \in [Edge -> Int] /\ job'[e] = 0 /\ \A f \in Edge : f # e => job'[f] = job[f]
      BY <1>1 DEF IndInv, TypeOK, JobOK
    <2> QED  BY <2>1, <2>2, JobStep DEF IndInv
  <1>3. TypeOK'
    BY <1>1, <1>2 DEF IndInv, TypeOK
  <1>4. Current(ArtifactEdge)' <=> Current(ArtifactEdge)
    BY <1>1 DEF Current, OutputsExist
  <1>5. AtWork'
    BY <1>1, <1>2, <1>4 DEF IndInv, AtWork
  <1>6. /\ \A c \in Comp : (Exact(c)' <=> Exact(c)) /\ (Covered(c)' <=> Covered(c))
        /\ \A c \in Comp : (Archived(c)' <=> Archived(c)) /\ Packing(c)' = Packing(c)
        /\ \A c \in Comp : SliceTree(c)' = SliceTree(c)
    BY <1>1, CompSame, SliceSame DEF trees
  <1>7. Making'
    <2>1. CASE e = ArtifactEdge
      <3>1. \A i \in DOMAIN Comps : i \in Nat /\ i > 0
        BY CompFacts
      <3> QED  BY <1>2, <2>1, <3>1 DEF Making, At
    <2>2. CASE e # ArtifactEdge
      <3>1. job'[ArtifactEdge] = job[ArtifactEdge]
        BY <1>2, <2>2, EdgeFacts
      <3> QED  BY <1>1, <1>6, <3>1, CompFacts DEF IndInv, Making, At
    <2> QED  BY <2>1, <2>2
  <1>8. Settled'
    <2>1. ASSUME Sound(ArtifactEdge) PROVE ArchiveSettled'
      <3>1. \A c \in Comp : job'[ArchiveEdge(c)] = 1 => job[ArchiveEdge(c)] = 1
        BY <1>2, EdgeFacts
      <3> QED  BY <1>1, <1>6, <2>1, <3>1 DEF IndInv, Settled, ArchiveSettled, Sound
    <2>2. ASSUME Sound(ArtifactEdge) PROVE DistSettled'
      <3>1. \A i \in DOMAIN Comps : i <= job'[DistEdge] => i <= job[DistEdge]
        BY <1>2, EdgeFacts, CompFacts
      <3> QED  BY <1>1, <1>6, <2>2, <3>1, CompFacts DEF IndInv, Settled, DistSettled, Sound
    <2>3. ASSUME Sound(ArtifactEdge) PROVE ArtSettled'
      BY <1>1, <1>6, <2>3 DEF IndInv, Settled, ArtSettled
    <2> QED  BY <1>1, <2>1, <2>2, <2>3 DEF Settled, Sound
  <1> QED  BY <1>3, <1>5, <1>7, <1>8 DEF IndInv

-----------------------------------------------------------------------------
(* The artifact edge.                                                       *)

(* What it does between two manifests is settled for the others.            *)
LEMMA ArtifactMoves ==
  ASSUME IndInv, NEW i \in DOMAIN Comps, NEW n \in 0 .. 1, At(i, n),
         job' = [job EXCEPT ![ArtifactEdge] = @ + 1],
         art' \in [Comp -> Tree], manifest' \in [Comp -> {None} \union SUBSET Stage],
         manifest'[Comps[i]] = None,
         \A c \in Comp : c # Comps[i] => art'[c] = art[c] /\ manifest'[c] = manifest[c],
         n = 0 => art'[Comps[i]] = Nothing,
         n = 1 => art'[Comps[i]] = SliceTree(Comps[i]),
         UNCHANGED <<trees, archive, hash, dist, logged, fooled, todo>>
  PROVE  IndInv'
  <1>1. i \in Nat /\ i > 0 /\ i <= Len(Comps) /\ Len(Comps) \in Nat /\ Comps[i] \in Comp
    BY CompFacts
  <1>2. /\ job' \in [Edge -> Int] /\ job'[ArtifactEdge] = 3 * (i - 1) + n + 1
        /\ \A e \in Edge : e # ArtifactEdge => job'[e] = job[e]
    <2>1. job \in [Edge -> Int] /\ job[ArtifactEdge] = 3 * (i - 1) + n
      BY DEF IndInv, TypeOK, JobOK, At
    <2>2. 3 * (i - 1) + n + 1 \in Int
      BY <1>1
    <2> QED  BY <2>1, <2>2, EdgeFacts
  <1>3. \A e \in Edge : e # ArtifactEdge => job[e] = -1
    BY <1>1, Alone DEF IndInv, At
  <1>4. TypeOK'
    <2>1. job'[ArtifactEdge] \in -1 .. 3 * Len(Comps) - 1
      BY <1>1, <1>2
    <2>2. JobOK'
      BY <1>2, <2>1, EdgeFacts, JobStep DEF IndInv
    <2> QED  BY <2>2 DEF IndInv, TypeOK, trees
  <1>5. AtWork'
    <2>1. ArtifactEdge \in todo
      BY <1>1, EdgeFacts DEF IndInv, AtWork, At
    <2> QED  BY <1>2, <1>3, <2>1, InputFacts DEF IndInv, AtWork
  <1>6. /\ \A c \in Comp : c # Comps[i] => (Exact(c)' <=> Exact(c))
        /\ \A c \in Comp : (Archived(c)' <=> Archived(c)) /\ (Covered(c)' <=> Covered(c))
        /\ \A c \in Comp : SliceTree(c)' = SliceTree(c)
    BY CompSame, SliceSame
  <1>7. Making'
    <2> SUFFICES ASSUME NEW k \in DOMAIN Comps
                 PROVE  /\ At(k, 1)' => art'[Comps[k]] = Nothing
                        /\ At(k, 2)' => art'[Comps[k]] = SliceTree(Comps[k])
                        /\ At(k, 1)' \/ At(k, 2)' => manifest'[Comps[k]] = None
                        /\ 3 * k <= job'[ArtifactEdge] =>
                             /\ Exact(Comps[k])'
                             /\ DistEdge \notin logged /\ ArchiveEdge(Comps[k]) \notin logged
      BY <1>6, CompFacts DEF Making
    <2>1. k \in Nat /\ k > 0 /\ Comps[k] \in Comp /\ (Comps[k] = Comps[i] => k = i)
      BY CompFacts
    <2>2. /\ At(k, 1)' => k = i /\ n = 0
          /\ At(k, 2)' => k = i /\ n = 1
          /\ 3 * k <= job'[ArtifactEdge] => k < i
      <3> DEFINE j == job'[ArtifactEdge]
      <3>1. i \in Nat /\ k \in Nat /\ n \in 0 .. 1 /\ j = 3 * (i - 1) + n + 1
        BY <1>1, <1>2, <2>1
      <3> HIDE DEF j
      <3>2. j = 3 * (k - 1) + 1 => k = i /\ n = 0
        BY ONLY <3>1
      <3>3. j = 3 * (k - 1) + 2 => k = i /\ n = 1
        BY ONLY <3>1
      <3>4. 3 * k <= j => k < i
        BY ONLY <3>1
      <3> QED  BY <3>2, <3>3, <3>4 DEF At, j
    <2>3. k < i => 3 * k <= job[ArtifactEdge]
      BY <1>1, <2>1 DEF At
    <2>4. 3 * k <= job'[ArtifactEdge] =>
            Exact(Comps[k]) /\ DistEdge \notin logged /\ ArchiveEdge(Comps[k]) \notin logged
      BY <2>2, <2>3 DEF IndInv, Making
    <2>5. 3 * k <= job'[ArtifactEdge] => Exact(Comps[k])'
      BY <1>6, <2>1, <2>2, <2>4
    <2> QED  BY <2>2, <2>4, <2>5
  <1>8. Settled'
    <2> SUFFICES ASSUME Sound(ArtifactEdge) PROVE ArtSettled' /\ ArchiveSettled' /\ DistSettled'
      BY DEF Settled, Sound
    <2>1. ArtSettled'
      BY <1>1, <1>6 DEF IndInv, Settled, ArtSettled
    <2>2. ArchiveSettled'
      <3>1. \A c \in Comp : job'[ArchiveEdge(c)] # 1
        BY <1>2, <1>3, EdgeFacts
      <3> QED  BY <1>6, <3>1 DEF IndInv, Settled, ArchiveSettled, Sound
    <2>3. DistSettled'
      <3>1. \A k \in DOMAIN Comps : ~ (k <= job'[DistEdge])
        BY <1>2, <1>3, EdgeFacts, CompFacts
      <3> QED  BY <1>6, <3>1 DEF IndInv, Settled, DistSettled, Sound
    <2> QED  BY <2>1, <2>2, <2>3
  <1> QED  BY <1>4, <1>5, <1>7, <1>8 DEF IndInv

LEMMA ClearStep ==
  ASSUME IndInv, Clear
  PROVE  IndInv'
  <1>1. PICK i \in DOMAIN Comps : Component = Comps[i] /\ At(i, 0)
    BY Position DEF IndInv, Clear
  <1>2. /\ art' = [art EXCEPT ![Comps[i]] = Nothing]
        /\ manifest' = [manifest EXCEPT ![Comps[i]] = None]
        /\ job' = [job EXCEPT ![ArtifactEdge] = @ + 1]
        /\ UNCHANGED <<trees, archive, hash, dist, logged, fooled, todo>>
    BY <1>1 DEF Clear, Advance, ninja
  <1>3. /\ art' \in [Comp -> Tree] /\ manifest' \in [Comp -> {None} \union SUBSET Stage]
        /\ art'[Comps[i]] = Nothing /\ manifest'[Comps[i]] = None
        /\ \A c \in Comp : c # Comps[i] => art'[c] = art[c] /\ manifest'[c] = manifest[c]
    <2>1. art \in [Comp -> Tree] /\ manifest \in [Comp -> {None} \union SUBSET Stage]
      BY DEF IndInv, TypeOK
    <2>2. Comps[i] \in Comp /\ Nothing \in Tree
      BY CompFacts, OverFacts
    <2> QED  BY <1>2, <2>1, <2>2
  <1> QED  BY <1>1, <1>2, <1>3, ArtifactMoves

(* An empty directory is filled with the slice.                             *)
LEMMA FillStep ==
  ASSUME IndInv, Fill
  PROVE  IndInv'
  <1>1. PICK i \in DOMAIN Comps : Component = Comps[i] /\ At(i, 1)
    BY Position DEF IndInv, Fill
  <1>2. art[Comps[i]] = Nothing /\ manifest[Comps[i]] = None /\ Comps[i] \in Comp
    BY <1>1, CompFacts DEF IndInv, Making
  <1>3. /\ art' = [art EXCEPT ![Comps[i]] = SliceTree(Comps[i])]
        /\ job' = [job EXCEPT ![ArtifactEdge] = @ + 1]
        /\ UNCHANGED <<trees, manifest, archive, hash, dist, logged, fooled, todo>>
    BY <1>1, <1>2 DEF Fill, Advance, ninja, SliceTree, IndInv, TypeOK
  <1>4. /\ art' \in [Comp -> Tree] /\ manifest' \in [Comp -> {None} \union SUBSET Stage]
        /\ art'[Comps[i]] = SliceTree(Comps[i]) /\ manifest'[Comps[i]] = None
        /\ \A c \in Comp : c # Comps[i] => art'[c] = art[c] /\ manifest'[c] = manifest[c]
    BY <1>2, <1>3, SliceFacts DEF IndInv, TypeOK
  <1> QED  BY <1>1, <1>3, <1>4, ArtifactMoves

(* The manifest of the last component makes all of them count.              *)
LEMMA SealStep ==
  ASSUME IndInv, Seal
  PROVE  IndInv'
  <1>1. PICK i \in DOMAIN Comps : Component = Comps[i] /\ At(i, 2)
    BY Position DEF IndInv, Seal
  <1> DEFINE c == Comps[i]
             last == i = Len(Comps)
  <1>2. /\ i \in Nat /\ i > 0 /\ i <= Len(Comps) /\ Len(Comps) \in Nat /\ c \in Comp
        /\ last <=> c = Comps[Len(Comps)]
    BY CompFacts
  <1>3. /\ manifest' = [manifest EXCEPT ![c] = Basedirs(c)]
        /\ logged' = (logged \ {DistEdge, ArchiveEdge(c)}) \union IF last THEN {ArtifactEdge} ELSE {}
        /\ fooled' = IF last THEN fooled \ {ArtifactEdge} ELSE fooled
        /\ IF last THEN job' = [job EXCEPT ![ArtifactEdge] = -1] /\ todo' = todo \ {ArtifactEdge}
                   ELSE job' = [job EXCEPT ![ArtifactEdge] = @ + 1] /\ todo' = todo
        /\ UNCHANGED <<trees, art, archive, hash, dist>>
    BY <1>1, <1>2 DEF Seal, Advance
  <1> HIDE DEF c
  <1>4. /\ manifest'[c] = Basedirs(c) /\ \A d \in Comp : d # c => manifest'[d] = manifest[d]
        /\ manifest' \in [Comp -> {None} \union SUBSET Stage]
    BY <1>2, <1>3, SliceFacts DEF IndInv, TypeOK
  <1>5. \A e \in Edge : e # ArtifactEdge => job[e] = -1
    BY <1>1, <1>2, Alone DEF IndInv, At
  <1>6. /\ job' \in [Edge -> Int] /\ job'[ArtifactEdge] = (IF last THEN -1 ELSE 3 * i)
        /\ \A e \in Edge : e # ArtifactEdge => job'[e] = -1
    <2>1. job \in [Edge -> Int] /\ job[ArtifactEdge] = 3 * (i - 1) + 2
      BY <1>1 DEF IndInv, TypeOK, JobOK, At
    <2>2. 3 * (i - 1) + 2 + 1 = 3 * i /\ 3 * i \in Int
      BY <1>2
    <2> QED  BY <1>3, <1>5, <2>1, <2>2, EdgeFacts
  <1>7. TypeOK'
    <2>1. job'[ArtifactEdge] \in -1 .. 3 * Len(Comps) - 1
      BY <1>2, <1>6
    <2>2. JobOK'
      BY <1>5, <1>6, <2>1, EdgeFacts, JobStep DEF IndInv
    <2>3. todo' \subseteq Edge
      BY <1>3 DEF IndInv, TypeOK
    <2> QED  BY <1>3, <1>4, <2>2, <2>3 DEF IndInv, TypeOK, trees
  <1>8. /\ \A d \in Comp : d # c => (Exact(d)' <=> Exact(d))
        /\ \A d \in Comp : (Archived(d)' <=> Archived(d)) /\ (Covered(d)' <=> Covered(d))
        /\ \A d \in Comp : SliceTree(d)' = SliceTree(d) /\ Basedirs(d)' = Basedirs(d)
    BY <1>3, <1>4, CompSame, SliceSame
  <1>9. Exact(c)'
    <2>1. art[c] = SliceTree(c)
      BY <1>1 DEF IndInv, Making, c
    <2> QED  BY <1>2, <1>3, <1>4, <1>8, <2>1 DEF Exact
  <1>10. ASSUME NEW k \in DOMAIN Comps, k <= i
         PROVE  /\ Comps[k] \in Comp /\ Exact(Comps[k])'
                /\ DistEdge \notin logged' /\ ArchiveEdge(Comps[k]) \notin logged'
    <2>1. k \in Nat /\ k > 0 /\ Comps[k] \in Comp
      BY CompFacts
    <2>2. ArchiveEdge(Comps[k]) # ArtifactEdge /\ DistEdge # ArtifactEdge
      BY <2>1, EdgeFacts
    <2>3. CASE k = i
      BY <1>3, <1>9, <2>1, <2>2, <2>3 DEF c
    <2>4. CASE k # i
      <3>1. 3 * k <= job[ArtifactEdge]
        BY <1>1, <1>2, <1>10, <2>1, <2>4 DEF At
      <3>2. Exact(Comps[k]) /\ DistEdge \notin logged /\ ArchiveEdge(Comps[k]) \notin logged
        BY <3>1 DEF IndInv, Making
      <3>3. Comps[k] # c
        BY <2>4, CompFacts DEF c
      <3> QED  BY <1>3, <1>8, <2>1, <2>2, <3>2, <3>3
    <2> QED  BY <2>3, <2>4
  <1>11. Making'
    <2> SUFFICES ASSUME NEW k \in DOMAIN Comps
                 PROVE  /\ ~ At(k, 1)' /\ ~ At(k, 2)'
                        /\ 3 * k <= job'[ArtifactEdge] => k <= i
      BY <1>10 DEF Making
    <2> DEFINE j == job'[ArtifactEdge]
    <2>1. k \in Nat /\ k > 0 /\ i \in Nat /\ j \in {-1, 3 * i}
      BY <1>2, <1>6, CompFacts
    <2> HIDE DEF j
    <2>2. j # 3 * (k - 1) + 1 /\ j # 3 * (k - 1) + 2 /\ (3 * k <= j => k <= i)
      BY ONLY <2>1
    <2> QED  BY <2>2 DEF At, j
  <1>12. CASE last
    <2>1. \A d \in Comp : /\ Exact(d)' /\ ArchiveEdge(d) \notin logged'
                          /\ job'[ArchiveEdge(d)] = -1
      BY <1>2, <1>6, <1>10, <1>12, CompFacts, EdgeFacts
    <2>2. DistEdge \notin logged' /\ job'[DistEdge] = -1
      BY <1>2, <1>6, <1>10, EdgeFacts
    <2>3. \A k \in DOMAIN Comps : ~ (k <= job'[DistEdge])
      BY <2>2, CompFacts
    <2>4. Settled'
      BY <2>1, <2>2, <2>3 DEF Settled, ArtSettled, ArchiveSettled, DistSettled, Sound
    <2>5. \A e \in Edge : ~ (job'[e] >= 0)
      BY <1>6, <1>12
    <2>6. \A d \in Comp : manifest'[d] # None
      BY <1>8, <2>1, SliceFacts DEF Exact, IndInv
    <2>7. Current(ArtifactEdge)'
      BY <1>3, <1>12, <2>6, EdgeFacts DEF Current, OutputsExist
    <2>8. AtWork'
      BY <2>5, <2>7 DEF AtWork
    <2> QED  BY <1>7, <1>11, <2>4, <2>8 DEF IndInv
  <1>13. CASE ~ last
    <2>1. ArtifactEdge \in todo
      BY <1>1, <1>2, EdgeFacts DEF IndInv, AtWork, At
    <2>2. AtWork'
      BY <1>3, <1>6, <1>13, <2>1, InputFacts, EdgeFacts DEF IndInv, AtWork
    <2>3. /\ \A e \in Edge : Sound(e)' => Sound(e)
          /\ ~ Sound(DistEdge)'
      BY <1>3, <1>13 DEF Sound
    <2>4. \A d \in Comp : job'[ArchiveEdge(d)] # 1
      BY <1>6, EdgeFacts
    <2>5. \A k \in DOMAIN Comps : ~ (k <= job'[DistEdge])
      BY <1>6, EdgeFacts, CompFacts
    <2>6. ASSUME Sound(ArtifactEdge) PROVE ArtSettled'
      BY <1>4, <1>8, <1>9, <2>6 DEF IndInv, Settled, ArtSettled
    <2>7. ASSUME Sound(ArtifactEdge) PROVE ArchiveSettled'
      BY <1>8, <2>3, <2>4, <2>7, EdgeFacts DEF IndInv, Settled, ArchiveSettled
    <2>8. DistSettled'
      BY <2>3, <2>5 DEF DistSettled
    <2> QED  BY <1>7, <1>11, <2>2, <2>3, <2>6, <2>7, <2>8, EdgeFacts DEF IndInv, Settled
  <1> QED  BY <1>12, <1>13

-----------------------------------------------------------------------------
(* The edges that use it.                                                   *)

(* They leave the artifact directories alone.                               *)
LEMMA OtherMoves ==
  ASSUME IndInv, NEW e \in Edge, e # ArtifactEdge, job[e] >= 0,
         job' \in [Edge -> Int], \A f \in Edge : f # e => job'[f] = job[f],
         e = DistEdge => job'[e] \in -1 .. Len(Comps),
         e # DistEdge => job'[e] \in {-1, 0, 1},
         todo' \subseteq todo, \A f \in todo : job'[f] >= 0 => f \in todo',
         ArtifactEdge \in logged => ArtifactEdge \in logged',
         UNCHANGED <<trees, art, manifest>>
  PROVE  /\ JobOK' /\ AtWork' /\ Making'
         /\ Sound(ArtifactEdge) => ArtSettled'
  <1>1. /\ e \in todo /\ ArtifactEdge \notin todo /\ job[ArtifactEdge] = -1
        /\ ArtifactEdge \in logged /\ \A c \in Comp : manifest[c] # None
    BY Others DEF IndInv
  <1>2. JobOK'
    BY JobStep DEF IndInv
  <1>3. Current(ArtifactEdge)'
    BY <1>1, EdgeFacts DEF Current, OutputsExist
  <1>4. \A f \in Edge : job'[f] >= 0 => f \in todo' /\ Inputs(f) \intersect todo' = {}
    <2>1. ASSUME NEW f \in Edge, job'[f] >= 0 PROVE job[f] >= 0
      BY <2>1
    <2> QED  BY <2>1 DEF IndInv, AtWork
  <1>5. AtWork'
    BY <1>3, <1>4 DEF AtWork
  <1>6. Making'
    <2>1. job'[ArtifactEdge] = -1
      BY <1>1, EdgeFacts
    <2>2. \A i \in DOMAIN Comps : i \in Nat /\ i > 0
      BY CompFacts
    <2> QED  BY <2>1, <2>2 DEF Making, At
  <1>7. ASSUME Sound(ArtifactEdge) PROVE ArtSettled'
    BY <1>7, CompSame DEF IndInv, Settled, ArtSettled
  <1> QED  BY <1>2, <1>5, <1>6, <1>7

LEMMA PackStep ==
  ASSUME IndInv, NEW c \in Comp, Pack(c)
  PROVE  IndInv'
  <1> DEFINE e == ArchiveEdge(c)
  <1>1. e \in Edge /\ e # ArtifactEdge /\ e # DistEdge /\ \A d \in Comp : d # c => ArchiveEdge(d) # e
    BY EdgeFacts
  <1>2. /\ job[e] = 0 /\ archive' = [archive EXCEPT ![c] = Packed(c)]
        /\ job' = [job EXCEPT ![e] = @ + 1] /\ todo' = todo
        /\ UNCHANGED <<trees, art, manifest, hash, dist, logged, fooled>>
    BY DEF Pack, Advance, ninja
  <1> HIDE DEF e
  <1>3. /\ job' \in [Edge -> Int] /\ job'[e] = 1 /\ \A f \in Edge : f # e => job'[f] = job[f]
    BY <1>1, <1>2 DEF IndInv, TypeOK, JobOK
  <1>4. JobOK' /\ AtWork' /\ Making' /\ (Sound(ArtifactEdge) => ArtSettled')
    BY <1>1, <1>2, <1>3, OtherMoves
  <1>5. /\ archive' \in [Comp -> {archive'[d] : d \in Comp}]
        /\ archive'[c] = Packed(c) /\ \A d \in Comp : d # c => archive'[d] = archive[d]
    BY <1>2 DEF IndInv, TypeOK
  <1>6. TypeOK'
    BY <1>2, <1>4, <1>5 DEF IndInv, TypeOK, trees
  <1>7. /\ \A d \in Comp : d # c => (Archived(d)' <=> Archived(d))
        /\ \A d \in Comp : (Covered(d)' <=> Covered(d)) /\ Packing(d)' = Packing(d)
    BY <1>2, <1>5, CompSame, SliceSame
  <1>8. ASSUME Sound(ArtifactEdge) PROVE ArchiveSettled' /\ DistSettled'
    <2>1. Exact(c)
      <3>1. manifest[c] # None
        BY <1>1, <1>2, Others DEF IndInv
      <3> QED  BY <1>8, <3>1 DEF IndInv, Settled, ArtSettled
    <2>2. archive'[c] = Packing(c)
      BY <1>5, <2>1, PackedExact DEF IndInv
    <2>3. Sound(e) => Archived(c)'
      <3>1. Sound(e) => hash[c] \in {None, Packing(c)}
        BY <1>8 DEF IndInv, Settled, ArchiveSettled, Archived, e
      <3> QED  BY <1>2, <1>7, <2>2, <3>1 DEF Archived
    <2>4. ASSUME NEW d \in Comp, d # c
          PROVE  /\ Sound(ArchiveEdge(d)) => Archived(d)'
                 /\ job'[ArchiveEdge(d)] = 1 => archive'[d] = Packing(d)
      BY <1>1, <1>3, <1>5, <1>7, <1>8, <2>4, EdgeFacts DEF IndInv, Settled, ArchiveSettled
    <2>5. ArchiveSettled'
      BY <1>2, <1>7, <2>2, <2>3, <2>4 DEF ArchiveSettled, Sound, e
    <2>6. DistSettled'
      <3>1. job'[DistEdge] = job[DistEdge]
        BY <1>1, <1>3, EdgeFacts
      <3> QED  BY <1>2, <1>7, <1>8, <3>1, CompFacts DEF IndInv, Settled, DistSettled, Sound
    <2> QED  BY <2>5, <2>6
  <1> QED  BY <1>2, <1>4, <1>6, <1>8 DEF IndInv, Settled, Sound

(* An archive and its hash file count together.                             *)
LEMMA WriteHashStep ==
  ASSUME IndInv, NEW c \in Comp, WriteHash(c)
  PROVE  IndInv'
  <1> DEFINE e == ArchiveEdge(c)
  <1>1. e \in Edge /\ e # ArtifactEdge /\ e # DistEdge /\ \A d \in Comp : d # c => ArchiveEdge(d) # e
    BY EdgeFacts
  <1>2. /\ job[e] = 1 /\ hash' = [hash EXCEPT ![c] = archive[c]]
        /\ logged' = logged \union {e} /\ fooled' = fooled \ {e}
        /\ job' = [job EXCEPT ![e] = -1] /\ todo' = todo \ {e}
        /\ UNCHANGED <<trees, art, manifest, archive, dist>>
    BY DEF WriteHash, Advance
  <1> HIDE DEF e
  <1>3. /\ job' \in [Edge -> Int] /\ job'[e] = -1 /\ \A f \in Edge : f # e => job'[f] = job[f]
    BY <1>1, <1>2 DEF IndInv, TypeOK, JobOK
  <1>4. JobOK' /\ AtWork' /\ Making' /\ (Sound(ArtifactEdge) => ArtSettled')
    BY <1>1, <1>2, <1>3, OtherMoves
  <1>5. /\ hash' \in [Comp -> {hash'[d] : d \in Comp}]
        /\ hash'[c] = archive[c] /\ \A d \in Comp : d # c => hash'[d] = hash[d]
    BY <1>2 DEF IndInv, TypeOK
  <1>6. TypeOK'
    BY <1>2, <1>4, <1>5 DEF IndInv, TypeOK, trees
  <1>7. /\ \A d \in Comp : d # c => (Archived(d)' <=> Archived(d))
        /\ \A d \in Comp : (Covered(d)' <=> Covered(d)) /\ Packing(d)' = Packing(d)
    BY <1>2, <1>5, CompSame, SliceSame
  <1>8. \A f \in Edge : f # e => (Sound(f)' <=> Sound(f))
    BY <1>2 DEF Sound
  <1>9. ASSUME Sound(ArtifactEdge) PROVE ArchiveSettled' /\ DistSettled'
    <2>1. archive[c] = Packing(c)
      BY <1>2, <1>9 DEF IndInv, Settled, ArchiveSettled, e
    <2>2. Archived(c)'
      BY <1>2, <1>5, <1>7, <2>1 DEF Archived
    <2>3. ASSUME NEW d \in Comp, d # c
          PROVE  /\ Sound(ArchiveEdge(d))' => Archived(d)'
                 /\ job'[ArchiveEdge(d)] = 1 => archive'[d] = Packing(d)
      BY <1>1, <1>2, <1>3, <1>7, <1>8, <1>9, <2>3, EdgeFacts DEF IndInv, Settled, ArchiveSettled
    <2>4. ArchiveSettled'
      BY <1>3, <1>7, <2>2, <2>3 DEF ArchiveSettled, e
    <2>5. DistSettled'
      <3>1. job'[DistEdge] = job[DistEdge] /\ (Sound(DistEdge)' <=> Sound(DistEdge))
        BY <1>1, <1>3, <1>8, EdgeFacts
      <3> QED  BY <1>7, <1>9, <3>1, CompFacts DEF IndInv, Settled, DistSettled
    <2> QED  BY <2>4, <2>5
  <1> QED  BY <1>1, <1>4, <1>6, <1>8, <1>9, EdgeFacts DEF IndInv, Settled

(* dist/rocm gets what a component has, and keeps what others have brought. *)
LEMMA FlattenStep ==
  ASSUME IndInv, Flatten
  PROVE  IndInv'
  <1> DEFINE i == job[DistEdge] + 1
             c == Comps[i]
  <1>1. /\ job[DistEdge] \in Int /\ job[DistEdge] >= 0 /\ i \in Nat /\ i > 0 /\ i <= Len(Comps)
        /\ Len(Comps) \in Nat /\ i \in DOMAIN Comps /\ c \in Comp
    <2>1. job[DistEdge] \in 0 .. Len(Comps) - 1 /\ Len(Comps) \in Nat
      BY CompFacts DEF Flatten
    <2>2. i \in 1 .. Len(Comps)
      BY <2>1
    <2> QED  BY <2>1, <2>2, CompFacts
  <1>2. /\ dist' = Over(Packed(c)[2], File, dist)
        /\ job' = [job EXCEPT ![DistEdge] = @ + 1] /\ todo' = todo
        /\ UNCHANGED <<trees, art, manifest, archive, hash, logged, fooled>>
    BY DEF Flatten, Advance, ninja
  <1> HIDE DEF c
  <1>3. /\ job' \in [Edge -> Int] /\ job'[DistEdge] = i
        /\ \A f \in Edge : f # DistEdge => job'[f] = job[f]
    BY <1>1, <1>2, EdgeFacts DEF IndInv, TypeOK, JobOK
  <1>4. JobOK' /\ AtWork' /\ Making' /\ (Sound(ArtifactEdge) => ArtSettled')
    <2>1. job'[DistEdge] \in -1 .. Len(Comps)
      BY <1>1, <1>3
    <2> QED  BY <1>1, <1>2, <1>3, <2>1, EdgeFacts, OtherMoves
  <1>5. dist' \in Tree
    BY <1>1, <1>2, PackedType, OverFacts DEF IndInv, TypeOK
  <1>6. TypeOK'
    BY <1>2, <1>4, <1>5 DEF IndInv, TypeOK, trees
  <1>7. \A d \in Comp : (Archived(d)' <=> Archived(d)) /\ Packing(d)' = Packing(d)
    BY <1>2, CompSame, SliceSame
  <1>8. \A f \in Edge : Sound(f)' <=> Sound(f)
    BY <1>2 DEF Sound
  <1>9. ASSUME Sound(ArtifactEdge) PROVE ArchiveSettled' /\ DistSettled'
    <2>1. Packed(c)[2] = SliceTree(c)
      <3>1. manifest[c] # None
        BY <1>1, EdgeFacts, Others DEF IndInv
      <3>2. Exact(c)
        BY <1>1, <1>9, <3>1 DEF IndInv, Settled, ArtSettled
      <3> QED  BY <1>1, <3>2, PackedExact DEF IndInv, Packing
    <2>2. \A f \in File : dist'[f] = IF SliceTree(c)[f] # 0 THEN SliceTree(c)[f] ELSE dist[f]
      <3>1. SliceTree(c) \in Tree /\ dist \in Tree
        BY <1>1, SliceFacts DEF IndInv, TypeOK
      <3>2. dist' = Over(SliceTree(c), File, dist)
        BY <1>2, <2>1
      <3>3. File \in SUBSET File
        OBVIOUS
      <3> QED  BY <3>1, <3>2, <3>3, OverFacts
    <2>3. \A f \in File : dist'[f] = IF f \in SliceFiles(c) /\ stage[f] # 0 THEN stage[f] ELSE dist[f]
      BY <1>1, <2>2, SliceFacts DEF IndInv
    <2>4. \A d \in Comp : /\ stage' = stage /\ SliceFiles(d)' = SliceFiles(d)
                          /\ SliceFiles(d) \subseteq File
      BY <1>2, SliceSame, SliceFacts DEF IndInv, trees
    <2>5. \A d \in Comp : Covered(d) \/ d = c => Covered(d)'
      BY <2>3, <2>4 DEF Covered
    <2>6. ArchiveSettled'
      <3>1. \A d \in Comp : job'[ArchiveEdge(d)] = job[ArchiveEdge(d)]
        BY <1>3, EdgeFacts
      <3> QED  BY <1>2, <1>7, <1>8, <1>9, <3>1, EdgeFacts DEF IndInv, Settled, ArchiveSettled
    <2>7. ASSUME NEW k \in DOMAIN Comps, k <= i PROVE Covered(Comps[k])'
      <3>1. k = i \/ k <= job[DistEdge]
        BY <1>1, <2>7, CompFacts
      <3>2. k <= job[DistEdge] => Covered(Comps[k])
        BY <1>9 DEF IndInv, Settled, DistSettled
      <3> QED  BY <2>5, <3>1, <3>2, CompFacts DEF c
    <2>8. DistSettled'
      BY <1>3, <1>8, <1>9, <2>5, <2>7, EdgeFacts DEF IndInv, Settled, DistSettled
    <2> QED  BY <2>6, <2>8
  <1> QED  BY <1>4, <1>6, <1>8, <1>9, EdgeFacts DEF IndInv, Settled

LEMMA TouchStep ==
  ASSUME IndInv, TouchStamp
  PROVE  IndInv'
  <1>1. /\ job[DistEdge] = Len(Comps) /\ logged' = logged \union {DistEdge}
        /\ fooled' = fooled \ {DistEdge}
        /\ job' = [job EXCEPT ![DistEdge] = -1] /\ todo' = todo \ {DistEdge}
        /\ UNCHANGED <<trees, art, manifest, archive, hash, dist>>
    BY DEF TouchStamp, Advance
  <1>2. Len(Comps) \in Nat /\ \A k \in DOMAIN Comps : k \in Nat /\ k > 0 /\ k <= Len(Comps)
    BY CompFacts
  <1>3. /\ job' \in [Edge -> Int] /\ job'[DistEdge] = -1
        /\ \A f \in Edge : f # DistEdge => job'[f] = job[f]
    BY <1>1, EdgeFacts DEF IndInv, TypeOK, JobOK
  <1>4. JobOK' /\ AtWork' /\ Making' /\ (Sound(ArtifactEdge) => ArtSettled')
    <2>1. job'[DistEdge] \in -1 .. Len(Comps) /\ job[DistEdge] >= 0
      BY <1>1, <1>2, <1>3
    <2> QED  BY <1>1, <1>3, <2>1, EdgeFacts, OtherMoves
  <1>5. TypeOK'
    BY <1>1, <1>4 DEF IndInv, TypeOK, trees
  <1>6. \A d \in Comp : /\ (Archived(d)' <=> Archived(d)) /\ Packing(d)' = Packing(d)
                        /\ (Covered(d)' <=> Covered(d))
    BY <1>1, CompSame, SliceSame
  <1>7. \A f \in Edge : f # DistEdge => (Sound(f)' <=> Sound(f))
    BY <1>1 DEF Sound
  <1>8. ASSUME Sound(ArtifactEdge) PROVE ArchiveSettled' /\ DistSettled'
    <2>1. ArchiveSettled'
      <3>1. \A d \in Comp : job'[ArchiveEdge(d)] = job[ArchiveEdge(d)]
        BY <1>3, EdgeFacts
      <3> QED  BY <1>1, <1>6, <1>7, <1>8, <3>1, EdgeFacts DEF IndInv, Settled, ArchiveSettled
    <2>2. \A k \in DOMAIN Comps : Covered(Comps[k])
      BY <1>1, <1>2, <1>8 DEF IndInv, Settled, DistSettled
    <2>3. DistSettled'
      BY <1>2, <1>3, <1>6, <2>2, CompFacts DEF DistSettled
    <2> QED  BY <2>1, <2>3
  <1> QED  BY <1>4, <1>5, <1>7, <1>8, EdgeFacts DEF IndInv, Settled

-----------------------------------------------------------------------------
(* Failures.                                                                *)

(* An edge that fails succeeds no longer on its inputs, or is fooled.       *)
LEMMA Unsound ==
  ASSUME NEW e \in Edge, Fail(e)
  PROVE  ~ Sound(e)' /\ \A f \in Edge : f # e => (Sound(f)' <=> Sound(f))
  BY DEF Fail, Sound

(* Nothing can be said of artifact directories after a failure.             *)
LEMMA FailArtifact ==
  ASSUME IndInv, Fail(ArtifactEdge)
  PROVE  IndInv'
  <1>1. /\ job[ArtifactEdge] >= 0 /\ PartlyDone(ArtifactEdge)
        /\ job' = [job EXCEPT ![ArtifactEdge] = -1]
        /\ todo' = {f \in todo : job'[f] >= 0} /\ UNCHANGED trees
    BY DEF Fail
  <1>2. job' \in [Edge -> Int] /\ \A f \in Edge : job'[f] = -1
    BY <1>1, Alone, EdgeFacts DEF IndInv, TypeOK, JobOK
  <1>3. todo' = {}
    BY <1>1, <1>2 DEF IndInv, TypeOK
  <1>4. AtWork'
    BY <1>2, <1>3 DEF AtWork
  <1>5. Making'
    <2>1. job'[ArtifactEdge] = -1 /\ \A i \in DOMAIN Comps : i \in Nat /\ i > 0
      BY <1>2, EdgeFacts, CompFacts
    <2> QED  BY <2>1 DEF Making, At
  <1>6. Settled'
    BY EdgeFacts, Unsound DEF Settled
  <1>7. /\ art' \in [Comp -> Tree] /\ manifest' \in [Comp -> {None} \union SUBSET Stage]
        /\ archive' = archive /\ hash' = hash /\ dist' = dist
    <2> DEFINE c == Component
    <2>1. ASSUME NEW F \in SUBSET File, NEW s \in Tree, NEW t \in Tree,
                 art' = [art EXCEPT ![c] = Over(s, F, t)]
          PROVE  art' \in [Comp -> Tree]
      BY <2>1, OverFacts DEF IndInv, TypeOK
    <2>2. \A x \in {None} \union SUBSET Stage :
            [manifest EXCEPT ![c] = x] \in [Comp -> {None} \union SUBSET Stage]
      BY DEF IndInv, TypeOK
    <2>3. AtStep(0) \/ AtStep(1) \/ AtStep(2) => c \in Comp
      <3>1. 0 \in 0 .. 2 /\ 1 \in 0 .. 2 /\ 2 \in 0 .. 2
        OBVIOUS
      <3> QED  BY <3>1, Position, CompFacts DEF IndInv
    <2>4. c \in Comp => art[c] \in Tree /\ SliceFiles(c) \subseteq File
      BY SliceFacts DEF IndInv, TypeOK
    <2>5. stage \in Tree /\ Nothing \in Tree /\ art \in [Comp -> Tree]
          /\ manifest \in [Comp -> {None} \union SUBSET Stage]
      BY OverFacts DEF IndInv, TypeOK
    <2> HIDE DEF c
    <2>6. CASE /\ AtStep(0)
               /\ \E F \in SUBSET File : art' = [art EXCEPT ![c] = Over(art[c], F, Nothing)]
               /\ manifest' \in {manifest, [manifest EXCEPT ![c] = None]}
               /\ UNCHANGED <<archive, hash, dist>>
      BY <2>1, <2>2, <2>3, <2>4, <2>5, <2>6
    <2>7. CASE /\ AtStep(1)
               /\ \E F \in SUBSET SliceFiles(c) : art' = [art EXCEPT ![c] = Over(stage, F, art[c])]
               /\ UNCHANGED <<manifest, archive, hash, dist>>
      BY <2>1, <2>3, <2>4, <2>5, <2>7
    <2>8. CASE /\ AtStep(2)
               /\ manifest' \in {manifest, [manifest EXCEPT ![c] = {}]}
               /\ UNCHANGED <<art, archive, hash, dist>>
      BY <2>2, <2>5, <2>8
    <2> QED  BY <1>1, <2>6, <2>7, <2>8, EdgeFacts DEF PartlyDone, c
  <1>8. JobOK'
    <2>1. -1 \in -1 .. 3 * Len(Comps) - 1 /\ -1 \in -1 .. Len(Comps)
      BY CompFacts
    <2> QED  BY <1>2, <2>1, EdgeFacts DEF JobOK
  <1>9. TypeOK'
    BY <1>1, <1>3, <1>7, <1>8 DEF IndInv, TypeOK, trees
  <1> QED  BY <1>4, <1>5, <1>6, <1>9 DEF IndInv

(* A failed archive edge leaves the other archives and dist/rocm alone.     *)
LEMMA FailArchive ==
  ASSUME IndInv, NEW c \in Comp, Fail(ArchiveEdge(c))
  PROVE  IndInv'
  <1> DEFINE e == ArchiveEdge(c)
  <1>1. /\ e \in Edge /\ e # ArtifactEdge /\ e # DistEdge /\ e[2] = c
        /\ \A d \in Comp : d # c => ArchiveEdge(d) # e
    BY EdgeFacts
  <1>2. /\ job[e] >= 0 /\ PartlyDone(e) /\ job' = [job EXCEPT ![e] = -1]
        /\ todo' = {f \in todo : job'[f] >= 0} /\ UNCHANGED <<trees, logged>>
    BY DEF Fail
  <1>3. ~ Sound(e)' /\ \A f \in Edge : f # e => (Sound(f)' <=> Sound(f))
    BY <1>1, Unsound
  <1> HIDE DEF e
  <1>4. /\ UNCHANGED <<art, manifest, dist>>
        /\ \/ archive' \in {archive, [archive EXCEPT ![c] = None],
                            [archive EXCEPT ![c] = Truncated]} /\ hash' = hash
           \/ hash' \in {hash, [hash EXCEPT ![c] = Truncated]} /\ archive' = archive
    BY <1>1, <1>2 DEF PartlyDone
  <1>5. /\ archive' \in [Comp -> {archive'[d] : d \in Comp}]
        /\ hash' \in [Comp -> {hash'[d] : d \in Comp}]
        /\ \A d \in Comp : d # c => archive'[d] = archive[d] /\ hash'[d] = hash[d]
    BY <1>4 DEF IndInv, TypeOK
  <1>6. job' \in [Edge -> Int] /\ job'[e] = -1 /\ \A f \in Edge : f # e => job'[f] = job[f]
    BY <1>1, <1>2 DEF IndInv, TypeOK, JobOK
  <1>7. JobOK' /\ AtWork' /\ Making' /\ (Sound(ArtifactEdge) => ArtSettled')
    BY <1>1, <1>2, <1>4, <1>6, OtherMoves
  <1>8. TypeOK'
    BY <1>2, <1>4, <1>5, <1>7 DEF IndInv, TypeOK, trees
  <1>9. /\ \A d \in Comp : d # c => (Archived(d)' <=> Archived(d))
        /\ \A d \in Comp : (Covered(d)' <=> Covered(d)) /\ Packing(d)' = Packing(d)
    BY <1>2, <1>4, <1>5, CompSame, SliceSame
  <1>10. ASSUME Sound(ArtifactEdge) PROVE ArchiveSettled' /\ DistSettled'
    <2>1. ASSUME NEW d \in Comp, d # c
          PROVE  /\ Sound(ArchiveEdge(d))' => Archived(d)'
                 /\ job'[ArchiveEdge(d)] = 1 => archive'[d] = Packing(d)
      BY <1>1, <1>3, <1>5, <1>6, <1>9, <1>10, <2>1, EdgeFacts DEF IndInv, Settled, ArchiveSettled
    <2>2. ArchiveSettled'
      BY <1>3, <1>6, <1>9, <2>1 DEF ArchiveSettled, e
    <2>3. DistSettled'
      <3>1. job'[DistEdge] = job[DistEdge] /\ (Sound(DistEdge)' <=> Sound(DistEdge))
        BY <1>1, <1>3, <1>6, EdgeFacts
      <3> QED  BY <1>9, <1>10, <3>1, CompFacts DEF IndInv, Settled, DistSettled
    <2> QED  BY <2>2, <2>3
  <1> QED  BY <1>1, <1>3, <1>7, <1>8, <1>10, EdgeFacts DEF IndInv, Settled

(* Nor does a failed dist edge touch the archives.                          *)
LEMMA FailDist ==
  ASSUME IndInv, Fail(DistEdge)
  PROVE  IndInv'
  <1>1. /\ job[DistEdge] >= 0 /\ PartlyDone(DistEdge) /\ job' = [job EXCEPT ![DistEdge] = -1]
        /\ todo' = {f \in todo : job'[f] >= 0} /\ UNCHANGED <<trees, logged>>
    BY DEF Fail
  <1>2. ~ Sound(DistEdge)' /\ \A f \in Edge : f # DistEdge => (Sound(f)' <=> Sound(f))
    BY EdgeFacts, Unsound
  <1>3. UNCHANGED <<art, manifest, archive, hash>> /\ dist' \in Tree
    <2>1. dist \in Tree
      BY DEF IndInv, TypeOK
    <2>2. ASSUME job[DistEdge] \in 0 .. Len(Comps) - 1, NEW F \in SUBSET File,
                 dist' = Over(Packed(Comps[job[DistEdge] + 1])[2], F, dist)
          PROVE  dist' \in Tree
      <3>1. job[DistEdge] + 1 \in DOMAIN Comps
        BY <2>2, CompFacts
      <3>2. Packed(Comps[job[DistEdge] + 1])[2] \in Tree
        BY <3>1, CompFacts, PackedType DEF IndInv
      <3> QED  BY <2>1, <2>2, <3>2, OverFacts
    <2> QED  BY <1>1, <2>1, <2>2, EdgeFacts DEF PartlyDone, outputs
  <1>4. job' \in [Edge -> Int] /\ job'[DistEdge] = -1 /\ \A f \in Edge : f # DistEdge => job'[f] = job[f]
    BY <1>1, EdgeFacts DEF IndInv, TypeOK, JobOK
  <1>5. JobOK' /\ AtWork' /\ Making' /\ (Sound(ArtifactEdge) => ArtSettled')
    <2>1. job'[DistEdge] \in -1 .. Len(Comps)
      BY <1>4, CompFacts
    <2> QED  BY <1>1, <1>3, <1>4, <2>1, EdgeFacts, OtherMoves
  <1>6. TypeOK'
    BY <1>1, <1>3, <1>5 DEF IndInv, TypeOK, trees
  <1>7. \A d \in Comp : (Archived(d)' <=> Archived(d)) /\ Packing(d)' = Packing(d)
    BY <1>1, <1>3, CompSame, SliceSame
  <1>8. ASSUME Sound(ArtifactEdge) PROVE ArchiveSettled'
    <2>1. \A d \in Comp : job'[ArchiveEdge(d)] = job[ArchiveEdge(d)]
      BY <1>4, EdgeFacts
    <2> QED  BY <1>2, <1>3, <1>7, <1>8, <2>1, EdgeFacts DEF IndInv, Settled, ArchiveSettled
  <1>9. DistSettled'
    BY <1>2, <1>4, CompFacts DEF DistSettled
  <1> QED  BY <1>2, <1>5, <1>6, <1>8, <1>9, EdgeFacts DEF IndInv, Settled

-----------------------------------------------------------------------------
(* Between runs.                                                            *)

(* Nothing is at work when nothing is planned.                              *)
LEMMA Idle ==
  ASSUME IndInv, todo = {}
  PROVE  /\ \A e \in Edge : ~ (job[e] >= 0)
         /\ job[ArtifactEdge] = -1 /\ job[DistEdge] = -1
         /\ \A c \in Comp : job[ArchiveEdge(c)] = -1
  <1>1. \A e \in Edge : ~ (job[e] >= 0)
    BY DEF IndInv, AtWork
  <1>2. job[ArtifactEdge] = -1 /\ job[DistEdge] = -1
    BY <1>1, EdgeFacts, CompFacts DEF IndInv, TypeOK, JobOK
  <1>3. ASSUME NEW c \in Comp PROVE job[ArchiveEdge(c)] = -1
    <2>1. job[ArchiveEdge(c)] \in {-1, 0, 1} /\ ~ (job[ArchiveEdge(c)] >= 0)
      BY <1>1, EdgeFacts DEF IndInv, TypeOK, JobOK
    <2> QED  BY <2>1
  <1> QED  BY <1>1, <1>2, <1>3

(* New inputs make the artifact edge run again.                             *)
LEMMA InputsStep ==
  ASSUME IndInv, todo = {}, ArtifactEdge \notin logged', stage' \in Tree,
         UNCHANGED <<outputs, todo, job>>
  PROVE  IndInv'
  <1>1. TypeOK'
    BY DEF IndInv, TypeOK, JobOK, outputs
  <1>2. AtWork'
    BY Idle DEF AtWork
  <1>3. Making'
    <2>1. job'[ArtifactEdge] = -1 /\ \A i \in DOMAIN Comps : i \in Nat /\ i > 0
      BY Idle, CompFacts
    <2> QED  BY <2>1 DEF Making, At
  <1>4. Settled'
    BY DEF Settled, Sound
  <1> QED  BY <1>1, <1>2, <1>3, <1>4 DEF IndInv

LEMMA RestageStep ==
  ASSUME IndInv, NEW s \in Stage, Restage(s)
  PROVE  IndInv'
  <1>1. stage' \in Tree
    <2>1. PICK r \in 1 .. MaxRev, K \in (SUBSET Has[s]) \ {{}} :
            stage' = [f \in File |-> IF f[1] # s THEN stage[f] ELSE IF f[2] \in K THEN r ELSE 0]
      BY DEF Restage
    <2>2. r \in 0 .. MaxRev /\ 0 \in 0 .. MaxRev
      BY SliceAssumption
    <2> QED  BY <2>1, <2>2 DEF IndInv, TypeOK, Tree
  <1> QED  BY <1>1, InputsStep DEF Restage

LEMMA EditDescriptorStep ==
  ASSUME IndInv, EditDescriptor
  PROVE  IndInv'
  <1>1. stage' \in Tree
    BY DEF EditDescriptor, IndInv, TypeOK
  <1> QED  BY <1>1, InputsStep DEF EditDescriptor

(* A component without its manifest is none that counts.                    *)
LEMMA RemoveArtifactsStep ==
  ASSUME IndInv, NEW C \in SUBSET Comp, RemoveArtifacts(C)
  PROVE  IndInv'
  <1>1. /\ todo = {} /\ UNCHANGED <<trees, archive, hash, dist, logged, fooled, todo, job>>
        /\ art' = [c \in Comp |-> IF c \in C THEN Nothing ELSE art[c]]
        /\ manifest' = [c \in Comp |-> IF c \in C THEN None ELSE manifest[c]]
    BY DEF RemoveArtifacts, ninja
  <1>2. art' \in [Comp -> Tree] /\ manifest' \in [Comp -> {None} \union SUBSET Stage]
    BY <1>1, OverFacts DEF IndInv, TypeOK
  <1>3. TypeOK'
    BY <1>1, <1>2 DEF IndInv, TypeOK, JobOK, trees
  <1>4. AtWork'
    BY <1>1, Idle DEF AtWork
  <1>5. Making'
    <2>1. job'[ArtifactEdge] = -1 /\ \A i \in DOMAIN Comps : i \in Nat /\ i > 0
      BY <1>1, Idle, CompFacts
    <2> QED  BY <2>1 DEF Making, At
  <1>6. \A c \in Comp : /\ manifest'[c] # None => (Exact(c)' <=> Exact(c)) /\ manifest[c] # None
                        /\ Archived(c)' <=> Archived(c)
                        /\ Covered(c)' <=> Covered(c)
    BY <1>1, CompSame
  <1>7. Settled'
    <2>1. ASSUME Sound(ArtifactEdge) PROVE ArtSettled' /\ ArchiveSettled' /\ DistSettled'
      <3>1. ArtSettled'
        BY <1>6, <2>1 DEF IndInv, Settled, ArtSettled
      <3>2. ArchiveSettled'
        BY <1>1, <1>6, <2>1, Idle DEF IndInv, Settled, ArchiveSettled, Sound
      <3>3. DistSettled'
        BY <1>1, <1>6, <2>1, Idle, CompFacts DEF IndInv, Settled, DistSettled, Sound
      <3> QED  BY <3>1, <3>2, <3>3
    <2> QED  BY <1>1, <2>1 DEF Settled, Sound
  <1> QED  BY <1>3, <1>4, <1>5, <1>7 DEF IndInv

LEMMA RemoveArchiveStep ==
  ASSUME IndInv, NEW c \in Comp, NEW withHash \in BOOLEAN, RemoveArchive(c, withHash)
  PROVE  IndInv'
  <1>1. /\ todo = {} /\ UNCHANGED <<trees, art, manifest, dist, logged, fooled, todo, job>>
        /\ archive' = [archive EXCEPT ![c] = None]
        /\ hash' \in {hash, [hash EXCEPT ![c] = None]}
    BY DEF RemoveArchive, ninja
  <1>2. /\ archive' \in [Comp -> {archive'[d] : d \in Comp}]
        /\ hash' \in [Comp -> {hash'[d] : d \in Comp}]
        /\ archive'[c] = None /\ hash'[c] \in {None, hash[c]}
        /\ \A d \in Comp : d # c => archive'[d] = archive[d] /\ hash'[d] = hash[d]
    BY <1>1 DEF IndInv, TypeOK
  <1>3. TypeOK'
    BY <1>1, <1>2 DEF IndInv, TypeOK, JobOK, trees
  <1>4. AtWork'
    BY <1>1, Idle DEF AtWork
  <1>5. Making'
    <2>1. job'[ArtifactEdge] = -1 /\ \A i \in DOMAIN Comps : i \in Nat /\ i > 0
      BY <1>1, Idle, CompFacts
    <2> QED  BY <2>1 DEF Making, At
  <1>6. \A d \in Comp : /\ Exact(d)' <=> Exact(d)
                        /\ Covered(d)' <=> Covered(d)
                        /\ Packing(d)' = Packing(d)
    BY <1>1, CompSame, SliceSame
  <1>7. \A d \in Comp : Archived(d) => Archived(d)'
    <2>1. Archived(c) => Archived(c)'
      BY <1>2, <1>6 DEF Archived
    <2>2. \A d \in Comp : d # c => (Archived(d)' <=> Archived(d))
      BY <1>1, <1>2, CompSame
    <2> QED  BY <2>1, <2>2
  <1>8. Settled'
    <2>1. ASSUME Sound(ArtifactEdge) PROVE ArtSettled' /\ ArchiveSettled' /\ DistSettled'
      <3>1. ArtSettled'
        BY <1>1, <1>6, <2>1 DEF IndInv, Settled, ArtSettled
      <3>2. ArchiveSettled'
        BY <1>1, <1>7, <2>1, Idle DEF IndInv, Settled, ArchiveSettled, Sound
      <3>3. DistSettled'
        BY <1>1, <1>6, <2>1, Idle, CompFacts DEF IndInv, Settled, DistSettled, Sound
      <3> QED  BY <3>1, <3>2, <3>3
    <2> QED  BY <1>1, <2>1 DEF Settled, Sound
  <1> QED  BY <1>3, <1>4, <1>5, <1>8 DEF IndInv

-----------------------------------------------------------------------------
(* The theorems.                                                            *)

LEMMA IndInit ==
  ASSUME Init
  PROVE  IndInv
  <1>1. stage \in Tree
    <2>1. 0 \in 0 .. MaxRev /\ 1 \in 0 .. MaxRev
      BY SliceAssumption
    <2> QED  BY <2>1 DEF Init, Tree
  <1>2. JobOK
    <2>1. -1 \in -1 .. 3 * Len(Comps) - 1 /\ -1 \in -1 .. Len(Comps)
      BY CompFacts
    <2> QED  BY <2>1, EdgeFacts DEF Init, JobOK
  <1>3. TypeOK
    BY <1>1, <1>2, OverFacts DEF Init, TypeOK
  <1>4. job[ArtifactEdge] = -1
    BY EdgeFacts DEF Init
  <1>5. AtWork /\ Making /\ Settled
    BY <1>4, Resting DEF Init, AtWork, Settled, Sound
  <1> QED  BY <1>3, <1>5 DEF IndInv

LEMMA IndStep ==
  ASSUME IndInv, [Next]_vars
  PROVE  IndInv'
  <1>1. CASE UNCHANGED vars
    <2>1. UNCHANGED <<trees, art, manifest, archive, hash, dist, logged, fooled, todo, job>>
      BY <1>1 DEF vars, outputs, ninja
    <2>2. \A c \in Comp : /\ SliceTree(c)' = SliceTree(c) /\ Packing(c)' = Packing(c)
                          /\ Exact(c)' <=> Exact(c)
                          /\ Archived(c)' <=> Archived(c)
                          /\ Covered(c)' <=> Covered(c)
      BY <2>1, SliceSame, CompSame
    <2>3. TypeOK'
      BY <2>1 DEF IndInv, TypeOK, JobOK, trees
    <2>4. AtWork'
      BY <1>1 DEF IndInv, AtWork, Current, OutputsExist, vars, outputs, ninja
    <2>5. Making'
      BY <2>1, <2>2, CompFacts DEF IndInv, Making, At
    <2>6. Settled'
      BY <2>1, <2>2, CompFacts DEF IndInv, Settled, ArtSettled, ArchiveSettled, DistSettled, Sound
    <2> QED  BY <2>3, <2>4, <2>5, <2>6 DEF IndInv
  <1>2. CASE \E targets \in {{ArtifactEdge}, {DistEdge}, Edge \ {DistEdge}, Edge} : StartNinja(targets)
    <2>1. {ArtifactEdge} \in SUBSET Edge /\ {DistEdge} \in SUBSET Edge
      BY EdgeFacts
    <2> QED  BY <1>2, <2>1, StartNinjaStep
  <1>3. CASE \E e \in Edge : StartEdge(e) \/ Fail(e)
    BY <1>3, StartEdgeStep, FailArtifact, FailArchive, FailDist, EdgeFacts
  <1>4. CASE Clear \/ Fill \/ Seal \/ Flatten \/ TouchStamp
    BY <1>4, ClearStep, FillStep, SealStep, FlattenStep, TouchStep
  <1>5. CASE \E c \in Comp : Pack(c) \/ WriteHash(c)
    BY <1>5, PackStep, WriteHashStep
  <1>6. CASE (\E s \in Stage : Restage(s)) \/ EditDescriptor
    BY <1>6, RestageStep, EditDescriptorStep
  <1>7. CASE \E C \in (SUBSET Comp) \ {{}} : RemoveArtifacts(C)
    BY <1>7, RemoveArtifactsStep
  <1>8. CASE \E c \in Comp, withHash \in BOOLEAN : RemoveArchive(c, withHash)
    BY <1>8, RemoveArchiveStep
  <1> QED  BY <1>1, <1>2, <1>3, <1>4, <1>5, <1>6, <1>7, <1>8 DEF Next

(* At every step of every run, what an edge has succeeded on and not failed *)
(* since is as it should be, or on its way to it.                           *)
THEOREM Inductive == Spec => []IndInv
  <1>1. Init => IndInv
    BY IndInit
  <1>2. IndInv /\ [Next]_vars => IndInv'
    BY IndStep
  <1> QED  BY <1>1, <1>2, PTL DEF Spec

(* What an edge that is clean and not fooled has made it from.              *)
LEMMA TrustedFacts ==
  ASSUME IndInv, NEW e \in Edge, Trusted(e)
  PROVE  Sound(e) /\ Sound(ArtifactEdge) /\ OutputsExist(e) /\ \A c \in Comp : Exact(c)
  <1>1. /\ Sound(e) /\ OutputsExist(e)
        /\ e = ArtifactEdge \/ (Current(ArtifactEdge) /\ ArtifactEdge \notin fooled)
    BY InputFacts DEF Trusted, Clean, Current, Sound
  <1>2. Sound(ArtifactEdge) /\ \A c \in Comp : manifest[c] # None
    BY <1>1, CurrentFacts DEF Sound, Current
  <1> QED  BY <1>1, <1>2 DEF IndInv, Settled, ArtSettled

(* When ninja finds the artifact edge clean and is not fooled, every        *)
(* artifact directory is the slice of the stage trees as they are now.      *)
THEOREM ArtifactsAreExact == Spec => []ArtifactsExact
  <1>1. IndInv => ArtifactsExact
    BY EdgeFacts, TrustedFacts DEF ArtifactsExact, Exact
  <1> QED  BY <1>1, Inductive, PTL

(* ... every archive holds it in full and goes with its hash file.          *)
THEOREM ArchivesAreExact == Spec => []ArchivesExact
  <1>1. ASSUME IndInv, NEW c \in Comp, Trusted(ArchiveEdge(c))
        PROVE  archive[c] = <<Basedirs(c), SliceTree(c)>> /\ hash[c] = archive[c]
    <2>1. Sound(ArchiveEdge(c)) /\ Sound(ArtifactEdge) /\ OutputsExist(ArchiveEdge(c))
      BY <1>1, EdgeFacts, TrustedFacts
    <2>2. archive[c] # None /\ hash[c] # None
      BY <2>1, EdgeFacts DEF OutputsExist
    <2>3. Archived(c)
      BY <1>1, <2>1 DEF IndInv, Settled, ArchiveSettled
    <2> QED  BY <2>2, <2>3 DEF Archived, Packing
  <1>2. IndInv => ArchivesExact
    BY <1>1 DEF ArchivesExact
  <1> QED  BY <1>2, Inductive, PTL

(* ... and dist/rocm has every file of every component in its current       *)
(* revision.                                                                *)
THEOREM DistIsComplete == Spec => []DistComplete
  <1>1. IndInv => DistComplete
    BY EdgeFacts, TrustedFacts DEF DistComplete, IndInv, Settled, DistSettled, Covered
  <1> QED  BY <1>1, Inductive, PTL

(* A file that default patterns speak for is in one of dev, lib and run, and*)
(* in doc too only if it is the other's by default.                         *)
THEOREM FilesSortedOnce == Spec => []SortedOnce
  <1>1. ASSUME IndInv, Trusted(ArtifactEdge),
               NEW c \in Comp \intersect {"dev", "lib", "run"},
               NEW d \in Comp \intersect {"dev", "lib", "run", "doc"}, NEW f \in File,
               c # d, art[c][f] # 0, art[d][f] # 0, Plain(c, f[1]), Plain(d, f[1]),
               NEW m \in {"dev", "lib", "doc"}, f[2] \in Matched[m]
        PROVE  m = c /\ d = "doc"
    <2>1. ASSUME NEW x \in Comp \intersect {"dev", "lib", "run"}, art[x][f] # 0, Plain(x, f[1])
          PROVE  m = x
      <3>1. art[x] = SliceTree(x)
        BY <1>1, EdgeFacts, TrustedFacts DEF Exact
      <3>2. f \in SliceFiles(x)
        BY <1>1, <2>1, <3>1, SliceFacts DEF IndInv
      <3>3. PICK s \in Stage : f \in Slice(x, s)
        BY <3>2 DEF SliceFiles, Basedirs
      <3> DEFINE r == desc[x][s]
      <3>4. PICK k \in Has[s] :
              /\ f = <<s, k>>
              /\ Selects(r.include \union IF r.default THEN DefaultIncludes(x) ELSE {},
                         r.exclude \union IF r.default THEN DefaultExcludes(x) ELSE {},
                         r.force, k)
        BY <3>3 DEF Slice
      <3>5. f[1] = s /\ f[2] = k
        BY <3>4
      <3>6. r.default /\ r.force = {}
        BY <2>1, <3>5 DEF Plain
      <3> HIDE DEF r
      <3>7. \A p \in DefaultExcludes(x) : k \notin p
        BY <3>4, <3>6 DEF Selects
      <3>8. Matched[m] \in DefaultExcludes(x) \/ m = x
        BY DEF DefaultExcludes
      <3> QED  BY <1>1, <3>5, <3>7, <3>8
    <2>2. m = c
      BY <1>1, <2>1
    <2>3. d = "doc"
      BY <1>1, <2>1, <2>2
    <2> QED  BY <2>2, <2>3
  <1>2. IndInv => SortedOnce
    BY <1>1 DEF SortedOnce
  <1> QED  BY <1>2, Inductive, PTL
=============================================================================
