------------------------------- MODULE Artifacts -------------------------------
(***************************************************************************)
(* One artifact slice of cmake/therock_artifacts.cmake: ninja cuts the     *)
(* stage/ directories of some sub-projects into one artifact directory per *)
(* component (fileset_tool.py artifact), packs each into an archive with a *)
(* hash (artifact-archive) and flattens all into dist/rocm                 *)
(* (artifact-flatten), while stage trees and the descriptor change between *)
(* runs, commands fail half way and outputs are deleted.                   *)
(*                                                                         *)
(* Data abstraction.  A file is the stage directory it is in and its kind, *)
(* which is all that patterns tell apart; a pattern is the set of kinds it *)
(* matches.  A tree gives the revision of every file in it, 0 for a file   *)
(* it does not have; directories are left out.  A digest is the content it *)
(* is the digest of.                                                       *)
(*                                                                         *)
(* Time abstraction.  ninja's log has, for every edge, when it last        *)
(* succeeded; logged is the set of those that did so after all their inputs*)
(* were last written.                                                      *)
(***************************************************************************)
EXTENDS Integers, Sequences, FiniteSets

CONSTANTS
  Comps,       (* The COMPONENTS of the slice, a sequence.                 *)
  Stage,       (* The stage directories of its SUBPROJECT_DEPS.            *)
  Optional,    (* Those that are built only in some configurations.        *)
  Kind,        (* Kinds of files,                                          *)
  Has,         (* Has[s]: those that stage directory s may have, and       *)
  Matched,     (* Matched[c]: what the default includes of c match.        *)
  Descriptors, (* What the artifact.toml may say: see Record.              *)
  MaxRev,      (* Bound: revisions of the stage trees.                     *)
  MaxDisturb,  (* Bound: failures, deletions, edits of the descriptor.     *)
  None         (* No record, or no file.                                   *)

Comp    == {Comps[i] : i \in DOMAIN Comps}
Pattern == SUBSET Kind
Record  == [default : BOOLEAN, optional : BOOLEAN, include : SUBSET Pattern,
            exclude : SUBSET Pattern, force : SUBSET Pattern]

ASSUME SliceAssumption ==
  /\ Comps \in Seq({"dbg", "dev", "lib", "run", "doc", "test"}) /\ Comps # << >>
  /\ \A i, j \in DOMAIN Comps : Comps[i] = Comps[j] => i = j
  /\ Matched \in [{"dbg", "dev", "lib", "doc"} -> Pattern]
  /\ Has \in [Stage -> SUBSET Kind] /\ Optional \subseteq Stage
  /\ MaxRev \in Nat \ {0} /\ MaxDisturb \in Nat
  /\ \A S \in SUBSET Stage : S # None
  /\ \A d \in Descriptors : d \in [Comp -> [Stage -> Record \union {None}]]
  /\ \A d \in Descriptors, c \in Comp, s \in Optional : d[c][s] = None \/ d[c][s].optional

VARIABLES
  stage,     (* stage[f]: the stage/ directories.                          *)
  there,     (* Those that exist.                                          *)
  desc,      (* The descriptor.                                            *)
  art,       (* art[c]: the artifact directory of component c.             *)
  manifest,  (* manifest[c]: its artifact_manifest.txt, a set of stages.   *)
  archive,   (* archive[c]: the archive made of it, None if there is none. *)
  hash,      (* hash[c]: the .sha256sum file.                              *)
  dist,      (* dist/rocm.                                                 *)
  stamp,     (* Whether dist/.rocm.stamp exists.                           *)
  logged,    (* Edges that succeeded after their inputs were written.      *)
  fooled,    (* Those of them that failed since. Their outputs were deleted*)
             (* or ninja would not have run them.                          *)
  todo,      (* Edges the ninja run has planned and not finished.          *)
  job,       (* job[e]: commands of e that are finished; -1, not started.  *)
  budget

trees   == <<stage, there, desc>>
outputs == <<art, manifest, archive, hash, dist, stamp>>
ninja   == <<logged, fooled>>
vars    == <<trees, outputs, ninja, todo, job, budget>>

File == {f \in Stage \X Kind : f[2] \in Has[f[1]]}
Tree == [File -> 0 .. MaxRev]
Truncated == <<"truncated">>
Nothing == [f \in File |-> 0]

(* The files F of tree new over tree old.                                   *)
Over(new, F, oldTree) == [f \in File |-> IF f \in F /\ new[f] # 0 THEN new[f] ELSE oldTree[f]]

-----------------------------------------------------------------------------
(* Which files go to which component.                                       *)

DefaultIncludes(c) == IF c \in DOMAIN Matched THEN {Matched[c]} ELSE {}

(* Mutant of DefaultExcludes: lib does not exclude what dev includes.       *)
DefaultExcludesOneWay(c) ==
  CASE c = "dev" -> {Matched[d] : d \in {"lib", "doc"}}
    [] c = "lib" -> {Matched["doc"]}
    [] c = "run" -> {Matched[d] : d \in {"dev", "lib", "doc"}}
    [] OTHER     -> {}

(* dev, lib and run exclude what the others and doc include; run includes   *)
(* nothing by default.                                                      *)
DefaultExcludes(c) ==
  IF c \in {"dev", "lib", "run"} THEN {Matched[d] : d \in {"dev", "lib", "doc"} \ {c}}
                                 ELSE {}

(* MatchPredicate.matches.  Without includes everything is included.        *)
Selects(include, exclude, force, k) ==
  \/ \E p \in force : k \in p
  \/ /\ include = {} \/ \E p \in include : k \in p
     /\ \A p \in exclude : k \notin p

(* The files of stage directory s that go to component c.                   *)
Slice(c, s) ==
  LET r == desc[c][s] IN
  {<<s, k>> : k \in {k \in Has[s] :
     Selects(r.include \union IF r.default THEN DefaultIncludes(c) ELSE {},
             r.exclude \union IF r.default THEN DefaultExcludes(c) ELSE {},
             r.force, k)}}

(* The stage directories in the record of c, less the optional missing ones.*)
Basedirs(c) ==
  {s \in Stage : desc[c][s] # None /\ (desc[c][s].optional => s \in there)}

SliceFiles(c) == UNION {Slice(c, s) : s \in Basedirs(c)}
SliceTree(c)  == Over(stage, SliceFiles(c), Nothing)

-----------------------------------------------------------------------------
(* ninja.                                                                   *)

ArtifactEdge   == <<"artifact">>
DistEdge       == <<"dist">>
ArchiveEdge(c) == <<"archive", c>>

Edge == {ArtifactEdge, DistEdge} \union {ArchiveEdge(c) : c \in Comp}

Inputs(e) == IF e = ArtifactEdge THEN {} ELSE {ArtifactEdge}

OutputsExist(e) ==
  CASE e = ArtifactEdge -> \A c \in Comp : manifest[c] # None
    [] e = DistEdge     -> stamp
    [] OTHER          -> archive[e[2]] # None /\ hash[e[2]] # None

Current(e) == e \in logged /\ OutputsExist(e)
Clean(e)   == Current(e) /\ \A i \in Inputs(e) : Current(i)

Disturb == budget > 0 /\ budget' = budget - 1

(* `ninja therock-artifacts', `therock-archives', `therock-dist', or all.   *)
StartNinja(targets) ==
  /\ todo = {}
  /\ todo' = {e \in targets \union UNION {Inputs(t) : t \in targets} : ~ Clean(e)}
  /\ todo' # {}
  /\ UNCHANGED <<trees, outputs, ninja, job, budget>>

StartEdge(e) ==
  /\ e \in todo /\ job[e] = -1
  /\ Inputs(e) \intersect todo = {}
  /\ job' = [job EXCEPT ![e] = 0]
  /\ UNCHANGED <<trees, outputs, ninja, todo, budget>>

(* The next command of e is done; the last one ends the edge.               *)
Advance(e, last) ==
  IF last
    THEN /\ job' = [job EXCEPT ![e] = -1]
         /\ todo' = todo \ {e}
    ELSE /\ job' = [job EXCEPT ![e] = @ + 1]
         /\ UNCHANGED todo

-----------------------------------------------------------------------------
(* fileset_tool.py artifact, once per component: the output directory is    *)
(* removed, filled from one stage directory after the other, and gets its   *)
(* manifest.                                                                *)

Component == Comps[job[ArtifactEdge] \div 3 + 1]
AtStep(n) == job[ArtifactEdge] >= 0 /\ job[ArtifactEdge] % 3 = n

(* Mutant of Clear: the output directory is not removed.                    *)
ClearManifest ==
  /\ AtStep(0)
  /\ manifest' = [manifest EXCEPT ![Component] = None]
  /\ Advance(ArtifactEdge, FALSE)
  /\ UNCHANGED <<trees, art, archive, hash, dist, stamp, ninja, budget>>

Clear ==
  /\ AtStep(0)
  /\ art' = [art EXCEPT ![Component] = Nothing]
  /\ manifest' = [manifest EXCEPT ![Component] = None]
  /\ Advance(ArtifactEdge, FALSE)
  /\ UNCHANGED <<trees, archive, hash, dist, stamp, ninja, budget>>

Fill ==
  /\ AtStep(1)
  /\ art' = [art EXCEPT ![Component] = Over(stage, SliceFiles(Component), @)]
  /\ Advance(ArtifactEdge, FALSE)
  /\ UNCHANGED <<trees, manifest, archive, hash, dist, stamp, ninja, budget>>

(* The new manifest makes the archive of the component and dist/rocm old.   *)
Seal ==
  LET last == Component = Comps[Len(Comps)] IN
  /\ AtStep(2)
  /\ manifest' = [manifest EXCEPT ![Component] = Basedirs(Component)]
  /\ logged' = (logged \ {DistEdge, ArchiveEdge(Component)})
                 \union IF last THEN {ArtifactEdge} ELSE {}
  /\ fooled' = IF last THEN fooled \ {ArtifactEdge} ELSE fooled
  /\ Advance(ArtifactEdge, last)
  /\ UNCHANGED <<trees, art, archive, hash, dist, stamp, budget>>

(* ... artifact-archive: the archive is written anew, manifest first, then  *)
(* the hash file.                                                           *)
Packed(c) == <<manifest[c], [f \in File |-> IF f[1] \in manifest[c] THEN art[c][f] ELSE 0]>>

Pack(c) ==
  /\ job[ArchiveEdge(c)] = 0
  /\ archive' = [archive EXCEPT ![c] = Packed(c)]
  /\ Advance(ArchiveEdge(c), FALSE)
  /\ UNCHANGED <<trees, art, manifest, hash, dist, stamp, ninja, budget>>

(* Mutant of WriteHash: an existing hash file is kept.                      *)
WriteHashOnce(c) ==
  /\ job[ArchiveEdge(c)] = 1
  /\ hash' = [hash EXCEPT ![c] = IF @ = None THEN archive[c] ELSE @]
  /\ logged' = logged \union {ArchiveEdge(c)} /\ fooled' = fooled \ {ArchiveEdge(c)}
  /\ Advance(ArchiveEdge(c), TRUE)
  /\ UNCHANGED <<trees, art, manifest, archive, dist, stamp, budget>>

WriteHash(c) ==
  /\ job[ArchiveEdge(c)] = 1
  /\ hash' = [hash EXCEPT ![c] = archive[c]]
  /\ logged' = logged \union {ArchiveEdge(c)} /\ fooled' = fooled \ {ArchiveEdge(c)}
  /\ Advance(ArchiveEdge(c), TRUE)
  /\ UNCHANGED <<trees, art, manifest, archive, dist, stamp, budget>>

(* Mutant of Flatten: what dist/rocm has is not replaced.                   *)
FlattenKeeping ==
  LET i == job[DistEdge] IN
  /\ i \in 0 .. Len(Comps) - 1
  /\ dist' = Over(dist, File, Packed(Comps[i + 1])[2])
  /\ Advance(DistEdge, FALSE)
  /\ UNCHANGED <<trees, art, manifest, archive, hash, stamp, ninja, budget>>

(* ... artifact-flatten of all artifact directories (module ArtifactFlatten)*)
(* over what dist/rocm holds, component by component, then the touch.       *)
Flatten ==
  LET i == job[DistEdge] IN
  /\ i \in 0 .. Len(Comps) - 1
  /\ dist' = Over(Packed(Comps[i + 1])[2], File, dist)
  /\ Advance(DistEdge, FALSE)
  /\ UNCHANGED <<trees, art, manifest, archive, hash, stamp, ninja, budget>>

TouchStamp ==
  /\ job[DistEdge] = Len(Comps)
  /\ stamp' = TRUE
  /\ logged' = logged \union {DistEdge} /\ fooled' = fooled \ {DistEdge}
  /\ Advance(DistEdge, TRUE)
  /\ UNCHANGED <<trees, art, manifest, archive, hash, dist, budget>>

-----------------------------------------------------------------------------
(* Failures, and what happens between runs.                                 *)

(* What the command an edge is at leaves behind when it stops half way.     *)
PartlyDone(e) ==
  \/ /\ e = ArtifactEdge /\ AtStep(0)
     /\ \E F \in SUBSET File :
          art' = [art EXCEPT ![Component] = Over(@, F, Nothing)]
     /\ manifest' \in {manifest, [manifest EXCEPT ![Component] = None]}
     /\ UNCHANGED <<archive, hash, dist, stamp>>
  \/ /\ e = ArtifactEdge /\ AtStep(1)
     /\ \E F \in SUBSET SliceFiles(Component) :
          art' = [art EXCEPT ![Component] = Over(stage, F, @)]
     /\ UNCHANGED <<manifest, archive, hash, dist, stamp>>
  \/ /\ e[1] = "archive" /\ job[e] = 0
     /\ archive' \in {archive, [archive EXCEPT ![e[2]] = None],
                      [archive EXCEPT ![e[2]] = Truncated]}
     /\ UNCHANGED <<art, manifest, hash, dist, stamp>>
  \/ /\ e = DistEdge /\ job[e] \in 0 .. Len(Comps) - 1
     /\ \E F \in SUBSET File : dist' = Over(Packed(Comps[job[e] + 1])[2], F, dist)
     /\ UNCHANGED <<art, manifest, archive, hash, stamp>>
  \/ /\ e = ArtifactEdge /\ AtStep(2)
     /\ manifest' \in {manifest, [manifest EXCEPT ![Component] = {}]}
     /\ UNCHANGED <<art, archive, hash, dist, stamp>>
  \/ /\ e[1] = "archive" /\ job[e] = 1
     /\ hash' \in {hash, [hash EXCEPT ![e[2]] = Truncated]}
     /\ UNCHANGED <<art, manifest, archive, dist, stamp>>
  \/ e = DistEdge /\ job[e] = Len(Comps) /\ UNCHANGED outputs

(* ninja starts nothing more, and waits for what is running.                *)
Fail(e) ==
  /\ job[e] >= 0
  /\ Disturb
  /\ PartlyDone(e)
  /\ job' = [job EXCEPT ![e] = -1]
  /\ todo' = {f \in todo : job'[f] >= 0}
  /\ fooled' = fooled \union ({e} \intersect logged)
  /\ UNCHANGED <<trees, logged>>

(* Stage phases ran (module SuperBuild): a stage directory holds files of a *)
(* new revision, perhaps others than before, and its stage.stamp is new.    *)
Restage(s) ==
  /\ todo = {}
  /\ s \in there
  /\ \E r \in 1 .. MaxRev, K \in (SUBSET Has[s]) \ {{}} :
       /\ \A f \in File : f[1] = s => stage[f] < r
       /\ stage' = [f \in File |-> IF f[1] # s THEN stage[f]
                                   ELSE IF f[2] \in K THEN r ELSE 0]
  /\ logged' = logged \ {ArtifactEdge}
  /\ UNCHANGED <<there, desc, outputs, fooled, todo, job, budget>>

EditDescriptor ==
  /\ todo = {}
  /\ Disturb
  /\ desc' \in Descriptors \ {desc}
  /\ logged' = logged \ {ArtifactEdge}
  /\ UNCHANGED <<stage, there, outputs, fooled, todo, job>>

(* Deleting outputs: artifact directories, archives with or without their   *)
(* hash files.                                                              *)
RemoveArtifacts(C) ==
  /\ todo = {} /\ Disturb
  /\ art' = [c \in Comp |-> IF c \in C THEN Nothing ELSE art[c]]
  /\ manifest' = [c \in Comp |-> IF c \in C THEN None ELSE manifest[c]]
  /\ UNCHANGED <<trees, archive, hash, dist, stamp, ninja, todo, job>>

RemoveArchive(c, withHash) ==
  /\ todo = {} /\ Disturb
  /\ archive' = [archive EXCEPT ![c] = None]
  /\ hash' = IF withHash THEN [hash EXCEPT ![c] = None] ELSE hash
  /\ UNCHANGED <<trees, art, manifest, dist, stamp, ninja, todo, job>>

-----------------------------------------------------------------------------
Init ==
  /\ there \in {Stage, Stage \ Optional}
  /\ stage = [f \in File |-> IF f[1] \in there THEN 1 ELSE 0]
  /\ desc \in Descriptors
  /\ art = [c \in Comp |-> Nothing] /\ manifest = [c \in Comp |-> None]
  /\ archive = [c \in Comp |-> None] /\ hash = [c \in Comp |-> None]
  /\ dist = Nothing /\ stamp = FALSE
  /\ logged = {} /\ fooled = {} /\ todo = {}
  /\ job = [e \in Edge |-> -1]
  /\ budget = MaxDisturb

Next ==
  \/ \E targets \in {{ArtifactEdge}, {DistEdge}, Edge \ {DistEdge}, Edge} : StartNinja(targets)
  \/ \E e \in Edge : StartEdge(e) \/ Fail(e)
  \/ Clear \/ Fill \/ Seal \/ Flatten \/ TouchStamp
  \/ \E c \in Comp : Pack(c) \/ WriteHash(c)
  \/ \E s \in Stage : Restage(s)
  \/ EditDescriptor
  \/ \E C \in (SUBSET Comp) \ {{}} : RemoveArtifacts(C)
  \/ \E c \in Comp, withHash \in BOOLEAN : RemoveArchive(c, withHash)

Spec == Init /\ [][Next]_vars

-----------------------------------------------------------------------------
(* Properties.                                                              *)

(* A clean edge whose verdict is worth something.  An edge stays clean after*)
(* a failure if its outputs were deleted by hand, not its inputs changed,   *)
(* and the command that was to make them anew left some of each behind: the *)
(* log has its earlier success.  Nothing can be said of these, nor of what  *)
(* was made from them.                                                      *)
Trusted(e) == Clean(e) /\ ({e} \union Inputs(e)) \intersect fooled = {}

(* When ninja finds nothing to do, and is not fooled, every artifact        *)
(* directory is exactly the slice that the descriptor makes of the stage    *)
(* trees as they are now: nothing of earlier revisions, descriptors or      *)
(* failed runs is left in it.                                               *)
ArtifactsExact ==
  Trusted(ArtifactEdge) => \A c \in Comp : art[c] = SliceTree(c) /\ manifest[c] = Basedirs(c)

(* ... every archive holds it in full and goes with its hash file.          *)
ArchivesExact ==
  \A c \in Comp : Trusted(ArchiveEdge(c)) =>
    archive[c] = <<Basedirs(c), SliceTree(c)>> /\ hash[c] = archive[c]

(* ... and dist/rocm has, in its current revision, every file that any of   *)
(* the components has.                                                      *)
DistComplete ==
  Trusted(DistEdge) => \A c \in Comp : \A f \in SliceFiles(c) : stage[f] # 0 => dist[f] = stage[f]

(* The record of stage directory s leaves the default patterns of c alone.  *)
Plain(c, s) == desc[c][s] # None /\ desc[c][s].default /\ desc[c][s].force = {}

(* Directory-level includes of a descriptor put no file that default        *)
(* patterns speak for into two of dev, lib, run and doc, unless it is forced*)
(* or the default patterns are turned off; but doc has no excludes, and may *)
(* take in what is the other's by default.                                  *)
SortedOnce ==
  Trusted(ArtifactEdge) =>
    \A c \in Comp \intersect {"dev", "lib", "run"}, d \in Comp \intersect {"dev", "lib", "run", "doc"} :
      \A f \in File :
        /\ c # d /\ art[c][f] # 0 /\ art[d][f] # 0
        /\ Plain(c, f[1]) /\ Plain(d, f[1])
        => \A m \in {"dev", "lib", "doc"} : f[2] \in Matched[m] => m = c /\ d = "doc"
=============================================================================
