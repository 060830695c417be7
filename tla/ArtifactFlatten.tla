--------------------------- MODULE ArtifactFlatten ---------------------------
(***************************************************************************)
(* `fileset_tool.py artifact-flatten`: several artifacts, each a directory *)
(* or an archive of it, are unpacked one after the other over an install   *)
(* tree that may hold the result of an earlier, perhaps interrupted, run.  *)
(* An artifact is a list of base directories (the stage/ directories its   *)
(* manifest names), each a tree of directories, files and symbolic links.  *)
(*                                                                         *)
(* Data abstraction.  Trees have two levels, and the lower one has files   *)
(* only.  A file's content is its inode and the artifact it came from: two *)
(* paths of an artifact may be hard links to one file.  That an artifact   *)
(* directory is hard-linked into the install tree, an archive copied there,*)
(* makes no difference: what is there is unlinked, never written to.       *)
(***************************************************************************)
EXTENDS Naturals, Sequences, FiniteSets, FiniteSetsExt

CONSTANTS
  Top,          (* Names at the top of an install tree (lib, bin, lib64).  *)
  Leaf,         (* Names of files below them.                              *)
  Inode,        (* What the files of an artifact are.                      *)
  Layouts,      (* Numbers of base directories of the artifacts given.     *)
  Modes,        (* Subset of {"dir", "tar"}: how artifacts are given.      *)
  MaxRestarts   (* Bound: interrupted runs.                                *)

ASSUME LayoutAssumption ==
  /\ \A l \in Layouts : l \in Seq(Nat \ {0}) /\ l # << >>
  /\ Modes \subseteq {"dir", "tar"} /\ MaxRestarts \in Nat

ASSUME FiniteAssumption == IsFiniteSet(Top)

Path == {<<t>> : t \in Top} \union (Top \X Leaf)
None == <<"none">>
Dir  == <<"dir">>
File(c) == <<"file", c>>
Link(t) == <<"link", t>>
Kind(n) == n[1]

(* Install trees whose files have contents in C.                            *)
Nodes(C) == {None, Dir} \union {File(c) : c \in C} \union {Link(u) : u \in Top}
Trees(C) ==
  {f \in [Path -> Nodes(C)] :
     \A t \in Top :
       /\ f[<<t>>] # Link(t)
       /\ \A x \in Leaf : \/ f[<<t, x>>] = None
                          \/ Kind(f[<<t, x>>]) = "file" /\ f[<<t>>] = Dir}

VARIABLES
  mode,      (* "dir" or "tar".                                            *)
  arts,      (* arts[i][b]: the tree of base directory b of artifact i.    *)
  prev,      (* The install tree before the first run.                     *)
  out,       (* The install tree.                                          *)
  pending,   (* Entries <<i, b, p>> the run has still to unpack.           *)
  status,    (* "running", "done" or "failed".                             *)
  restarts

vars == <<mode, arts, prev, out, pending, status, restarts>>

-----------------------------------------------------------------------------
(* What a run works through.                                                *)

Manifest == << >>

(* Base directories of artifact i in which path p exists.                   *)
Having(i, p) == {b \in DOMAIN arts[i] : arts[i][b][p] # None}

(* Of a directory artifact, PatternMatcher.all has one entry per path, in   *)
(* the place of the first base directory that has it.  An archive has all   *)
(* base directories in full, after the manifest.                            *)
There(tree) == {p \in Path : tree[p] # None}

EntriesOf(m, i) ==
  IF m = "dir"
    THEN {<<i, Min(Having(i, p)), p>> : p \in {q \in Path : Having(i, q) # {}}}
    ELSE {<<i, 0, Manifest>>} \union
         UNION {{<<i, b, p>> : p \in There(arts[i][b])} : b \in DOMAIN arts[i]}

Entries(m) == UNION {EntriesOf(m, i) : i \in DOMAIN arts}

(* Mutant of Node: the first base directory of an artifact wins.            *)
NodeOfFirst(e) ==
  IF mode = "dir" THEN arts[e[1]][Min(Having(e[1], e[3]))][e[3]]
                  ELSE arts[e[1]][e[2]][e[3]]

(* ... and the value of the last one.                                       *)
Node(e) ==
  IF mode = "dir" THEN arts[e[1]][Max(Having(e[1], e[3]))][e[3]]
                  ELSE arts[e[1]][e[2]][e[3]]

(* Artifacts and base directories go in order, directories before what is   *)
(* in them; scandir gives the entries of a directory in any order.          *)
Before(e, f) ==
  \/ e[1] < f[1]
  \/ e[1] = f[1] /\ e[2] < f[2]
  \/ e[1] = f[1] /\ e[2] = f[2] /\ Len(e[3]) < Len(f[3]) /\ e[3][1] = f[3][1]

Ready(e) == e \in pending /\ \A f \in pending : ~ Before(f, e)

-----------------------------------------------------------------------------
(* The install tree.                                                        *)

(* Where the links lead from the top-level name t.                          *)
Follow(o, t) ==
  LET at[n \in 0 .. Cardinality(Top)] ==
        IF n = 0 THEN t
        ELSE IF Kind(o[<<at[n - 1]>>]) = "link" THEN o[<<at[n - 1]>>][2] ELSE at[n - 1]
  IN  at[Cardinality(Top)]

IsDir(o, t) == o[<<Follow(o, t)>>] = Dir

(* Putting a file below a directory, as the operating system resolves it.   *)
PutLeaf(o, p, n) == [o EXCEPT ![<<Follow(o, p[1]), p[2]>>] = n]

(* PatternMatcher.copy_to without remove_dest.  mkdir accepts what is a     *)
(* directory, if only by way of a link; unlink refuses a real directory.    *)
CopyFits(o, p, n) ==
  IF Len(p) = 2 THEN IsDir(o, p[1])
  ELSE IF n = Dir THEN o[p] = None \/ IsDir(o, p[1]) ELSE o[p] # Dir

CopyPut(o, p, n) ==
  IF Len(p) = 2 THEN PutLeaf(o, p, n)
  ELSE IF n = Dir /\ o[p] # None THEN o ELSE [o EXCEPT ![p] = n]

(* Mutant of TarFits: what is in the way of a link is not removed.          *)
TarFitsFresh(o, p, n) ==
  IF Len(p) = 2 THEN IsDir(o, p[1])
  ELSE IF Kind(n) = "link" THEN o[p] = None ELSE n = Dir \/ o[p] # Dir

(* The loop over archive members.  A link or a file in the way is removed   *)
(* first, whatever comes; a directory in the way of a file or a link is an  *)
(* error.  Every member is below a base directory of the manifest, which    *)
(* artifact-archive took it from.                                           *)
TarFits(o, p, n) ==
  IF Len(p) = 2 THEN IsDir(o, p[1]) ELSE n = Dir \/ o[p] # Dir

(* Mutant of TarPut: a directory that is there by way of a link is kept.    *)
TarPutKeepingLink(o, p, n) ==
  IF Len(p) = 2 THEN PutLeaf(o, p, n)
  ELSE IF n = Dir /\ IsDir(o, p[1]) THEN o ELSE [o EXCEPT ![p] = n]

TarPut(o, p, n) == IF Len(p) = 2 THEN PutLeaf(o, p, n) ELSE [o EXCEPT ![p] = n]

-----------------------------------------------------------------------------
Slots(l) == UNION {{i} \X (1 .. l[i]) : i \in DOMAIN l}

Init ==
  /\ mode \in Modes
  /\ \E l \in Layouts : \E tree \in [Slots(l) -> Trees(Inode)] :
       arts = [i \in DOMAIN l |-> [b \in 1 .. l[i] |->
                 [p \in Path |-> IF Kind(tree[<<i, b>>][p]) = "file"
                                   THEN File(<<i, tree[<<i, b>>][p][2]>>) ELSE tree[<<i, b>>][p]]]]
  /\ prev \in Trees({<<0>>})
  /\ out = prev
  /\ pending = Entries(mode)
  /\ status = "running"
  /\ restarts = 0

(* tarfile.add has archived the second path of an inode as a hard link,     *)
(* which is no kind of member that artifact-flatten knows.                  *)
HardLink(e) ==
  /\ Kind(Node(e)) = "file"
  /\ \E f \in Entries(mode) \ pending :
       f[1] = e[1] /\ f[3] # Manifest /\ Node(f) = Node(e)

(* An archive is of one artifact, as therock_provide_artifact makes them.   *)
Fits(e) ==
  CASE e[3] = Manifest -> TRUE
    [] mode = "dir"    -> CopyFits(out, e[3], Node(e))
    [] OTHER           -> TarFits(out, e[3], Node(e)) /\ ~ HardLink(e)

Put(e) ==
  CASE e[3] = Manifest -> out
    [] mode = "dir"    -> CopyPut(out, e[3], Node(e))
    [] OTHER           -> TarPut(out, e[3], Node(e))

Unpack(e) ==
  /\ status = "running" /\ Ready(e) /\ Fits(e)
  /\ out' = Put(e)
  /\ pending' = pending \ {e}
  /\ UNCHANGED <<mode, arts, prev, status, restarts>>

(* The error comes after what was in the way of an archive member is gone.  *)
Raise(e) ==
  /\ status = "running" /\ Ready(e) /\ ~ Fits(e)
  /\ status' = "failed"
  /\ out' = IF mode = "tar" /\ TarFits(out, e[3], Node(e)) THEN TarPut(out, e[3], None) ELSE out
  /\ UNCHANGED <<mode, arts, prev, pending, restarts>>

Finish ==
  /\ status = "running" /\ pending = {}
  /\ status' = "done"
  /\ UNCHANGED <<mode, arts, prev, out, pending, restarts>>

(* The run is killed, or has failed, and ninja starts it again.             *)
Restart ==
  /\ status # "done" /\ restarts < MaxRestarts
  /\ pending' = Entries(mode)
  /\ status' = "running"
  /\ restarts' = restarts + 1
  /\ UNCHANGED <<mode, arts, prev, out>>

Next == (\E e \in pending : Unpack(e) \/ Raise(e)) \/ Finish \/ Restart

Spec == Init /\ [][Next]_vars

-----------------------------------------------------------------------------
(* Properties.                                                              *)

Given == UNION {{i} \X DOMAIN arts[i] : i \in DOMAIN arts}

(* No path is one kind of thing here and another there.                     *)
Compatible ==
  \A p \in Path :
    \A m, n \in ({prev[p]} \union {arts[g[1]][g[2]][p] : g \in Given}) \ {None} :
      Kind(m) = Kind(n)

(* What the last of the artifacts that have p, and its last base directory  *)
(* that has p, say of p.                                                    *)
Expected(p) ==
  LET is == {i \in DOMAIN arts : Having(i, p) # {}}
  IN  IF is = {} THEN prev[p] ELSE arts[Max(is)][Max(Having(Max(is), p))][p]

(* Directories and archives flatten to the same tree, the union of what was *)
(* there and all that is given, whatever order scandir gives entries in and *)
(* however often the run was cut short and started again.                   *)
FlattenIsUnion ==
  status = "done" /\ Compatible => out = [p \in Path |-> Expected(p)]

(* No artifact has two paths of one inode.                                  *)
Unshared ==
  \A i \in DOMAIN arts : \A b, c \in DOMAIN arts[i] : \A p, q \in Path :
    Kind(arts[i][b][p]) = "file" /\ arts[i][b][p] = arts[i][c][q] => b = c /\ p = q

(* ... and without conflicts between kinds no run fails, whatever an earlier*)
(* one left: what artifact-archive makes of an artifact directory,          *)
(* artifact-flatten can process (docs/development/artifacts.md:111), as long*)
(* as no two of its files are hard links of one another.                    *)
CompatibleNeverFails ==
  Compatible /\ (mode = "tar" => Unshared) => status # "failed"

(* What p names, links followed.                                            *)
Lookup(p) ==
  IF Len(p) = 1 THEN out[<<Follow(out, p[1])>>]
  ELSE IF IsDir(out, p[1]) THEN out[<<Follow(out, p[1]), p[2]>>] ELSE None

(* Even where kinds conflict: a run that ends well has put every file of    *)
(* the last base directory of the last artifact where it says.  Of artifact *)
(* directories docs/development/artifacts.md:101 says the same: `If each of *)
(* these directories were flattened, they will produce a single unified     *)
(* install-tree of all files'.                                              *)
LastArtifactFound ==
  status = "done" =>
    LET i == Len(arts)
        last == arts[i][Len(arts[i])]
    IN  \A p \in Path : Kind(last[p]) = "file" => Lookup(p) = last[p]

(* What the artifact-flatten of archives keeps of it, because it removes a  *)
(* link that is in the way of a directory.                                  *)
ArchiveFilesFound == mode = "tar" => LastArtifactFound
=============================================================================
