------------------------------ MODULE DistSplit ------------------------------
(***************************************************************************)
(* linux_python_dist_split.py: the artifact directories of a build are     *)
(* relaid into Python packages, where no symbolic link survives.  A        *)
(* waterfall: the core package, one libraries package per target family,   *)
(* and the devel package, which gets every name that is left and links back*)
(* to what an earlier package has.                                         *)
(*                                                                         *)
(* Data abstraction.  A relpath is a directory and a name in it, as SONAMEs*)
(* are compared with the name alone; a file's content is the base directory*)
(* and the path it comes from.  A link says whether its text is a name next*)
(* to it.  Of text, archives and other files "text" is one, and "cmake" is *)
(* one below a cmake directory.                                            *)
(***************************************************************************)
EXTENDS Naturals, FiniteSets, Sequences, SequencesExt

CONSTANTS
  Path,      (* Relpaths: [dir, name].                                     *)
  Artifact,  (* The base directories (the stages) that the artifacts have: *)
             (* [name, component, family] of the ArtifactName, and basedir.*)
  None       (* No path, no SONAME.                                        *)

VARIABLES
  entry,   (* entry[n]: what name n is in the artifacts that have it.      *)
  has,     (* has[a]: the names below base directory a.                    *)
  queue,   (* The packages still to be populated, the current one first.   *)
  todo,    (* The names of its catalog that are not visited yet.           *)
  materialized, (* materialized_paths[n]: where n is, or None.             *)
  pkg,     (* pkg[k][n]: what is at n in the directory of package k.       *)
  failed   (* An assertion ended the script.                               *)

vars == <<entry, has, queue, todo, materialized, pkg, failed>>

Origin(a) == <<a.name, a.component, a.basedir>>
Families == {a.family : a \in Artifact} \ {"generic"}
Packages == {"core", "devel"} \union Families

ASSUME ArtifactAssumption ==
  /\ IsFiniteSet(Path) /\ IsFiniteSet(Artifact)
  /\ \A m, n \in Path : m.dir = n.dir /\ m.name = n.name => m = n
  /\ None \notin Path \union (Packages \X Path) \union {n.name : n \in Path}
  /\ \A a \in Artifact : /\ DOMAIN a = {"name", "component", "family", "basedir"}
                         /\ a.family \notin {"core", "devel"}

Absent       == [is |-> "nothing"]
Old          == [is |-> "old"]   (* Left by an earlier run on another build *)
Directory    == [is |-> "dir"]
Copy(a, n)   == [is |-> "copy", art |-> a, name |-> n]
Stub(n)      == [is |-> "stub", to |-> n]
Symlink(n)   == [is |-> "link", to |-> n]
Back(at)     == [is |-> "back", at |-> at]

File(kind)   == [kind |-> kind, soname |-> None, to |-> None, near |-> FALSE]
Lib(s)       == [kind |-> "so", soname |-> s, to |-> None, near |-> FALSE]
Link(n, b)   == [kind |-> "link", soname |-> None, to |-> n, near |-> b]
Entries(n) ==
  {File("exe"), File("text"), File("cmake"), File("dir")}
  \union {Lib(s) : s \in {m.name : m \in Path} \union {None}}
  \union {Link(m, FALSE) : m \in Path \ {n}}
  \union {Link(m, TRUE) : m \in {m \in Path \ {n} : m.dir = n.dir}}

-----------------------------------------------------------------------------
CoreFilter(an) ==
  \/ /\ an.name \in {"amd-llvm", "base", "core-hip", "core-runtime", "rocprofiler-sdk", "sysdeps"}
     /\ an.component \in {"lib", "run"}
  \/ an.name = "core-hip" /\ an.component = "dev"

LibrariesFilter(family, an) ==
  /\ an.name \in {"blas", "fft", "host-blas", "miopen", "prim", "rand", "rccl"}
  /\ an.component = "lib"
  /\ an.family = family

(* The base directories that a package is populated from.                   *)
Catalog(k) ==
  {an \in Artifact : CASE k = "core"  -> CoreFilter(an)
                       [] k = "devel" -> TRUE
                       [] OTHER       -> LibrariesFilter(k, an)}

(* What pm.matches() yields; core excludes what is below cmake directories. *)
Names(k) ==
  {n \in UNION {has[a] : a \in Catalog(k)} : k = "core" => entry[n].kind # "cmake"}

(* Where one comes from x that goes on to the next until there is no other. *)
Chase(next, x) ==
  LET last == Cardinality(DOMAIN next)
      at[i \in 0 .. last] == IF i = 0 THEN x ELSE next[at[i - 1]]
  IN  at[last]

(* Mutant of Hop: links are followed into the other base directories.       *)
HopAnywhere(a, n) ==
  IF n = None \/ n \notin UNION {has[b] : b \in Artifact} THEN None
  ELSE IF entry[n].kind = "link" THEN entry[n].to ELSE n

Hop(a, n) ==
  IF n = None \/ n \notin has[a] THEN None
  ELSE IF entry[n].kind = "link" THEN entry[n].to ELSE n

(* Path(src_entry.path).resolve(), which stays in the base directory of the *)
(* artifact, or None where it dangles.                                      *)
Resolve(a, n) == Chase([m \in Path \union {None} |-> Hop(a, m)], n)

Put(n, what) == pkg' = [pkg EXCEPT ![Head(queue)][n] = what]
Here(n) == <<Head(queue), n>>

-----------------------------------------------------------------------------
(* maybe_materialize_lib_so.  patchelf reads the SONAME of the file that a  *)
(* link ends at, which is compared with the link's own name, whatever its   *)
(* directory; a link next to its target is rotated: both paths are now where*)
(* this one is.  A link to another directory is not, and records itself.    *)

(* Mutant of LibSo: the link's target is not recorded.                      *)
LibSoUnrotated(a, n, file) ==
  IF entry[file].soname # n.name THEN UNCHANGED <<materialized, pkg, failed>>
  ELSE /\ materialized' = [materialized EXCEPT ![n] = Here(n)]
       /\ Put(n, Copy(a, file)) /\ UNCHANGED failed

(* Mutant of LibSo: the name of the file is compared, not that of the link. *)
LibSoOfFile(a, n, file) ==
  IF entry[file].soname # file.name THEN UNCHANGED <<materialized, pkg, failed>>
  ELSE /\ materialized' = [materialized EXCEPT ![n] = Here(n)]
       /\ Put(n, Copy(a, file)) /\ UNCHANGED failed

(* Mutant of LibSo: recorded before the SONAME is looked at.                *)
LibSoEarly(a, n, file) ==
  /\ materialized' = [materialized EXCEPT ![n] = Here(n)]
  /\ IF entry[file].soname = n.name THEN Put(n, Copy(a, file)) ELSE UNCHANGED pkg
  /\ UNCHANGED failed

LibSo(a, n, file) ==
  LET to == entry[n].to IN
  IF entry[file].soname # n.name THEN UNCHANGED <<materialized, pkg, failed>>
  ELSE IF entry[n].near /\ materialized[to] # None
       THEN failed' = TRUE /\ UNCHANGED <<materialized, pkg>>
  ELSE /\ materialized' = [m \in Path |-> IF m = n \/ (entry[n].near /\ m = to)
                                          THEN Here(n) ELSE materialized[m]]
       /\ Put(n, Copy(a, file)) /\ UNCHANGED failed

(* maybe_materialize_lib_symlink: by what the link ends at.                 *)
LibSymlink(a, n, file) ==
  IF file = None THEN UNCHANGED <<materialized, pkg, failed>>
  ELSE IF entry[file].kind = "dir" THEN UNCHANGED <<materialized, pkg, failed>>
  ELSE IF entry[file].kind = "so" THEN LibSo(a, n, file)
  ELSE /\ Put(n, IF entry[file].kind = "exe" THEN Stub(entry[n].to) ELSE Copy(a, file))
       /\ materialized' = [materialized EXCEPT ![n] = Here(n)]
       /\ UNCHANGED failed

(* Mutant of LibFile: without the SONAME test.                              *)
LibFileAnySo(a, n) ==
  IF entry[n].kind = "dir" THEN Put(n, Directory) /\ UNCHANGED <<materialized, failed>>
  ELSE /\ Put(n, Copy(a, n))
       /\ materialized' = [materialized EXCEPT ![n] = Here(n)]
       /\ UNCHANGED failed

(* materialize_lib_file and materialize_file.                               *)
LibFile(a, n) ==
  IF entry[n].kind = "dir" THEN Put(n, Directory) /\ UNCHANGED <<materialized, failed>>
  ELSE IF entry[n].kind = "so" /\ entry[n].soname # n.name THEN UNCHANGED <<materialized, pkg, failed>>
  ELSE /\ Put(n, Copy(a, n))
       /\ materialized' = [materialized EXCEPT ![n] = Here(n)]
       /\ UNCHANGED failed

(* One entry of materialize_lib_package.                                    *)
VisitLib(a, n) ==
  IF materialized[n] # None THEN UNCHANGED <<materialized, pkg, failed>>
  ELSE IF entry[n].kind = "link" THEN LibSymlink(a, n, Resolve(a, n))
  ELSE LibFile(a, n)

(* materialize_devel_file.                                                  *)
VisitDevel(a, n) ==
  /\ Put(n, IF entry[n].kind = "dir" THEN Directory
            ELSE IF materialized[n] # None THEN Back(materialized[n])
            ELSE IF entry[n].kind = "link" THEN Symlink(entry[n].to)
            ELSE Copy(a, n))
  /\ UNCHANGED <<materialized, failed>>

(* One turn of the loop over a catalog, in any order: scandir and iterdir   *)
(* have none.  The entry is of the last base directory that has the name.   *)
Visit(n) ==
  /\ ~ failed /\ n \in todo
  /\ \E a \in Catalog(Head(queue)) :
       /\ n \in has[a]
       /\ IF Head(queue) = "devel" THEN VisitDevel(a, n) ELSE VisitLib(a, n)
  /\ todo' = todo \ {n}
  /\ UNCHANGED <<entry, has, queue>>

(* The next populate_*_package starts with an empty directory.              *)
NextPackage ==
  /\ ~ failed /\ todo = {} /\ Len(queue) > 1
  /\ queue' = Tail(queue) /\ todo' = Names(Head(Tail(queue)))
  /\ pkg' = [pkg EXCEPT ![Head(Tail(queue))] = [n \in Path |-> Absent]]
  /\ UNCHANGED <<entry, has, materialized, failed>>

Finish ==
  /\ ~ failed /\ todo = {} /\ Len(queue) = 1
  /\ queue' = << >>
  /\ UNCHANGED <<entry, has, todo, materialized, pkg, failed>>

(* Any base directories without a path in two of them, but for those of the *)
(* families of one artifact, which have the same host code; links are       *)
(* without loops.  The families are a Python set: their order is any.  The  *)
(* directories may have the packages of a run on another build.             *)
Init ==
  /\ entry \in {e \in [Path -> UNION {Entries(n) : n \in Path}] :
                  /\ \A n \in Path : e[n] \in Entries(n)
                  /\ \A S \in (SUBSET Path) \ {{}} : \E n \in S : e[n].to \notin S}
  /\ \E owner \in [Path -> {Origin(a) : a \in Artifact} \union {None}] :
       has = [a \in Artifact |-> {n \in Path : owner[n] = Origin(a)}]
  /\ \E order \in SetToSeqs(Families) : queue = <<"core">> \o order \o <<"devel">>
  /\ todo = Names("core")
  /\ materialized = [n \in Path |-> None]
  /\ \E before \in {Absent, Old} :
       pkg = [k \in Packages |-> [n \in Path |-> IF k = "core" THEN Absent ELSE before]]
  /\ failed = FALSE

Next == (\E n \in Path : Visit(n)) \/ NextPackage \/ Finish

Spec == Init /\ [][Next]_vars

-----------------------------------------------------------------------------
(* Properties.                                                              *)

Done == queue = << >> /\ ~ failed

(* The target of a rotated link has never been recorded before the link,    *)
(* whatever the order of the directory scan: the assert holds.              *)
NeverAsserts == ~ failed

(* Where a chain of links, back links and stubs that starts at n in package *)
(* k ends.                                                                  *)
Onward(at) ==
  LET what == pkg[at[1]][at[2]] IN
  IF what.is \in {"link", "stub"} THEN <<at[1], what.to>>
  ELSE IF what.is = "back" THEN what.at ELSE at
Ends(k, n) ==
  LET end == Chase([at \in Packages \X Path |-> Onward(at)], <<k, n>>)
  IN  pkg[end[1]][end[2]]

(* Through the devel package every name reads as it does in the merged      *)
(* install tree: the same file, the same directory, dangling where it       *)
(* dangled and nothing where it has nothing, whatever an earlier run left.  *)
HopInTree(n) ==
  IF n = None \/ \A a \in Artifact : n \notin has[a] THEN None
  ELSE IF entry[n].kind = "link" THEN entry[n].to ELSE n
InTree(n) == Chase([m \in Path \union {None} |-> HopInTree(m)], n)
DevelIsTheTree ==
  Done => \A n \in Path :
    LET m == InTree(n) IN
    IF m = None THEN Ends("devel", n) = Absent
    ELSE IF entry[m].kind = "dir" THEN Ends("devel", n) = Directory
    ELSE \E a \in Artifact : m \in has[a] /\ Ends("devel", n) = Copy(a, m)

(* Where the dynamic linker finds library lib of a: under its SONAME, as the*)
(* file itself or a link to it, in whatever directories.                    *)
SonamePaths(a, lib) == {n \in has[a] : n.name = entry[lib].soname /\ Resolve(a, n) = lib}

(* linux_python_dist_split.py:101-106 (fat packages contain independent     *)
(* host+device code, one per family) and 59-61: what the dynamic linker     *)
(* looks for, the SONAME of each library of its artifacts, is a real file   *)
(* of every runtime package.                                                *)
SonamesThere ==
  Done => \A k \in Packages \ {"devel"} : \A a \in Catalog(k) : \A lib \in has[a] :
    \A n \in SonamePaths(a, lib) : pkg[k][n] = Copy(a, lib)

(* A library that has its SONAME as its name, or has it from a link next to *)
(* it, is a file exactly where the linker looks for it: no package, devel   *)
(* neither, has a copy under another name.  With a link of that name in     *)
(* another directory as well there are two copies, and no more.             *)
OneCopy ==
  Done => \A k \in Packages \ {"devel"} : \A a \in Catalog(k) : \A lib \in has[a] :
    LET paths == SonamePaths(a, lib) IN
    (\E s \in paths : s = lib \/ (entry[s].near /\ entry[s].to = lib)) =>
      {at \in Packages \X Path : pkg[at[1]][at[2]] = Copy(a, lib)} = {k} \X paths

(* A stub that stands for a link to an executable has that executable to    *)
(* run in its own package.                                                  *)
StubsRun ==
  Done => \A k \in Packages \ {"devel"} : \A n \in Path : pkg[k][n].is = "stub" =>
    \E a \in Catalog(k) : \E exe \in has[a] :
      entry[exe].kind = "exe" /\ Ends(k, n) = Copy(a, exe)

=============================================================================
