--------------------------- MODULE SubprojectGraph ---------------------------
(***************************************************************************)
(* What the super-project's CMake run makes of the declarations in the     *)
(* CMakeLists.txt files: therock_cmake_subproject_declare, _provide_package*)
(* and _activate, called in any order, each reading the target properties  *)
(* that earlier calls left.  Its result is the build graph that SuperBuild *)
(* takes as a constant, and the package directories of every _init.cmake.  *)
(*                                                                         *)
(* Data abstraction.  Every sub-project advertises interface directories   *)
(* (link, program and pkg-config dirs alike), which is the worst case.  An *)
(* _init.cmake is the sub-project it was written for.                      *)
(***************************************************************************)
EXTENDS Naturals, Sequences, SequencesExt

CONSTANTS
  Proj,        (* Names of sub-projects.                                   *)
  Toolchain,   (* Those that COMPILER_TOOLCHAIN can name.                  *)
  Package,     (* Names of find_package packages.                          *)
  Parent,      (* BINARY_DIRs, and                                         *)
  Prefix,      (* DIR_PREFIXes in them.                                    *)
  MaxBuild,    (* Bound: length of a BUILD_DEPS list.                      *)
  MaxRuntime,  (* Bound: length of a RUNTIME_DEPS list.                    *)
  FreePackage, (* Bound: packages that are provided in unscripted runs.    *)
  None         (* No sub-project: the system, where a package is concerned.*)

ASSUME BoundAssumption ==
  /\ Toolchain \subseteq Proj /\ None \notin Proj
  /\ MaxBuild \in Nat /\ MaxRuntime \in Nat /\ FreePackage \subseteq Package

VARIABLES
  scripted,  (* Each sub-project is declared, completed and activated      *)
             (* before the next one, as everywhere in the tree.            *)
  sub,       (* sub[p]: the properties of target p, once declared.         *)
  provides,  (* provides[p]: THEROCK_PROVIDE_PACKAGES.                     *)
  rule,      (* rule[p]: what the activation of p generated.               *)
  initFile,  (* initFile[d]: the _init.cmake in BINARY_DIR d.              *)
  fatal      (* A call raised FATAL_ERROR, and the CMake run ended.        *)

vars == <<scripted, sub, provides, rule, initFile, fatal>>

Lists(max) == {l \in UNION {[1 .. n -> Proj] : n \in 0 .. max} : IsInjective(l)}

Undeclared == [declared |-> FALSE]
Inactive   == [active |-> FALSE]
Declared   == {p \in Proj : sub[p].declared}
Active     == {p \in Proj : rule[p].active}

(* list(REMOVE_DUPLICATES): the first of equal elements stays.              *)
Dedup(l) == FoldLeft(LAMBDA done, x : IF Contains(done, x) THEN done ELSE Append(done, x),
                     << >>, l)

-----------------------------------------------------------------------------
(* Mutant of RuntimeDeps: the direct ones only.                             *)
RuntimeDepsDirect(runtime) == runtime

(* THEROCK_RUNTIME_DEPS of whoever declares these RUNTIME_DEPS.             *)
RuntimeDeps(runtime) ==
  Dedup(FlattenSeq([i \in DOMAIN runtime |-> Append(sub[runtime[i]].runtime, runtime[i])]))

(* The sub-projects whose directories are in its PRIVATE_*_DIRS.            *)
PrivateDirs(runtime) == UNION {sub[d].interface : d \in ToSet(runtime)}

Declare(p, build, runtime, tool, parent, prefix) ==
  /\ ~ fatal /\ p \notin Declared
  /\ scripted => Declared = Active
  /\ ToSet(runtime) \subseteq Declared
  /\ \A q \in Declared : <<sub[q].parent, sub[q].prefix>> # <<parent, prefix>>
  /\ sub' = [sub EXCEPT ![p] =
       [declared |-> TRUE, build |-> build, runtime |-> RuntimeDeps(runtime),
        private |-> PrivateDirs(runtime), interface |-> PrivateDirs(runtime) \union {p},
        tool |-> tool, parent |-> parent, prefix |-> prefix]]
  /\ UNCHANGED <<scripted, provides, rule, initFile, fatal>>

(* A RUNTIME_DEP that is not declared yet is an error.                      *)
DeclareTooEarly(p, runtime) ==
  /\ ~ fatal /\ p \notin Declared
  /\ ~ (ToSet(runtime) \subseteq Declared)
  /\ fatal' = TRUE
  /\ UNCHANGED <<scripted, sub, provides, rule, initFile>>

ProvidePackage(p, k) ==
  /\ ~ fatal /\ p \in Declared
  /\ IF scripted THEN p \notin Active ELSE k \in FreePackage
  /\ IF k \in provides[p]
       THEN fatal' = TRUE /\ UNCHANGED provides
       ELSE provides' = [provides EXCEPT ![p] = @ \union {k}] /\ UNCHANGED fatal
  /\ UNCHANGED <<scripted, sub, rule, initFile>>

(* Mutant of Provider: build deps first.                                    *)
ProviderBuildFirst(p, k) ==
  LET ds == sub[p].build \o sub[p].runtime
      i  == SelectInSeq(ds, LAMBDA d : k \in provides[d])
  IN  IF i = 0 THEN None ELSE ds[i]

(* Which dep's dist directory find_package(k) is pointed to: the first that *)
(* provides k, runtime deps before build deps.                              *)
Provider(p, k) ==
  LET ds == sub[p].runtime \o sub[p].build
      i  == SelectInSeq(ds, LAMBDA d : k \in provides[d])
  IN  IF i = 0 THEN None ELSE ds[i]

(* Mutant of Needs: the toolchain is not waited for.                        *)
NeedsWithoutToolchain(p) == ToSet(sub[p].build) \union ToSet(sub[p].runtime)

(* The sub-project whose dist has the compiler, if COMPILER_TOOLCHAIN is set*)
ToolchainDepends(p) == {sub[p].tool} \ {None}

(* The dist.stamps that the configure command of p depends on.              *)
Needs(p) == ToSet(sub[p].build) \union ToSet(sub[p].runtime) \union ToolchainDepends(p)

Ignorable == IF scripted THEN Package ELSE FreePackage

(* Mutant of Activate: BUILD_DEPS are not asserted.                         *)
ActivateUnchecked(p, ignore) ==
  /\ ~ fatal /\ p \in Declared \ Active /\ ignore \subseteq Ignorable
  /\ rule' = [rule EXCEPT ![p] =
       [active |-> TRUE, needs |-> Needs(p), merged |-> ToSet(sub[p].runtime),
        package |-> [k \in Package |-> IF k \in ignore THEN None ELSE Provider(p, k)],
        ignore |-> ignore]]
  /\ initFile' = [initFile EXCEPT ![sub[p].parent] = p]
  /\ UNCHANGED <<scripted, sub, provides, fatal>>

(* Needs and the sub-projects whose stage trees are merged into p's dist;   *)
(* BUILD_DEPS and the toolchain must be declared by now.  The name of the   *)
(* generated file has the BINARY_DIR and, DIR_PREFIX being misspelt, no     *)
(* prefix.                                                                  *)
Activate(p, ignore) ==
  /\ ~ fatal /\ p \in Declared \ Active
  /\ Needs(p) \subseteq Declared /\ ignore \subseteq Ignorable
  /\ rule' = [rule EXCEPT ![p] =
       [active |-> TRUE, needs |-> Needs(p), merged |-> ToSet(sub[p].runtime),
        package |-> [k \in Package |-> IF k \in ignore THEN None ELSE Provider(p, k)],
        ignore |-> ignore]]
  /\ initFile' = [initFile EXCEPT ![sub[p].parent] = p]
  /\ UNCHANGED <<scripted, sub, provides, fatal>>

(* To name one that is not declared is an error.                            *)
ActivateTooEarly(p) ==
  /\ ~ fatal /\ p \in Declared \ Active
  /\ ~ (Needs(p) \subseteq Declared)
  /\ fatal' = TRUE
  /\ UNCHANGED <<scripted, sub, provides, rule, initFile>>

(* So is a COMPILER_TOOLCHAIN of another name, which tool has as None.      *)
ActivateUnsupported(p) ==
  /\ ~ fatal /\ p \in Declared \ Active
  /\ sub[p].tool = None
  /\ fatal' = TRUE
  /\ UNCHANGED <<scripted, sub, provides, rule, initFile>>

(* No sub-project is declared before the directories of the tree are added. *)
Init ==
  /\ scripted \in BOOLEAN
  /\ sub = [p \in Proj |-> Undeclared]
  /\ provides = [p \in Proj |-> {}]
  /\ rule = [p \in Proj |-> Inactive]
  /\ initFile = [d \in Parent |-> None]
  /\ fatal = FALSE

Next ==
  \E p \in Proj :
    \/ \E build \in Lists(MaxBuild), runtime \in Lists(MaxRuntime),
          tool \in Toolchain \union {None}, parent \in Parent, prefix \in Prefix :
         Declare(p, build, runtime, tool, parent, prefix)
    \/ \E runtime \in Lists(MaxRuntime) : DeclareTooEarly(p, runtime)
    \/ \E k \in Package : ProvidePackage(p, k)
    \/ \E ignore \in SUBSET Package : Activate(p, ignore)
    \/ ActivateTooEarly(p) \/ ActivateUnsupported(p)

Spec == Init /\ [][Next]_vars

-----------------------------------------------------------------------------
(* Properties.                                                              *)

(* The runtime deps that are merged into a dist tree are transitively       *)
(* complete, although each declare looks only one level down, and come with *)
(* the deepest first.                                                       *)
RuntimeClosed ==
  \A p \in Declared : \A i \in DOMAIN sub[p].runtime :
    LET q == sub[p].runtime[i] IN
    /\ q # p
    /\ ToSet(sub[q].runtime) \subseteq ToSet(SubSeq(sub[p].runtime, 1, i - 1))
    /\ \A j \in 1 .. i - 1 : sub[p].runtime[j] # q

(* Whatever the configure, build and dist commands of p read of other       *)
(* sub-projects (the trees merged, the link, program and pkg-config dirs,   *)
(* the packages, the compiler) is of sub-projects whose dist.stamp the      *)
(* configure command waits for: what SuperBuild assumes of its constants.   *)
DependsCoverReads ==
  \A p \in Active :
    rule[p].merged \union sub[p].private \union ToolchainDepends(p)
      \union ({rule[p].package[k] : k \in Package} \ {None})
    \subseteq rule[p].needs

(* The graph that ninja gets from sub-projects set up one after the other   *)
(* has no cycle, the toolchain and the build deps included, but the one a   *)
(* sub-project makes by naming itself.                                      *)
Acyclic ==
  scripted => \A S \in SUBSET Active :
    S # {} => \E p \in S : rule[p].needs \intersect S \subseteq {p}

(* No package escapes to the system: what a runtime dep of p found in the   *)
(* super-project among its own runtime deps, p finds there too, unless it   *)
(* asked to ignore it; where each is completed before the next is declared. *)
NoEscape ==
  scripted => \A p \in Active : \A q \in rule[p].merged \intersect Active : \A k \in Package :
    rule[q].package[k] \in rule[q].merged /\ k \notin rule[p].ignore
      => rule[p].package[k] \in rule[p].merged

(* cmake/therock_subproject.cmake:172-174 (`if there are multiple           *)
(* sub-projects in a parent dir, then they all must have a distinct         *)
(* prefix'): then every one is configured with its own _init.cmake.         *)
OwnInitFile == \A p \in Active : initFile[sub[p].parent] = p
=============================================================================
