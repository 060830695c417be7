# A verification project for TheRock

TheRock is a CMake super-project that builds some fifty ROCm sub-projects, cuts their
install trees into artifacts and packages those. The logic of its own is in `cmake/*.cmake`
(what the CMake run generates) and `build_tools/*.py` (the commands the generated rules call).
What makes it hard is that almost nothing of it runs in one piece: CMake writes a graph of
custom commands, ninja works through it concurrently and in many runs, and the only things
that live from one run to the next are stamp files, trees of hard links and CMake's cache.

The project models these parts in TLA+, checks them with TLC on small instances and proves
what matters most with TLAPS. Paths below are relative to the repository.

## 1. Inventory

### Super-project build (`cmake/therock_subproject.cmake`, `..._activate`)

- *State.* For each sub-project: sources, `build/`, `stage/`, `dist/` and `stamp/` directories
  with one stamp per phase; ninja's view of which stamps are old.
- *Operations.* `+configure`, `+build`, `+stage`, `+dist`, `+expunge` targets; edits of sources
  and of CMake files; native builds inside `build/` (`docs/development/development_guide.md`).
- *Interactions.* The configure command of a sub-project depends on the `dist.stamp` of its
  build deps, runtime deps and toolchain. Build commands read the deps' dist trees and, through
  `INTERFACE_LINK_DIRS`, their stage trees. The dist command merges the stage trees of all
  transitive runtime deps but depends on the own `stage.stamp` only. Every command runs under
  teatime; the dist command is `fileset_tool.py copy`.
- *Hard.* Concurrency of all commands without locks; commands that fail or are killed half way;
  dependencies that are declared in one place and relied on in another; edits while a build runs.
- *Correct when.* No edit is lost that a stamp can tell; a dist tree is the union of the stage
  trees, of one revision each; a build sees what its configure step saw; no command reads what
  another is writing; one undisturbed run is enough.

### Declaration and dependency provider (same file, `therock_subproject_dep_provider.cmake`)

- *State.* Target properties (`THEROCK_RUNTIME_DEPS`, interface and private directories,
  packages provided), generated `_init.cmake` and `_toolchain.cmake` files.
- *Operations.* `therock_cmake_subproject_declare`, `_provide_package`, `_activate`, called in
  any order by the component `CMakeLists.txt` files.
- *Hard.* Each call sees only what earlier calls left. Transitive closure of the runtime deps is
  by induction on declarations; files are named after arguments.
- *Correct when.* Closure, order and absence of duplicates of the runtime deps; every directory
  that a command reads belongs to a sub-project it waits for; no cycles; each package resolves
  to the tree it is linked with; every sub-project has its own `_init.cmake`.

### Feature selection (`cmake/therock_features.cmake`, `CMakeLists.txt`)

- *State.* `THEROCK_ENABLE_*` cache entries and variables, `THEROCK_RESET_FEATURES`, the list of
  features added.
- *Operations.* `therock_add_feature` for each row of the table, `therock_finalize_features`,
  `therock_report_features`; over and over with other `-D` flags on the same cache.
- *Correct when.* What is enabled is closed under REQUIRES, minimal, and what the user asked for.

### Artifacts (`cmake/therock_artifacts.cmake`, `build_tools/fileset_tool.py`, `_therock_utils/pattern_match.py`)

- *State.* Artifact directories and their manifests, archives and hash files, `dist/rocm` and its
  stamp, ninja's log.
- *Operations.* `artifact` (slice stage directories by the patterns of an `artifact.toml` and of
  the component defaults), `artifact-archive`, `artifact-flatten` (of directories or archives).
- *Hard.* Several outputs of one command; outputs written in place; interruption anywhere; links
  and directories under one name; default patterns that exclude each other.
- *Correct when.* Slices are exact, archives hold them, `dist/rocm` lacks nothing, no file is in
  two components unless it was asked for; flattening is union, in any order and after any restart.

### teatime (`build_tools/teatime.py`)

- *State.* A child process and what it started, a pipe, the console, a buffer, a log file.
- *Hard.* Child, its orphans, pipe, reader and Ctrl-C are concurrent.
- *Correct when.* The log is complete, failures are shown and keep their exit status, nothing of
  a quiet success is shown, teatime ends.

### Python distribution (`build_tools/linux_python_dist_split.py`, `_therock_utils/artifacts.py`, `exe_stub_gen.py`)

- *State.* Artifact directories, the package directories being filled, `materialized_paths`: where
  each relpath was put.
- *Operations.* A waterfall: the core package, one libraries package per target family, the devel
  package with everything else. Symbolic links are resolved, rotated so that the SONAME is the file,
  replaced by a stub executable, or linked back from devel.
- *Hard.* Directory order is any; one table is shared by all packages; reruns over leftovers.
- *Correct when.* Every library is a file of its package wherever its SONAME is looked for, and
  nowhere else; stubs find their executable; devel reads as the install tree; nothing stale.

### Source fetching and patching (`build_tools/fetch_sources.py`, `save_patches.sh`, `docs/development/git_chores.md`)

- *State.* HEAD of each submodule, the recorded commits, skip-worktree flags, unfinished `git am`
  sessions, patch directories.
- *Hard.* Every command may fail or be killed; partial runs; git run in a directory that is not
  cloned works on the parent, `git am` and `git submodule update` alike.
- *Correct when.* A default run that completes leaves each project patched once and hidden; no patch
  is ever recorded as a revision; a run over every project never patches TheRock itself; the
  documented recovery works.

### PyTorch build tool (`external-builds/pytorch/ptbuild.py`)

- *State.* HEAD, two tags and an unfinished `git am` in each repository of the PyTorch tree; files
  that hipify changed; the patches directory for each ref.
- *Operations.* `checkout`, `hipify`, `save-patches`, each a sequence of git commands.
- *Correct when.* A checkout that completes is exact whatever happened before; save-patches saves
  local commits and nothing else; saving and checking out is a round trip.

### The rest

Glob patterns (`pattern_match.py`), soname patching (`patch_linux_so.py`, `patch_fat_wheel.py`) and
AMDGPU target selection (`therock_amdgpu_targets.cmake`) have logic worth modelling and are in the
plan. Job pools, rpath, testing and compiler settings, hash utilities, the docker wrapper,
`merge_compile_commands.py`, CI workflows, images, examples and patches of other projects are
configuration or plain input and output. `PROJECT.json` lists each with its reason, and the hazards
found in the code with the properties that guard against them.

## 2. Modules

| Module | Of | Builds on |
|---|---|---|
| `SuperBuild` | phases, stamps, ninja, developers | its constants are what `SubprojectGraph` generates |
| `SubprojectGraph` | declare, provide_package, activate | |
| `Features` | the feature table over a cache | |
| `Artifacts` | one artifact slice, its archives, `dist/rocm` | stage trees change as `SuperBuild`'s stage command does |
| `ArtifactFlatten` | one `artifact-flatten` with links | the step `Flatten` of `Artifacts` in detail |
| `Teatime` | child, pipe, sinks, Ctrl-C | |
| `BuildPromise` | what the super-project promises, abstractly | implemented by `SuperBuild` |
| `DistSplit` | Python packages from artifact directories | artifacts as `Artifacts` makes them |
| `FetchSources` | submodules and patches of TheRock | |
| `PtBuild` | ptbuild.py over git repositories | |
| `SuperBuildProofs` | theorems about the super-project build | `SuperBuild`, `BuildPromise` |
| `ConfigureProofs` | theorems about one CMake run | `SubprojectGraph`, `Features` |
| `ArtifactsProofs`, `ArtifactFlattenProofs`, `TeatimeProofs`, `DistSplitProofs`, `FetchProofs`, `PtBuildProofs` | theorems about one module each | `Artifacts`, `ArtifactFlatten`, `Teatime`, `DistSplit`, `FetchSources`, `PtBuild` |
| `MC...` | values of the constants for TLC | |

Definitions called `...Without...`, `...Keeping...` and so on with a comment "Mutant of" are wrong
versions of the definition below them, used to see that a property can fail; nothing refers to them.

### SuperBuild

The sources of a sub-project are two numbers, the revision of its lists (the CMakeLists.txt, hooks and
generated files that cmake parses) and that of the files that are compiled. A tree is a function from
sub-projects to the set of their revisions that are in it, so that "torn" and "stale" can be told
apart from "right" without any files. Time is `old[p]`: ninja can
only observe whether a stamp is missing or older than an input, so touching a stamp removes the
phase from `old` and adds the phases that name the stamp among their DEPENDS.

| Actions | Code |
|---|---|
| `StartNinja`, `Start`, `Finish`, `Fail` | ninja: plan, start of an edge when its inputs are made, end, failure (no new edge is started, running ones are waited for) |
| `ConfigureDone`, `BuildDone`, `StageDone`, `DistDone` | the command lists, lines 549-670, with the touch (`Touched`) that ends each; configure remembers the deps' trees (`conf`) and the lists it read (`parsed`), a build compiles the files it read with those lists |
| `FailAfterTouch` | `configure` touches its stamp, then copies `compile_commands.json`, lines 563-565 |
| `PartlyDone` | what a command that stops half way leaves: `dist/` is removed first and filled tree by tree |
| `EditSource`, `EditLists` | edits; sources are inputs of `build.stamp` only with `therock_cmake_subproject_glob_c_sources` |
| `RemoveStamp`, `Expunge`, `DirectBuild` | `rm stamp/*`, `+expunge`, ninja inside `build/` |

One ninja runs at a time. Expunge is one step. Job pools and terminals only restrict which edges
run together and are left out. `seen[p]` is the set of revisions that a running build may have
read, `parsing[p]` the set of revisions of the lists that a running configure may have read: what
is edited during the command is older than the stamp touched at the end of it (lines 564 and 613),
and no build system based on time stamps sees it. So the next build may go on with the old lists.
The native build reruns cmake if it finds lists newer than the generated files, which an edit made
while these were written may or may not be: `BuildDone` chooses (`ListsOf`). `Racy` names the
sub-projects edited under their own build or configure command, `Known` the rest with globbed
sources, and `NoLostEdit` and `PromiseKept` speak of these.

### BuildPromise

Sub-projects are `done` or not; one that is done has a product made from what is wanted of all it
uses, after all of these, and keeps it until a disturbance takes it and its users back. `SuperBuild`
implements it with `done <- Fresh` (the sub-projects ninja has nothing to do for), `product <- dist`
and `want <- Want` (the set of just the current revision of lists and files, or `Anything` where the
build cannot know it). The
refinement says more than the invariants: nothing but a disturbance of something it uses makes a
finished sub-project unfinished or changes its tree, and an interrupted or failing run never does.

### SubprojectGraph

`sub[p]` holds the properties of target `p`, `rule[p]` what its activation generated. `Declare`
expands the runtime deps one level as `_collect_runtime_deps` does; `Activate` writes the rule and
the file `initFile[BINARY_DIR]`, without the prefix, as in the code; `DeclareTooEarly`,
`ActivateTooEarly` and `ActivateUnsupported` are the calls that end the CMake run. Every sub-project is taken to
advertise interface directories, the worst case for `DependsCoverReads`. `GraphAssumption` of
`SuperBuild` takes it for granted. Where `scripted` is TRUE each
sub-project is declared, completed and activated before the next is declared, as in the component
`CMakeLists.txt` files; where it is FALSE calls interleave freely, and only the packages in
`FreePackage` are provided. `Acyclic` and `NoEscape` speak of the former only.

### Features

One behaviour is any sequence of CMake runs over one cache. A run is `Configure` (the command line
merged into the cache), `AddFeature` or `AddRefused` for each row, `StartFinalize`, `Finalize` for
each row in reverse, `Report`. Only `cache`, `groups` and `reset` survive; a `FATAL_ERROR` leaves
them as they are. `asked` and `forced` are history variables for `UserDecides`.

### Artifacts

A file is its stage directory and its kind, a pattern the set of kinds it matches: the patterns of
one component only have to be told apart from those of another. The commands of an edge are single
steps, `job[e]` counts them, and `Fail` may stop each half way (`PartlyDone`). ninja finds an edge
clean if its log has a success that is newer than the inputs and the outputs exist. A failure alone
never fools it, since the outputs of a run that was needed stay older than the inputs. Deleting
outputs and then failing to make them again does: the old success counts and what the failed
command left exists. The history variable `fooled` records just that, `Trusted` excludes it, and
the properties hold of everything else. `SortedOnce` leaves out one overlap on purpose: `doc` has no
default excludes, so a directory-level include of `doc` may also take what is another component's.

### ArtifactFlatten

Artifacts are given as directories (entries in `PatternMatcher.all` order, in whatever order scandir
has) or as archives (manifest, then all base directories). `Before` is the order the code
guarantees, everything else is a choice. `CopyPut` and `TarPut` write one entry, with what the
system makes of symbolic links in the way. A file's content is its inode and its artifact, so that two
files of an artifact may be hard links of one another: `tarfile` archives the second as a link member,
which `artifact-flatten` refuses (`HardLink`). `Raise` is any refusal; what was in the way of a member
of an archive is gone by then.

### Teatime

The child writes to a pipe of `PipeCap` lines and blocks when it is full, exits or is killed; so does an
orphan, a process it started that has the pipe open as well and may outlive it. The end of the input
(`ReadEnd`) is when all of `writers` have closed the pipe, whether the child has exited or not.
`Start ... Finish` is teatime from the begin to the end marker, one step per sink; `InterruptLoop` and
`InterruptWait` are Ctrl-C at the two places where it is caught. Exit codes are taken modulo 256.

### DistSplit

Paths have a directory and a name, since SONAMEs are compared with the name alone; a file has a kind, a
SONAME and, for links, a target; content is the base directory of an artifact and the path in it. Two
base directories of one artifact (its stages) are two members of `Artifact`, as `Path.resolve()` does not
go from one to the other. `Visit(n)` is one turn of the loop over a catalog, in any order,
`LibSo` the SONAME rotation, `VisitDevel` the devel package, `NextPackage` the start of the next one.
`Chase` follows links as far as they go, in a base directory (`Resolve`, the code's `Path.resolve()`), in the
merged tree (`InTree`) and over the packages (`Ends`, which only properties use). A link of the SONAME in
another directory than its library is not rotated but copied, so that such a library is a file twice:
`OneCopy` says that it is one just where the linker looks for it (`SonamePaths`).

### FetchSources

`Update`, `Unhide`, `Populate`, `Apply`, `Hide` are the git commands of a run, one step each per
submodule, with the ways `git am` stops (`ApplyConflicts`, `ApplyKilled`, `ApplyRefused`) and a kill
between any two (`Kill`). `Populate` updates the submodules of an ancillary project, which are not
modelled; but where that is not cloned, which partial runs allow, git finds TheRock and checks out all
of *its* submodules at the recorded commits, without their patches (`PopulateKilled`: some of them). A
commit is the sequence of the upstream revision and the patches on it. `AmAbort`, `DeletePatch`,
`Record`, `CommitAndSave` and `NewRevision` are the developer and upstream, as `git_chores.md` describes
them.

### PtBuild

A command is a list of steps (`todo`), one git command each. `Stop` is `check_call` raising or a kill,
at any step (`Die`) and half way through `git am` (`ApplyPartly`). `Divided` says where the hipify tag
divides the history, which is what `save-patches` takes for granted. The three properties are action
properties: `CheckoutExact` and `RoundTrip` speak of the step that makes a tree `whole`, the last one
of a checkout with all stages, and `SavedExactly` of a step that writes patches. `kept` is a history
variable, the commits of a whole tree when it was last saved.

## 3. Runs

| Run | States | Bounds | Shows |
|---|---|---|---|
| `SuperBuildChain` | 900,000 | 3 sub-projects, one edit of the lists or files of each, 3 disturbances, from a finished build | edits, failures, deleted stamps, expunges and direct builds around ninja runs on any target; the refinement of `BuildPromise` |
| `SuperBuildLive` | 67,000 | 4 sub-projects in a diamond, 1 disturbance, from nothing | coherent trees with transitive runtime deps; convergence; the inductive invariant `CohInv`, which contains `IndInv` |
| `SubprojectGraph` | 325,000 | 3 sub-projects, 1 build dep, 2 runtime deps, toolchain, 1 package (none where calls are free) | all orders of declarations, completed one by one or interleaved freely |
| `Artifacts` | 1,216,000 | 2 components, 2 stage directories (one optional), 2 files, 2 disturbances | every way through ninja runs, failures, edits, deletions |
| `ArtifactFlatten` | 1,307,000 | 2 base directories, 2 top names, 1 leaf, 2 inodes, 1 restart | every pair of small trees over every earlier install tree |
| `Teatime` | 99,000 | 4 lines (2 more after SIGTERM), pipe of 2 | every option, exit, kill, an orphan or none, and up to two Ctrl-C |
| `Features` | 24,000 | 4 features, right and wrong order, 1 feature flag per run | any number of CMake runs |
| `DistSplit` | 1,604,000 | 3 paths in 2 directories, 4 base directories of 3 artifacts, one family | every small tree of libraries, programs and links, every directory order, clean or leftover packages |
| `FetchSources` | 77,000 | 2 submodules (one ancillary), 2 patches, 2 upstream revisions, 3 unusual events | runs, kills, conflicts, commits, new revisions, the documented recovery |
| `PtBuild` | 1,285,000 | 1 root, 1 submodule, 2 refs, 2 shipped patches, 1 local commit, 4 commands | every sequence of commands, dying anywhere |
| `SubprojectGraphPrefix` | | violation of `OwnInitFile` | two DIR_PREFIXes of one BINARY_DIR share an `_init.cmake` |
| `DistSplitFamilies` | | violation of `SonamesThere` | with two target families the second package has no host library |

*Why the bounds are enough.* The chain is the shortest graph in which a build dep is no dep of the last
sub-project, so that staleness has to travel through stamps of stamps; three disturbances allow an edit,
a failure in the run that rebuilds it and another edit. The diamond is the smallest graph in which a
tree can be reached at two revisions along two paths. One edit tells current from stale and torn;
`MaxRev` bounds lists and files together (`NewRevision`). Three sub-projects and two runtime deps give
duplicates and a transitive dep. Two components and two stage directories give cross excludes, an
optional directory that is missing, and an archive that is made while another is not. A pipe shorter
than the output makes the child block. Four features have a requirement chain of three, in which a
single pass could miss one. Three paths are a library, a link next to it and a link to it from another
directory, or a chain of links between these; any longer chain is left to the proofs. Two inodes tell
files of one artifact that are hard links of one another from those that are not. Three unusual events
are a partial run, a kill in it and a commit. Four commands are two rounds of checkout and save-patches,
or a failure and its repetition around one.

*Deadlock* is not an error in the runs whose bounds (budget, revisions, one CMake run, one command)
stop the behaviours; in `Features` behaviours never end, and it is checked.

*Fairness.* `SuperBuild`: ninja starts some edge that is ready and some running command ends (weak
fairness of the two, not of single edges). Failing, editing and starting ninja are never fair.
`OneRunConverges` starts where no disturbance is left, and asks only of a run over everything.
`Teatime`: the reader goes on, and the child and its orphan go on until they have closed the pipe (a
process that sleeps on it for ever would keep teatime waiting); nobody has to press Ctrl-C.
`Ends` names the one state (`Stuck`) in which teatime does not end: after Ctrl-C it waits for a
child that waits for room in the pipe.

`FetchSources`: a run that has begun goes on (weak fairness of its steps), a developer starts default
runs again (weak) and follows `git_chores.md`: an aborted session and a subsumed patch that is deleted
are strongly fair, since a run may come in between. Unusual events are bounded and never fair;
deadlock is checked.

### Findings

The two violated properties state what comments say; `PROJECT.json` quotes them. Further
observations that have no run are among the hazards, or exempted by name in a property:

- an edit of a sub-project whose sources are not globbed is invisible to ninja, and so is one made while
  the command that reads it runs, also of the lists during a configure (`Known`, `Racy`);
- an archive of an artifact with two files that are hard links of one another cannot be flattened
  (`Unshared`), although `docs/development/artifacts.md:111` has what `artifact-archive` makes processed by
  `artifact-flatten`;
- `fetch_sources.py --projects` runs `git am`, and `git submodule update` without a path, in TheRock where a
  project it does not fetch has patches or ancillary sources and is not cloned;
- a truncated archive with its old hash file is taken for done after a deletion by hand and an
  interrupted run (`fooled`);
- a leftover cache entry passes the check for the order of features, and `THEROCK_RESET_FEATURES`
  overrides the `-D` flags given along with it, which `development_guide.md` recommends to combine;
- an archive of several artifacts, which `artifact-archive` offers, cannot be flattened;
- `::group::` is left open when a quiet command fails (`HeldBack`);
- a hipify tag of an earlier checkout misleads `save-patches` (`Divided`).

## 4. Proofs

Checked by TLAPS for every value of the constants that satisfies the assumptions. TLC evaluates these
too, on the values of every run:

- `SuperBuild`: `GraphAssumption` (deps are sub-projects and runtime deps are deps) and `BoundAssumption` (there is a revision; the bounds are numbers);
- `SubprojectGraph`: `BoundAssumption` (toolchains are sub-projects, `None` is not; the bounds are
  numbers);
- `Features`: `TableAssumption` (types of the feature table);
- `FetchSources`: `PatchAssumption` (subsumed patches are patches), `AncillaryAssumption` (ancillary
  sources are of projects) and `NameAssumption` (TheRock is no submodule of itself);
- `Teatime`: `BoundAssumption` (the pipe has room for a line);
- `Artifacts`: `SliceAssumption` (types of the slice and its descriptors; a component is listed once,
  and what is optional is so in every record);
- `ArtifactFlatten`: `LayoutAssumption` (there is an artifact and each has a base directory),
  `FiniteAssumption` (an install tree has finitely many names at its top, or links could be followed
  for ever);
- `DistSplit`: `ArtifactAssumption` (finitely many paths and artifacts, a path is its directory and its name, a
  base directory has an artifact's name, component and family, no family is called core or devel, and
  `None` is no path and no name);
- `PtBuild`: `FiniteAssumption` (finitely many submodules and shipped patches, since commands go through
  lists of them) and `NameAssumption` (the HIPIFY commit is neither a patch nor an upstream commit).

Nothing is assumed of acyclicity, of the finiteness of anything else, or of how often something fails,
is edited or killed.

**`SuperBuildProofs`.** `NoLostEdit` says something only of sub-projects ninja has nothing to do for,
and is not inductive: while a run is under way most edges are dirty, and what has been made so far
must be known good although nothing says so yet. `IndInv` adds

- `Settled`: what ninja's verdict "clean" on a *single* edge is worth: a clean build has the right
  `build/`, a clean stage the right `stage/`, a clean dist also equals the merge of the stage trees;
- `PlanSound`: why an edge that is finished in a run becomes clean, and why it is not clean before:
  each planned edge has something old and planned upstream, a running one has nothing else planned
  upstream, and the plan is convex;
- `SeenCurrent`: a running command has the current revision among those it may have read;
- `Configured`: `build/` is configured from the current lists where the configure is clean and nobody
  edited them under it;
- `Scope`: trees hold only what is in the cone of their sub-project.

`Init => IndInv` is immediate. For a step there is one lemma per group of actions. The heart is
`SettledFinish`: the edge that finishes has a clean upstream (`PlanFinish`), so by induction over
phases what it reads is right (`ViewRight`, `MergeRight`, `CompiledRight`, `BuildRight`), and what its touch makes old
is no longer claimed (`CleanTouch`, `StageUp`). Lemmas on `Cone` and `Upstream` (transitivity, what
is downstream of a stamp) carry the graph part. From `[]IndInv`:

- `TypeCorrect`, `Inductive`;
- `NothingLost`: `Spec => []NoLostEdit`; `DistFollowsStage`: `Spec => []DistMatchesStage`;
- `StampsSerialise`: `Spec => []NoTornReads`, from `PlanSound` alone: two running edges are not
  upstream of each other, and whoever reads a directory is downstream of its writer.

*Coherence.* `DistCoherent` and `BuildSeesConfigured` also hold of edits that `NoLostEdit`
has to exempt: those that no stamp shows, and those made under a running build. Being right cannot be
the invariant there. `CohInv` adds to `IndInv`

- `Agreement`: what is made goes with the *stage trees that are there*, of whatever revisions. `Made`
  is what ninja finds clean or this run has finished: a build that is made was compiled against the
  stage trees of all it uses, a dist tree that is made equals them, and a configure step that is made
  has recorded them;
- `PlanClosed`: nothing still planned is upstream of anything this run has made, so what has been
  relied on is not remade under it.

A command changes one tree, and nothing made is downstream of it (`AgreedFrame`, `AgreedCommand`);
what it makes goes with what it read, which is made (`AgreedMake`, `RunningReads`). Coherence has to
hold of torn dist trees too, so it is a conjunct of the invariant and not a consequence of it
(`CoherentCommand`). Hence `OneRevision`: `Spec => []DistCoherent`; `ConfiguredFirst`: `Spec =>
[]BuildSeesConfigured`.

*Refinement.* `Implements`: `Spec => PromiseKept`, for every graph and any number of disturbances. Under
`IndInv` each action of `SuperBuild` is mapped to a step of `BuildPromise` or a stutter: a phase that
starts or fails is `Work` or nothing (`PlannedNotFresh`: what is planned is not fresh), the last
`Finish` of a sub-project is `Deliver` (`FreshFinish`), the start of a build or configure of a
sub-project edited under an earlier one is `Begin`, and edits, deleted stamps, expunges and direct
builds are `Disturbed` (`EditPromised`, `CleaningPromised`: what they make old is exactly downstream).

**`FetchProofs`.** `CleanState` speaks of the end of a run; `Progress` says how far a run has got with
each project in every phase: checked out (`Updated`), visible and checked out (`Pristine`), patched
(`Patched`) and, all but the last one patched, hidden. `PristineRecorded` is a conjunct of the
invariant, since a default run checks out what is recorded. `SessionsOff` is the subtle part: a git am
session may be aborted at any time, which moves HEAD back; it does no harm, because a session either
has not moved HEAD or has left it on a commit that is not upstream, and a project on such a commit is
not one the run has claimed. From `Inductive`: `CleanAfterSuccess`, `OnlyUpstreamRecorded`,
`TheRockStaysClean`.

**`TeatimeProofs`.** In every state there is a number of lines that have been shown (`Copied`): the
console or the buffer has just these between its markers (`ShownFirst`), the log has them, the last
one perhaps not (`LoggedFirst`), and until somebody interrupts the others are in the pipe
(`OthersFollow`); what was held back is on the console after a failure only (`Dumped`). `Leaving` says
where the exit status comes from. From `Inductive`: `LogIsOutput`, `FailureOnConsole`, `NoFalseSuccess`
and `GroupsAreClosed`.

**`ConfigureProofs`, sub-projects.** `Acyclic` is its own induction hypothesis: an activation adds one
sub-project, which nobody waits for yet. `OneByOne` says why: where each is set up before the next is
declared, whoever is activated waits for activated sub-projects only, and these it was checked to be.
`NoCycles`: `Spec => []Acyclic`, for any number of sub-projects.

The other three properties are about what a declare computes from lists, for lists of any length and,
but for `NoEscape`, for calls in any order. `DedupSpec` and `FlattenSpec` say what the two folds return:
everything in the lists, once, at the place where it comes first. That there is such a fold, and that the operators
of the library are it, is by the least position where it were not so (`Least`), for each fold on its
own; the general induction theorem cannot be used here. Then `RuntimeDepsSpec`: with every declared
sub-project's runtime deps declared, without repetition and *in order* (`InOrder`: whatever is
named comes after all of its own), what one level of expansion gives is so again. `RuntimeOrdered` is
this for all sub-projects and is inductive, where `RuntimeClosed`, the closure alone, would not tell that
removing the later of two repetitions leaves the order right. `DirsCovered` says the same of the
directories, and `RulesKept` that what an activation generated still agrees with the properties of its target.
Hence `DistTreeClosed` (`RuntimeClosed`), `ReadsAreWaitedFor` (`DependsCoverReads`) and `PackagesStay`
(`NoEscape`, a conjunct of the invariant: what a runtime dep found is a runtime dep of whoever depends on it,
and `ProviderSpec` says that those are searched first).

**`ConfigureProofs`, features.** `FeaturesInv` has an invariant per loop: while adding, `added` is the prefix of the
table; while finalizing, everything enabled and already passed has its requirements enabled
(`SuffixClosed`), nothing is enabled beyond any closed set around what the cache turns on (`LeastEnabled`),
each enabled feature that the cache does not turn on has one that requires it (`Caused`), and without
a reset the cache has what the flags say (`FlagsKept`). In an ordered table requirements are always
earlier, so one reverse pass is enough: `ClosedUnderRequires`, `NothingElseOn`, `FlagsObeyed`.

**`ArtifactsProofs`.** `ArtifactsExact` says something only when ninja is done. `Settled` says what a
success is worth as long as no failure has followed it: each component *whose manifest is there*
is exact, each archive and hash file is missing or right, and dist/rocm has what it should; it
survives deletions, since what is missing claims nothing. `Making` says the same of the components the
artifact edge has been through in this run, and that sealing a manifest has taken the success from
the archive and from dist/rocm: that is why the last `Seal` may make the edge a success with nothing
else claiming to be. `AtWork` is the order of ninja: whoever reads artifact directories runs only
after the edge that makes them. A failed edge is either no success on its inputs or `fooled`
(`Unsound`), so whatever it leaves behind is claimed by nobody. From `Inductive`: `ArtifactsAreExact`,
`ArchivesAreExact`, `DistIsComplete` and, from the first and the default excludes, `FilesSortedOnce`,
for any number of components, any patterns, descriptors and stage trees. A component is assumed to be
listed once: listed twice it would be packed by two custom commands with one output, which CMake
refuses.

**`ArtifactFlattenProofs`.** `FlattenIsUnion` says something only at the end. `Inv` says of a run under way
that what is pending is closed under `Before` (`Upward`), that each path whose last entry is not
pending is what is expected (`Merged`), and that each other one is of the kind it will be: only
then can no entry be refused, hard links aside, and no directory be found by way of a link (`Free`). The last entry
that has a path comes after all others that have it (`LastIs`), so nothing overwrites it again; a killed
run that starts again finds only kinds that agree (`RestartStep`). Where kinds do conflict less is left:
`LastUnpacked`, the last tree of the last archive is in its place, because archive members remove
the links that are in their way. From `Inductive`: `FlattenMerges`, `NoConflict`, `LastArchiveFound`.

**`PtBuildProofs`.** `CheckoutExact` speaks of the end of one command, whatever state it started from. `Inv`
says for each repository what the steps still in `todo` imply (`InCheckout`): until it is fetched
nothing is known but that it is going to be tagged (`Fetched`), then HEAD is the base revision, then with
the base patches, then with HIPIFY if files changed (`Stage`, `Built`). It needs the order
of the list (`Ordered`, for any number of submodules: `CheckoutIs` and its lemmas on concatenation),
and what developers, dying commands and `git am --abort` may do to tags and sessions between commands
(`Tagged`, `Hipified`, `Sessions`, `Marks`). `Saved` ties the patches directory to what was saved. The
step that completes a tree is then known (`WholeIsBuilt`), and with `RangesAre` (what the two revision
ranges of a history that the tag divides contain) follow `CheckoutIsExact`, `SavedIsExact` and
`RoundTripHolds`, as action properties.

**`DistSplitProofs`.** Four of the five properties say something only at the end, when nothing of the
artifacts is looked at any more; why the assert of the rotation holds is not visible in a single step
either: the target of the link must not have been recorded by any turn of any earlier loop. `Inv` says
what one record in `materialized` is worth, in every order of the turns:

- `Placed`: a name that is recorded is at a place of a runtime package that records itself and has what
  its artifact keeps there (`Keeps`, `Value`), under its own name or that of the link it was rotated with
  (`Turns`);
- `Kept`: what a package keeps of its artifacts is recorded once its loop has been there;
- `Together`: the names of an artifact are all in one package, though families share `materialized`;
- `Recorded`, `Rotated`: what a runtime package has is recorded to be there, and so is the target of a
  link that was rotated;
- `DevelLast`: what devel has of a name, once its loop has been there, and nothing before.

The assert holds because `Placed` leaves no place where the target could be (`AssertHolds`): it ends at
the same library, of which only one name is kept, its SONAME, and that is the link, which is not
recorded yet. At the end every loop has been everywhere (`AllVisited`). What a chain of links ends at is
`ChaseSpec`, for any function on a finite set that every set of places has a way to stop in or to leave
(`Ending`); it needs as many steps as there are places, which is what the least repetition on the way
shows. Links have no loops, so what is false of a name would be false of the one it leads to and of no
last one (`LinksEnd`): so stubs lead to executables (`AllRun`), names resolve in the merged tree as in
their artifact (`ResolveInTree`), and devel reads as the tree (`AllReadAsTree`), although its links go
from package to package (`PlacesEnd`: none comes back). `AssertNeverFails`, `StubsFindExe` and
`DevelReadsAsTree` hold for any artifacts and families. `SonamesFound` and `OneCopyOnly` assume
`OneFamilyEach`: no artifact is built for two families. That is how a build is configured today, and it
is exactly what the violated run `DistSplitFamilies` lacks: of two families, the second package leaves
out what the first has recorded.

**Only model-checked.** That the two violated properties are violated, and liveness:
`OneRunConverges`, `Ends`, `Recovers`. Liveness under fairness and ENABLED are out of the prover's reach, as
is induction over data by the library's theorems; where a proof needs an induction it takes the least
counterexample among the numbers, or the last one along links. No module has RECURSIVE operators.

## 5. Not modelled

- Text: compiler flags, paths, labels, time stamps, the wording of generated files.
- `+expunge` cut off between two directories; several ninja processes at once.
- `stage/` trees keep files that newer revisions no longer install: `SuperBuild` has revisions, not
  files.
- Hard links between stage, dist and artifact directories: install steps are taken to replace files.
- Submodules of submodules, `--depth` and `--jobs` of `fetch_sources.py`.
- GPU target filters, `EXTRA_DEPENDS`, git, docker, CI.
- Which globs match which paths: kinds in `Artifacts`, a module of its own in the plan.

## 6. Plan

Done: `SuperBuild` with its proofs, `BuildPromise` and the proof of the refinement, `Features`,
`FetchSources`, `Teatime` and `Artifacts` with their proofs, `SubprojectGraph`, `ArtifactFlatten`, `PtBuild`,
`DistSplit`, and the proofs of `SubprojectGraph`, `ArtifactFlatten`, `PtBuild` and `DistSplit`.

Next, in this order:

1. `Glob`: `RecursiveGlobPattern` against a reference definition of `**`, `*` and `?`, over all short
   patterns and paths.
2. `AmdgpuTargets`: families, validation and per-project exclusions.
3. `FatWheel`: the renaming of SONAMEs over a wheel (`patch_fat_wheel.py`, `patch_linux_so.py`).

The theorems follow the runs.
