------------------------------ MODULE SuperBuild ------------------------------
(***************************************************************************)
(* The super-project build: ninja runs the four phases configure, build,   *)
(* stage and dist that therock_cmake_subproject_activate() emits for every *)
(* sub-project, ordered only by the stamp files the phases touch, while    *)
(* developers edit sources, delete stamps, expunge a sub-project, work in  *)
(* its build directory, and commands fail or are killed.                   *)
(*                                                                         *)
(* Data abstraction.  The sources of a sub-project are two numbers: the    *)
(* revision of its lists (the CMakeLists.txt, hooks and generated files    *)
(* that cmake parses) and the revision of the files that are compiled.     *)
(* A tree (what configure remembers, build/, stage/, dist/) is a function  *)
(* that gives, for every sub-project, the set of its revisions found in    *)
(* the tree, as its own files or as what something there was compiled      *)
(* against.  A tree in which a sub-project has two revisions is torn.      *)
(*                                                                         *)
(* Time abstraction.  ninja compares modification times.  A stamp is only  *)
(* ever touched to "now", so all it can observe is, for every phase,       *)
(* whether its stamp is missing or older than one of its inputs: the set   *)
(* old[p].  Touching a stamp makes it newer than its inputs and makes the  *)
(* stamps that depend on it old.                                           *)
(***************************************************************************)
EXTENDS Naturals, FiniteSets

CONSTANTS
  Proj,        (* The activated sub-projects.                              *)
  Deps,        (* Deps[p]: whose dist.stamp the configure of p depends on. *)
  Runtime,     (* Runtime[p]: the transitive RUNTIME_DEPS of p.            *)
  Globbed,     (* Sub-projects with therock_cmake_subproject_glob_c_sources*)
  MaxRev,      (* Bound: revisions of one sub-project's sources.           *)
  MaxDisturb   (* Bound: edits, failures, cleanings... in one behaviour.   *)

ASSUME BoundAssumption == MaxRev \in Nat \ {0} /\ MaxDisturb \in Nat

(* What declaration guarantees (module SubprojectGraph): runtime deps are   *)
(* also configure deps.                                                     *)
ASSUME GraphAssumption ==
  /\ Deps \in [Proj -> SUBSET Proj]
  /\ Runtime \in [Proj -> SUBSET Proj]
  /\ \A p \in Proj : Runtime[p] \subseteq Deps[p]
  /\ Globbed \subseteq Proj

Phase == {"configure", "build", "stage", "dist"}

Earlier(ph) ==
  CASE ph = "configure" -> {}
    [] ph = "build"     -> {"configure"}
    [] ph = "stage"     -> {"configure", "build"}
    [] ph = "dist"      -> {"configure", "build", "stage"}

Edge == Proj \X Phase
Rev  == [lists : 1 .. MaxRev, files : 1 .. MaxRev]
Tree == [Proj -> SUBSET Rev]

VARIABLES
  src,      (* src[p]: the current revision of the sources of p.           *)
  seen,     (* seen[p]: revisions of p that its last build command, from   *)
            (* its start to its end, could have read.                      *)
  parsing,  (* parsing[p]: revisions of p's lists that its last configure  *)
            (* command, from its start to its end, could have read.        *)
  old,      (* old[p]: phases of p with a stamp missing or out of date.    *)
  conf,     (* conf[p]: what the dist trees held when p was configured.    *)
  parsed,   (* parsed[p]: revisions of p's lists that p's build/ is        *)
            (* configured from.                                            *)
  built,    (* built[p]: what p's build/ holds.                            *)
  stage,    (* stage[p]: what p's stage/ holds.                            *)
  dist,     (* dist[p]: what p's dist/ holds.                              *)
  todo,     (* Edges the current ninja run has planned and not finished.   *)
  running,  (* Edges whose command is running.                             *)
  budget    (* Disturbances left.                                          *)

trees == <<conf, parsed, built, stage, dist>>
vars  == <<src, seen, parsing, old, conf, parsed, built, stage, dist,
           todo, running, budget>>

Empty == [q \in Proj |-> {}]

-----------------------------------------------------------------------------
(* The build graph.                                                         *)

(* The sub-projects p is built from: p and all it reaches through Deps, as  *)
(* the least set that holds p and is closed under Deps.                     *)
Cone ==
  [p \in Proj |->
     {q \in Proj : \A S \in SUBSET Proj :
                     (p \in S /\ \A x \in S : Deps[x] \subseteq S) => q \in S}]

(* Mutant of Upstream: configure waits for the dep's stage, not its dist.   *)
UpstreamByStage ==
  [e \in Edge |->
     {f \in Edge : \/ f[1] = e[1] /\ f[2] \in Earlier(e[2]) \union {e[2]}
                   \/ /\ \E d \in Deps[e[1]] : f[1] \in Cone[d]
                      /\ f[1] \in Deps[e[1]] => f[2] # "dist"}]

(* The edges whose outputs an edge needs, itself included.                  *)
Upstream ==
  [e \in Edge |->
     {f \in Edge : \/ f[1] = e[1] /\ f[2] \in Earlier(e[2]) \union {e[2]}
                   \/ \E d \in Deps[e[1]] : f[1] \in Cone[d]}]

(* Mutant of Consumers: runtime deps left out of the configure stamps.      *)
ConsumersWithoutRuntimeDeps ==
  [e \in Edge |->
     {f \in Edge : \/ f[1] = e[1] /\ Earlier(f[2]) = Earlier(e[2]) \union {e[2]}
                   \/ /\ e[2] = "dist" /\ f[2] = "configure"
                      /\ e[1] \in Deps[f[1]] \ Runtime[f[1]]}]

(* The edges that name the stamp of e among their DEPENDS: the next phase   *)
(* of the sub-project, and the configure of whoever declares it a dep.      *)
Consumers ==
  [e \in Edge |->
     {f \in Edge : \/ f[1] = e[1] /\ Earlier(f[2]) = Earlier(e[2]) \union {e[2]}
                   \/ e[2] = "dist" /\ f[2] = "configure" /\ e[1] \in Deps[f[1]]}]

Old(e) == e[2] \in old[e[1]]

(* ninja has nothing to do for the stamp of e.                              *)
Clean(e) == \A f \in Upstream[e] : ~ Old(f)

(* `ninja p` has no work to do.                                             *)
UpToDate(p) == \A q \in Cone[p] : old[q] = {}

(* What ninja finds to do for its targets: everything old, and everything   *)
(* that is downstream of something old.                                     *)
Plan(targets) == {e \in UNION {Upstream[t] : t \in targets} : ~ Clean(e)}

(* What the compiler and linker of p find outside p's own sources: the dist *)
(* trees of its dependencies (program dirs, find_package, toolchain) and    *)
(* the stage trees of its runtime deps (their INTERFACE_LINK_DIRS).         *)
View(p) ==
  [q \in Proj |-> UNION ({dist[d][q] : d \in Deps[p]}
                           \union {stage[d][q] : d \in Runtime[p]})]

(* fileset_tool.py copy of the stage trees of p and its runtime deps.       *)
Merge(dirs) == [q \in Proj |-> UNION {stage[d][q] : d \in dirs}]

Mix(s, t) == [q \in Proj |-> s[q] \union t[q]]

(* Mutant of Touched: no touch where no other command needs the stamp.      *)
TouchForgotten(e, o) ==
  [p \in Proj |->
     (o[p] \ (IF p = e[1] /\ Consumers[e] # {} THEN {e[2]} ELSE {}))
       \union {ph \in Phase : <<p, ph>> \in Consumers[e]}]

(* Touching the stamp of e.                                                 *)
Touched(e, o) ==
  [p \in Proj |->
     (o[p] \ (IF p = e[1] THEN {e[2]} ELSE {}))
       \union {ph \in Phase : <<p, ph>> \in Consumers[e]}]

Disturb == budget > 0 /\ budget' = budget - 1

-----------------------------------------------------------------------------
(* A ninja run.                                                             *)

(* `ninja p+phase ...` stats the files and plans the run.                   *)
StartNinja(targets) ==
  /\ todo = {}
  /\ todo' = Plan(targets)
  /\ todo' # {}
  /\ UNCHANGED <<src, seen, parsing, old, trees, running, budget>>

(* The command of e starts to read what its sub-project's sources are now.  *)
StartReading(e) ==
  /\ seen' = IF e[2] = "build" THEN [seen EXCEPT ![e[1]] = {src[e[1]]}] ELSE seen
  /\ parsing' = IF e[2] = "configure"
                  THEN [parsing EXCEPT ![e[1]] = {src[e[1]].lists}] ELSE parsing

(* Mutant of Start: a project's phases in order, its deps not waited for.   *)
StartEarly(e) ==
  /\ e \in todo \ running
  /\ {f \in Upstream[e] \intersect todo : f[1] = e[1]} = {e}
  /\ running' = running \union {e}
  /\ StartReading(e)
  /\ UNCHANGED <<src, old, trees, todo, budget>>

(* An edge starts when no input of it is still to be made.                  *)
Start(e) ==
  /\ e \in todo \ running
  /\ Upstream[e] \intersect todo = {e}
  /\ running' = running \union {e}
  /\ StartReading(e)
  /\ UNCHANGED <<src, old, trees, todo, budget>>

(* What cmake --build compiles: the files it reads, with the lists that     *)
(* build/ is configured from, or with those it finds when it reruns cmake.  *)
(* It does so for lists newer than the generated files, which an edit made  *)
(* while these were written may or may not be.                              *)
Compiled(c, r) == [lists |-> c, files |-> r.files]
ListsOf(p, revs) == parsed[p] \union {s.lists : s \in revs}

(* The whole command list of e has run, the touch of its stamp included.    *)
(* A configure reads the lists, at some revision they had while it ran, and *)
(* the dist trees of the dependencies.                                      *)
ConfigureDone(p) ==
  /\ conf' = [conf EXCEPT ![p] = View(p)]
  /\ \E c \in parsing[p] : parsed' = [parsed EXCEPT ![p] = {c}]
  /\ UNCHANGED <<built, stage, dist>>

(* A build reads its own files, at some revision they had while it ran, and *)
(* the dist trees of its dependencies.                                      *)
BuildDone(p) ==
  /\ \E r \in seen[p], c \in ListsOf(p, seen[p]) :
       /\ built' = [built EXCEPT ![p] = [View(p) EXCEPT ![p] = {Compiled(c, r)}]]
       /\ parsed' = [parsed EXCEPT ![p] = {c}]
  /\ UNCHANGED <<conf, stage, dist>>

StageDone(p) ==
  /\ stage' = [stage EXCEPT ![p] = built[p]]
  /\ UNCHANGED <<conf, parsed, built, dist>>

DistDone(p) ==
  /\ dist' = [dist EXCEPT ![p] = Merge({p} \union Runtime[p])]
  /\ UNCHANGED <<conf, parsed, built, stage>>

Done(e) ==
  \/ e[2] = "configure" /\ ConfigureDone(e[1])
  \/ e[2] = "build"     /\ BuildDone(e[1])
  \/ e[2] = "stage"     /\ StageDone(e[1])
  \/ e[2] = "dist"      /\ DistDone(e[1])

Finish(e) ==
  /\ e \in running
  /\ Done(e)
  /\ old' = Touched(e, old)
  /\ todo' = todo \ {e}
  /\ running' = running \ {e}
  /\ UNCHANGED <<src, seen, parsing, budget>>

(* What a command that stopped half way leaves behind.  The copy command    *)
(* removes the dist tree before it links the stage trees one by one.        *)
PartlyDone(e) ==
  LET p == e[1] IN
  \/ e[2] = "configure" /\ conf' = [conf EXCEPT ![p] = Mix(@, View(p))]
                        /\ parsed' = [parsed EXCEPT ![p] = @ \union parsing[p]]
                        /\ UNCHANGED <<built, stage, dist>>
  \/ e[2] = "build" /\ built' = [built EXCEPT ![p] =
                         Mix(@, [View(p) EXCEPT ![p] =
                           {Compiled(c, r) : c \in ListsOf(p, seen[p]), r \in seen[p]}])]
                    /\ parsed' = [parsed EXCEPT ![p] = ListsOf(p, seen[p])]
                    /\ UNCHANGED <<conf, stage, dist>>
  \/ e[2] = "stage" /\ stage' = [stage EXCEPT ![p] = Mix(@, built[p])]
                    /\ UNCHANGED <<conf, parsed, built, dist>>
  \/ e[2] = "dist"  /\ \E dirs \in SUBSET ({p} \union Runtime[p]) :
                          dist' = [dist EXCEPT ![p] = Merge(dirs)]
                    /\ UNCHANGED <<conf, parsed, built, stage>>

(* A command fails or is killed.  ninja starts nothing more in this run and *)
(* waits for what is running.                                               *)
Fail(e) ==
  /\ e \in running
  /\ Disturb
  /\ PartlyDone(e)
  /\ running' = running \ {e}
  /\ todo' = running'
  /\ UNCHANGED <<src, seen, parsing, old>>

(* The command touched its stamp and was then cut off (the copy of          *)
(* compile_commands.json failed, or ninja was killed before it wrote its    *)
(* log): the stamp is new on disk, and ninja runs the edge again.           *)
FailAfterTouch(e) ==
  /\ e \in running
  /\ Disturb
  /\ Done(e)
  /\ old' = [Touched(e, old) EXCEPT ![e[1]] = @ \union {e[2]}]
  /\ running' = running \ {e}
  /\ todo' = running'
  /\ UNCHANGED <<src, seen, parsing>>

-----------------------------------------------------------------------------
(* Developers.                                                              *)

NewRevision(p, r) ==
  /\ Disturb
  /\ r \in Rev /\ r.lists + r.files <= MaxRev + 1
  /\ src' = [src EXCEPT ![p] = r]
  /\ seen' = IF <<p, "build">> \in running
               THEN [seen EXCEPT ![p] = @ \union {r}] ELSE seen
  /\ UNCHANGED <<trees, todo, running>>

(* Source files are inputs of the build stamp only when they were globbed.  *)
EditSource(p) ==
  /\ NewRevision(p, [lists |-> src[p].lists, files |-> src[p].files + 1])
  /\ old' = IF p \in Globbed THEN [old EXCEPT ![p] = @ \union {"build"}] ELSE old
  /\ UNCHANGED parsing

(* The top CMakeLists.txt, the hooks and the generated _init.cmake and      *)
(* _toolchain.cmake are inputs of the configure stamp.                      *)
EditLists(p) ==
  /\ NewRevision(p, [lists |-> src[p].lists + 1, files |-> src[p].files])
  /\ old' = [old EXCEPT ![p] = @ \union {"configure"}]
  /\ parsing' = IF <<p, "configure">> \in running
                  THEN [parsing EXCEPT ![p] = @ \union {src[p].lists + 1}] ELSE parsing

(* Deleting stamp files, by hand or with `ninja -t clean`.                  *)
RemoveStamp(p, ph) ==
  /\ todo = {}
  /\ Disturb
  /\ ph \notin old[p]
  /\ old' = [old EXCEPT ![p] = @ \union {ph}]
  /\ UNCHANGED <<src, seen, parsing, trees, todo, running>>

(* Mutant of Expunge: the stamp directory is not removed.                   *)
ExpungeKeepingStamps(p) ==
  /\ todo = {}
  /\ Disturb
  /\ conf'  = [conf  EXCEPT ![p] = Empty]
  /\ parsed' = [parsed EXCEPT ![p] = {}]
  /\ built' = [built EXCEPT ![p] = Empty]
  /\ stage' = [stage EXCEPT ![p] = Empty]
  /\ dist'  = [dist  EXCEPT ![p] = Empty]
  /\ UNCHANGED <<src, seen, parsing, old, todo, running>>

(* `ninja p+expunge`.                                                       *)
Expunge(p) ==
  /\ todo = {}
  /\ Disturb
  /\ conf'  = [conf  EXCEPT ![p] = Empty]
  /\ parsed' = [parsed EXCEPT ![p] = {}]
  /\ built' = [built EXCEPT ![p] = Empty]
  /\ stage' = [stage EXCEPT ![p] = Empty]
  /\ dist'  = [dist  EXCEPT ![p] = Empty]
  /\ old'   = [old   EXCEPT ![p] = Phase]
  /\ UNCHANGED <<src, seen, parsing, todo, running>>

(* Running the native build inside p's build directory.                     *)
DirectBuild(p) ==
  /\ todo = {}
  /\ Disturb
  /\ built[p][p] # {}
  /\ \E c \in ListsOf(p, {src[p]}) :
       /\ built' = [built EXCEPT ![p] = [View(p) EXCEPT ![p] = {Compiled(c, src[p])}]]
       /\ parsed' = [parsed EXCEPT ![p] = {c}]
  /\ UNCHANGED <<src, seen, parsing, old, conf, stage, dist, todo, running>>

-----------------------------------------------------------------------------
(* The directories the command of an edge reads and writes.                 *)
Reads(e) ==
  LET p == e[1]
      deps == ({"dist"} \X Deps[p]) \union ({"stage"} \X Runtime[p])
  IN  CASE e[2] = "configure" -> deps
        [] e[2] = "build"     -> deps \union {<<"build", p>>}
        [] e[2] = "stage"     -> {<<"build", p>>}
        [] e[2] = "dist"      -> {"stage"} \X ({p} \union Runtime[p])

Writes(e) ==
  IF e[2] \in {"configure", "build"} THEN {<<"build", e[1]>>} ELSE {<<e[2], e[1]>>}

-----------------------------------------------------------------------------
Init ==
  /\ src = [p \in Proj |-> [lists |-> 1, files |-> 1]]
  /\ seen = [p \in Proj |-> {}]
  /\ parsing = [p \in Proj |-> {}]
  /\ old = [p \in Proj |-> Phase]
  /\ conf = [p \in Proj |-> Empty]
  /\ parsed = [p \in Proj |-> {}]
  /\ built = [p \in Proj |-> Empty]
  /\ stage = [p \in Proj |-> Empty]
  /\ dist = [p \in Proj |-> Empty]
  /\ todo = {}
  /\ running = {}
  /\ budget = MaxDisturb

Ninja == \/ StartNinja(Edge)
         \/ \E e \in Edge : StartNinja({e})
         \/ \E e \in Edge : Start(e)
         \/ \E e \in Edge : Finish(e)

Disturbance ==
  \/ \E e \in Edge : Fail(e) \/ FailAfterTouch(e)
  \/ \E p \in Proj : EditSource(p) \/ EditLists(p) \/ Expunge(p) \/ DirectBuild(p)
  \/ \E p \in Proj, ph \in Phase : RemoveStamp(p, ph)

Next == Ninja \/ Disturbance

Spec == Init /\ [][Next]_vars

(* ninja starts what is ready, and commands end.                            *)
Fairness ==
  /\ WF_vars(\E e \in Edge : Start(e))
  /\ WF_vars(\E e \in Edge : Finish(e))

FairSpec == Spec /\ Fairness

-----------------------------------------------------------------------------
(* Properties.                                                              *)

(* Every variable is in its domain, and only planned edges run.             *)
TypeOK ==
  /\ src \in [Proj -> Rev]
  /\ seen \in Tree
  /\ parsing \in [Proj -> SUBSET (1 .. MaxRev)]
  /\ parsed \in [Proj -> SUBSET (1 .. MaxRev)]
  /\ old \in [Proj -> SUBSET Phase]
  /\ conf \in [Proj -> Tree] /\ built \in [Proj -> Tree]
  /\ stage \in [Proj -> Tree] /\ dist \in [Proj -> Tree]
  /\ running \subseteq todo /\ todo \subseteq Edge
  /\ budget \in 0 .. MaxDisturb

One(revs) == \A a, b \in revs : a = b

(* The sources of q were edited while its build command was running, and no *)
(* build of q has started since, or its lists were edited while its         *)
(* configure command was running, and no configure has started since.  A    *)
(* command touches its stamp last, so the edit is older than the stamp.     *)
Racy(q) == ~ One(seen[q]) \/ ~ One(parsing[q])

(* Sub-projects whose every edit the stamps can see.                        *)
Known(q) == q \in Globbed /\ ~ Racy(q)

(* The tree has the current revision, and only that, of all p is built from.*)
Right(tree, p) == \A q \in Cone[p] : Known(q) => tree[q] = {src[q]}

(* When ninja finds nothing to do for p, every tree of p holds the current  *)
(* revision, and only that one, of every sub-project p is built from: no    *)
(* failure, deleted stamp or expunge on the way is ever forgotten, and no   *)
(* edit but those that no stamp can tell (Known).                           *)
NoLostEdit == \A p \in Proj : UpToDate(p) => Right(stage[p], p) /\ Right(dist[p], p)

(* When ninja finds nothing to do for p, its dist tree is the union of the  *)
(* stage trees of p and its runtime deps as they are now, although its      *)
(* dist command depends on the stage.stamp of p alone.                      *)
DistMatchesStage ==
  \A p \in Proj : UpToDate(p) => dist[p] = Merge({p} \union Runtime[p])

(* Whatever happens, a dist tree never holds two revisions of one           *)
(* sub-project: the copy of a runtime dep in it is the one that everything  *)
(* next to it was compiled against.                                         *)
DistCoherent == \A p, q \in Proj : \A a, b \in dist[p][q] : a = b

(* A build never runs with a configuration that was made against other      *)
(* dependencies than it compiles against.                                   *)
BuildSeesConfigured ==
  \A p \in Proj : <<p, "build">> \in running => conf[p] = View(p)

(* No command reads or writes a tree that another running command writes:   *)
(* the stamps alone serialise all access to the shared directories.         *)
NoTornReads ==
  \A e, f \in running :
    e # f => Writes(e) \intersect (Reads(f) \union Writes(f)) = {}

(* A tree holds nothing of a sub-project its own is not built from.         *)
Scope ==
  \A p \in Proj : \A q \in Proj \ Cone[p] :
    built[p][q] = {} /\ stage[p][q] = {} /\ dist[p][q] = {}

(* What ninja knows of its plan while it works through it: each planned     *)
(* edge has something old upstream of it that is still planned, a running   *)
(* edge has nothing else planned upstream, and no edge between two planned  *)
(* ones was left out.                                                       *)
PlanSound ==
  /\ \A e \in todo : \E f \in Upstream[e] \intersect todo : Old(f)
  /\ \A e \in running : Upstream[e] \intersect todo = {e}
  /\ \A e \in todo : \A h \in Upstream[e] \ todo : Upstream[h] \intersect todo \subseteq {e}

(* What a running command may have read, the present revision included.     *)
SeenCurrent ==
  \A p \in Proj :
    /\ <<p, "build">> \in running => src[p] \in seen[p]
    /\ <<p, "build">> \in running /\ Clean(<<p, "configure">>) =>
         \A s \in seen[p] : s.lists = src[p].lists
    /\ <<p, "configure">> \in running => src[p].lists \in parsing[p]

(* What ninja's clean verdict on a configure is worth.                      *)
Configured ==
  \A p \in Proj :
    Clean(<<p, "configure">>) /\ One(parsing[p]) => parsed[p] = {src[p].lists}

(* Tree by tree, what ninja's clean verdict on one edge is worth.           *)
Settled ==
  \A p \in Proj :
    /\ Clean(<<p, "build">>) => Right(built[p], p)
    /\ Clean(<<p, "stage">>) => Right(stage[p], p)
    /\ Clean(<<p, "dist">>)  => /\ Right(dist[p], p)
                               /\ dist[p] = Merge({p} \union Runtime[p])

(* The inductive invariant behind NoLostEdit and DistMatchesStage.          *)
IndInv == TypeOK /\ Scope /\ PlanSound /\ SeenCurrent /\ Configured /\ Settled

(* Made, so far as this run or ninja's verdict is concerned.                *)
Made(f) == Clean(f) \/ \E e \in todo : f \in Upstream[e] /\ f \notin todo

(* Nothing that is still planned is upstream of what this run has made.     *)
PlanClosed == \A e \in todo : \A f \in Upstream[e] \ todo : Upstream[f] \intersect todo = {}

(* What an edge that is made has made goes with the stage trees that are    *)
(* there, whatever revisions they are of.                                   *)
Agrees(tree, p) == One(tree[p]) /\ \A q \in Cone[p] \ {p} : tree[q] = stage[q][q]
Agreed(f) ==
  LET p == f[1] IN
  /\ f[2] = "configure" => conf[p] = View(p)
  /\ f[2] = "build"     => Agrees(built[p], p)
  /\ f[2] = "stage"     => Agrees(stage[p], p)
  /\ f[2] = "dist"      => \A q \in Cone[p] : dist[p][q] = stage[q][q]
Agreement == \A f \in Edge : Made(f) => Agreed(f)

(* The inductive invariant behind DistCoherent and BuildSeesConfigured.     *)
CohInv == IndInv /\ PlanClosed /\ Agreement /\ DistCoherent

(* A run over everything has just been planned, and nothing disturbs it.    *)
FullRunPlanned == budget = 0 /\ todo # {} /\ todo = {e \in Edge : ~ Clean(e)}

(* One undisturbed run over everything is enough: nothing is left to do.    *)
OneRunConverges == FullRunPlanned ~> \A p \in Proj : UpToDate(p)

(* What users see of the state: the revision that is wanted of each         *)
(* sub-project, if the stamps can tell, and what ninja has nothing to do for*)
Want == [q \in Proj |-> IF Known(q) THEN {src[q]} ELSE {}]
Fresh == {p \in Proj : UpToDate(p)}

Promise == INSTANCE BuildPromise WITH
  Uses <- Cone, want <- Want, done <- Fresh, product <- dist

(* The build keeps its promise: ninja's own steps never take back what is   *)
(* done nor touch its dist tree, sub-projects get done one by one and after *)
(* everything they are built from, each with a good dist tree, and one      *)
(* disturbance takes back only what uses the sub-project it happens to.     *)
PromiseKept == Promise!Spec
=============================================================================
