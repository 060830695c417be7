----------------------------- MODULE FetchSources -----------------------------
(***************************************************************************)
(* build_tools/fetch_sources.py and save_patches.sh: the submodules of     *)
(* TheRock are checked out at the commit that is recorded in its index (or *)
(* at the head of their remote), and the patches of every directory in     *)
(* patches/<tag> are applied with `git am'.  A patched submodule is hidden *)
(* from git in TheRock by its skip-worktree flag.  A run may fail or be    *)
(* killed anywhere; the next one, or the developer, starts from what is    *)
(* left.                                                                   *)
(*                                                                         *)
(* Data abstraction.  A commit is the sequence of the changes of its       *)
(* history: an upstream revision, then patches.                            *)
(***************************************************************************)
EXTENDS Naturals, Sequences, SequencesExt

CONSTANTS
  Project,     (* Submodules that fetch_sources lists by default.          *)
  Ancillary,   (* rocprofiler-register, rocprofiler-sdk.                   *)
  Patch,       (* Patches.                                                 *)
  TheRock,     (* The repository that has the submodules.                  *)
  None,
  Subsumed,    (* Those that do not apply to the second upstream revision. *)
  MaxUnusual   (* Bound: unusual runs, kills, commits and new revisions.   *)

ASSUME PatchAssumption == Subsumed \subseteq Patch /\ MaxUnusual \in Nat
ASSUME AncillaryAssumption == Ancillary \subseteq Project
ASSUME NameAssumption == TheRock \notin Project /\ None \notin Project

Repo == Project \union {TheRock}
Revision == {1, 2}
Upstream(commit) == Len(commit) = 1

VARIABLES
  head,     (* HEAD of each submodule; << >>: not cloned.                  *)
  recorded, (* The commit of each submodule in TheRock's index.            *)
  remote,   (* Whether a second revision is at the head of the remotes.    *)
  skip,     (* The skip-worktree flag of each submodule.                   *)
  am,       (* None, or the `git am' session left: [orig, at, stuck].      *)
  dir,      (* dir[p]: the patch files of p in order; None: no directory.  *)
  run,      (* The run: [phase, projects, remote, update, patch].          *)
  left,     (* Projects that the phase has still to do.                    *)
  patched,  (* The project that is patched and not hidden yet, or None.    *)
  result,   (* "ok": since the last run completed nothing was committed.   *)
  unusual   (* Unusual events so far.                                      *)

vars == <<head, recorded, remote, skip, am, dir, run, left, patched, result, unusual>>

Idle == run.phase = "idle"
Unusual == unusual < MaxUnusual /\ unusual' = unusual + 1
HavePatches == {p \in Project : dir[p] # None}

-----------------------------------------------------------------------------
(* The script.                                                              *)

(* Command line: projects, --remote, --update-submodules, --apply-patches.  *)
Start(projects, isRemote, update, patch) ==
  /\ Idle
  /\ run' = [phase |-> IF update THEN "update" ELSE "unhide", projects |-> projects,
             remote |-> isRemote, update |-> update, patch |-> patch]
  /\ left' = projects
  /\ result' = "running"
  /\ UNCHANGED <<head, recorded, remote, skip, am, dir, patched>>

Default == Start(Project, FALSE, TRUE, TRUE) /\ UNCHANGED unusual

Other == Unusual /\ \E projects \in SUBSET Project \ {{}}, isRemote, update, patch \in BOOLEAN :
  Start(projects, isRemote, update, patch)

To(phase, projects) ==
  /\ run' = [run EXCEPT !.phase = phase]
  /\ left' = projects
  /\ result' = IF phase = "idle" THEN "ok" ELSE result

Quit ==
  /\ run' = [run EXCEPT !.phase = "idle"]
  /\ left' = {} /\ patched' = None
  /\ result' = "failed"

(* Mutant of Update: only the first project is updated.                     *)
UpdateFirst(p) ==
  /\ run.phase = "update" /\ p \in left
  /\ head' = [head EXCEPT ![p] = IF run.remote THEN <<remote>> ELSE recorded[p]]
  /\ To("unhide", run.projects)
  /\ UNCHANGED <<recorded, remote, skip, am, dir, patched, unusual>>

(* Mutant of Update: a project that has been cloned is not updated.         *)
UpdateClones(p) ==
  /\ run.phase = "update" /\ p \in left
  /\ head' = [head EXCEPT ![p] = IF @ # << >> THEN @ ELSE IF run.remote THEN <<remote>> ELSE recorded[p]]
  /\ IF left = {p} THEN To("unhide", run.projects)
     ELSE left' = left \ {p} /\ UNCHANGED <<run, result>>
  /\ UNCHANGED <<recorded, remote, skip, am, dir, patched, unusual>>

(* git submodule update --init [--remote], one submodule.                   *)
Update(p) ==
  /\ run.phase = "update" /\ p \in left
  /\ head' = [head EXCEPT ![p] = IF run.remote THEN <<remote>> ELSE recorded[p]]
  /\ IF left = {p} THEN To("unhide", run.projects)
     ELSE left' = left \ {p} /\ UNCHANGED <<run, result>>
  /\ UNCHANGED <<recorded, remote, skip, am, dir, patched, unusual>>

(* Mutant of Unhide: git update-index --no-skip-worktree left out.          *)
UnhideNothing ==
  /\ run.phase = "unhide"
  /\ To("populate", Ancillary)
  /\ UNCHANGED <<head, recorded, remote, skip, am, dir, patched, unusual>>

(* git update-index --no-skip-worktree; on to the ancillary sources.        *)
Unhide ==
  /\ run.phase = "unhide"
  /\ skip' = [p \in Project |-> skip[p] /\ p \notin run.projects]
  /\ To("populate", Ancillary)
  /\ UNCHANGED <<head, recorded, remote, am, dir, patched, unusual>>

(* git submodule update --init, without a path, in the directory of p: its  *)
(* own submodules, which are not modelled; but where p is not cloned, git   *)
(* finds TheRock and checks out every submodule at its recorded commit.     *)
Populate(p) ==
  /\ run.phase = "populate" /\ p \in left
  /\ head' = IF head[p] = << >> THEN recorded ELSE head
  /\ left' = left \ {p}
  /\ UNCHANGED <<recorded, remote, skip, am, dir, run, patched, result, unusual>>

PopulateKilled(p) ==
  /\ run.phase = "populate" /\ p \in left /\ head[p] = << >>
  /\ Unusual /\ Quit
  /\ \E some \in SUBSET Project :
       head' = [q \in Project |-> IF q \in some THEN recorded[q] ELSE head[q]]
  /\ UNCHANGED <<recorded, remote, skip, am, dir>>

(* On to the patch directories.                                             *)
ApplyPatches ==
  /\ run.phase = "populate" /\ left = {}
  /\ IF run.patch /\ HavePatches # {} THEN To("patch", HavePatches) ELSE To("idle", {})
  /\ UNCHANGED <<head, recorded, remote, skip, am, dir, patched, unusual>>

(* The repository that git finds in p's directory: empty, it is TheRock's.  *)
Found(p) == IF head[p] = << >> THEN TheRock ELSE p

(* The patches of p that do not apply: one that is there already, one that  *)
(* conflicts with the revision, and in TheRock, every one.                  *)
Conflicts(p) ==
  {i \in DOMAIN dir[p] : \/ Found(p) = TheRock
                         \/ Contains(head[p], dir[p][i])
                         \/ head[p][1] = 2 /\ dir[p][i] \in Subsumed}

(* git am of all patch files.                                               *)
Apply(p) ==
  /\ run.phase = "patch" /\ patched = None /\ p \in left
  /\ am[Found(p)] = None /\ Conflicts(p) = {}
  /\ head' = [head EXCEPT ![p] = @ \o dir[p]]
  /\ patched' = p /\ left' = left \ {p}
  /\ UNCHANGED <<recorded, remote, skip, am, dir, run, result, unusual>>

(* git am stops at patch i: those before it stay, and so does the session.  *)
StopAt(p, i, stuck) ==
  LET at == IF Found(p) = TheRock THEN << >> ELSE head[p] \o SubSeq(dir[p], 1, i - 1) IN
  /\ head' = [head EXCEPT ![p] = at]
  /\ am' = [am EXCEPT ![Found(p)] =
              [orig |-> head[p], at |-> at, stuck |-> IF stuck THEN dir[p][i] ELSE None]]
  /\ Quit
  /\ UNCHANGED <<recorded, remote, skip, dir>>

ApplyConflicts(p) ==
  /\ run.phase = "patch" /\ patched = None /\ p \in left
  /\ am[Found(p)] = None /\ Conflicts(p) # {}
  /\ \E i \in Conflicts(p) : (\A j \in Conflicts(p) : i <= j) /\ StopAt(p, i, Found(p) = p)
  /\ UNCHANGED unusual

ApplyKilled(p) ==
  /\ run.phase = "patch" /\ patched = None /\ p \in left
  /\ am[Found(p)] = None /\ Unusual
  /\ \E i \in DOMAIN dir[p] : (\A j \in Conflicts(p) : i <= j) /\ StopAt(p, i, FALSE)

(* `previous rebase directory still exists but mbox given'.                 *)
ApplyRefused(p) ==
  /\ run.phase = "patch" /\ patched = None /\ p \in left
  /\ am[Found(p)] # None
  /\ Quit
  /\ UNCHANGED <<head, recorded, remote, skip, am, dir, unusual>>

(* Mutant of Hide: git update-index --skip-worktree left out.               *)
HideNothing ==
  /\ patched # None
  /\ patched' = None
  /\ To(IF left = {} THEN "idle" ELSE "patch", left)
  /\ UNCHANGED <<head, recorded, remote, skip, am, dir, unusual>>

(* git update-index --skip-worktree of what was patched.                    *)
Hide ==
  /\ patched # None
  /\ skip' = [skip EXCEPT ![patched] = TRUE]
  /\ patched' = None
  /\ To(IF left = {} THEN "idle" ELSE "patch", left)
  /\ UNCHANGED <<head, recorded, remote, am, dir, unusual>>

(* Killed between two commands, or one that fails, as for a lost connection.*)
Kill ==
  /\ ~ Idle /\ Unusual /\ Quit
  /\ UNCHANGED <<head, recorded, remote, skip, am, dir>>

-----------------------------------------------------------------------------
(* The developer (docs/development/git_chores.md).                          *)

(* git am --abort goes back only if HEAD is where the session left it.      *)
AmAbort(r) ==
  /\ Idle /\ am[r] # None
  /\ head' = [p \in Project |-> IF p = r /\ head[p] = am[r].at THEN am[r].orig ELSE head[p]]
  /\ am' = [am EXCEPT ![r] = None]
  /\ UNCHANGED <<recorded, remote, skip, dir, run, left, patched, result, unusual>>

(* The patch that an upstream commit has subsumed is deleted.               *)
DeletePatch(p) ==
  /\ Idle /\ am[p] # None /\ am[p].stuck \in Subsumed /\ dir[p] # None
  /\ \E i \in DOMAIN dir[p] : /\ dir[p][i] = am[p].stuck
                             /\ dir' = [dir EXCEPT ![p] = RemoveAt(@, i)]
  /\ result' = "edited"
  /\ UNCHANGED <<head, recorded, remote, skip, am, run, left, patched, unusual>>

(* The patches of a project are aged out, with their directory.             *)
RemoveDirectory(p) ==
  /\ Idle /\ p \in HavePatches /\ Unusual
  /\ dir' = [dir EXCEPT ![p] = None]
  /\ result' = "edited"
  /\ UNCHANGED <<head, recorded, remote, skip, am, run, left, patched>>

(* git add -A and git commit in TheRock, after a run over everything.       *)
Record ==
  /\ Idle /\ result = "ok" /\ run.projects = Project /\ run.update /\ Unusual
  /\ recorded' = [p \in Project |-> IF skip[p] \/ head[p] = << >> THEN recorded[p] ELSE head[p]]
  /\ UNCHANGED <<head, remote, skip, am, dir, run, left, patched, result>>

(* A commit in a submodule, and save_patches.sh with the recorded commit.   *)
CommitAndSave(p, k) ==
  /\ Idle /\ head[p] # << >> /\ am[p] = None /\ Unusual
  /\ ~ (head[p][1] = 2 /\ k \in Subsumed)
  /\ IsPrefix(recorded[p], head[p]) /\ ~ Contains(head[p], k)
  /\ \A q \in HavePatches : ~ Contains(dir[q], k)
  /\ head' = [head EXCEPT ![p] = Append(@, k)]
  /\ dir' = [dir EXCEPT ![p] = SubSeq(Append(head[p], k), Len(recorded[p]) + 1, Len(head[p]) + 1)]
  /\ result' = "edited"
  /\ UNCHANGED <<recorded, remote, skip, am, run, left, patched>>

NewRevision ==
  /\ remote = 1 /\ Unusual
  /\ remote' = 2
  /\ UNCHANGED <<head, recorded, skip, am, dir, run, left, patched, result>>

(* A fresh clone, with patches for one project.                             *)
Init ==
  /\ head = [p \in Project |-> << >>]
  /\ recorded = [p \in Project |-> <<1>>]
  /\ remote = 1
  /\ skip = [p \in Project |-> FALSE]
  /\ am = [r \in Repo |-> None]
  /\ \E p \in Project, k \in Patch :
       dir = [q \in Project |-> IF q = p THEN <<k>> ELSE None]
  /\ run = [phase |-> "idle", projects |-> Project, remote |-> FALSE, update |-> TRUE, patch |-> TRUE]
  /\ left = {} /\ result = "none" /\ unusual = 0 /\ patched = None

Next ==
  \/ Default \/ Other \/ Unhide \/ ApplyPatches \/ Hide \/ Kill \/ Record \/ NewRevision
  \/ \E r \in Repo : AmAbort(r)
  \/ \E p \in Project :
       \/ Update(p) \/ Populate(p) \/ PopulateKilled(p)
       \/ Apply(p) \/ ApplyConflicts(p) \/ ApplyKilled(p) \/ ApplyRefused(p)
       \/ DeletePatch(p) \/ RemoveDirectory(p)
       \/ \E k \in Patch : CommitAndSave(p, k)

Spec == Init /\ [][Next]_vars

(* The script goes on once it runs; the default run is tried again, and its *)
(* failures are looked after, as development_guide.md and git_chores.md say.*)
Fairness ==
  /\ WF_vars(Default) /\ WF_vars(Unhide) /\ WF_vars(ApplyPatches) /\ WF_vars(Hide)
  /\ \A p \in Project :
       /\ WF_vars(Update(p)) /\ WF_vars(Populate(p)) /\ WF_vars(Apply(p))
       /\ WF_vars(ApplyConflicts(p)) /\ WF_vars(ApplyRefused(p))
       /\ SF_vars(DeletePatch(p))
  /\ \A r \in Repo : SF_vars(AmAbort(r))

FairSpec == Spec /\ Fairness

-----------------------------------------------------------------------------
(* Properties.                                                              *)

(* What a run that succeeded has listed is in the state that the index and  *)
(* the patches describe, whatever was left by earlier runs: at the recorded *)
(* commit with its patches, hidden if and only if it has a patch directory. *)
CleanState ==
  result = "ok" /\ run.update /\ ~ run.remote => \A p \in run.projects :
    /\ head[p] = recorded[p] \o (IF run.patch /\ dir[p] # None THEN dir[p] ELSE << >>)
    /\ skip[p] <=> (run.patch /\ dir[p] # None)

(* Of a submodule that TheRock patches, only upstream commits are recorded: *)
(* `recording the commit is then meaningless'.                              *)
PristineRecorded == \A p \in Project : Upstream(recorded[p])

(* The repository of TheRock itself is patched only by a run that does not  *)
(* check out every project.                                                 *)
TheRockUntouched ==
  [][am'[TheRock] # None => am[TheRock] # None \/ run.projects # Project \/ ~ run.update]_vars

(* The default run gets to a clean state in the end, if what made it fail   *)
(* is looked after: no kill and no failure leaves the tree beyond repair.   *)
Recovers ==
  []<>(result = "ok" /\ run.projects = Project /\ run.update /\ run.patch /\ ~ run.remote)
=============================================================================
