------------------------------- MODULE PtBuild -------------------------------
(***************************************************************************)
(* external-builds/pytorch/ptbuild.py: the PyTorch repository and its      *)
(* submodules are checked out, patched with `git am', hipified and patched *)
(* again; a developer commits on top, and save-patches writes the local    *)
(* commits back to the patches directory.  Two tags per repository divide  *)
(* its history: the upstream and the hipify diffbase.  Any command may fail*)
(* or be killed at any step, and the next starts from what it left.        *)
(*                                                                         *)
(* Data abstraction.  A commit is the sequence of the changes of its       *)
(* history: the upstream ref, patches, and Hipify.  `git am' runs with     *)
(* --committer-date-is-author-date, so applying a patch again on the same  *)
(* parent gives the same commit.                                           *)
(***************************************************************************)
EXTENDS Naturals, Sequences, SequencesExt

CONSTANTS
  Root, Sub,    (* The PyTorch repository and its submodules.              *)
  Ref,          (* Upstream refs; of a submodule, the commit recorded there*)
  Shipped,      (* Patches that the patches directory has at first, and    *)
  Local,        (* those that a developer commits.                         *)
  Hipify,       (* The change that HIPIFY makes.                           *)
  None,
  MaxCommands   (* Bound: commands given.                                  *)

ASSUME FiniteAssumption == IsFiniteSet(Sub) /\ IsFiniteSet(Shipped)

(* HIPIFY is no patch and no upstream commit.                               *)
ASSUME NameAssumption ==
  /\ Root \notin Sub /\ Hipify \notin Ref \union Shipped \union Local
  /\ None \notin Seq(Ref \union Shipped \union Local \union {Hipify})

Repo == {Root} \union Sub
Submodules == SetToSeq(Sub)
Repos == <<Root>> \o Submodules

VARIABLES
  head, up, hip, (* HEAD and the two tags of each repository; << >>: not cloned.*)
  dirty,    (* HIPIFY left changes that are not committed.                 *)
  am,       (* None, or the `git am' session left: [orig, at].             *)
  dir,      (* dir[ref][r]: saved patches [base, hipified].                *)
  converts, (* converts[ref]: the repositories that HIPIFY changes there.  *)
  todo,     (* The steps left of the command: <<operation, repository>>.   *)
  cmd,      (* The command: [kind, ref, hipify, patch, died].              *)
  tree,     (* The last checkout: [ref, done, whole]: completed, and with  *)
            (* all stages.                                                 *)
  kept,     (* kept[ref][r]: HEAD when patches of a whole tree were saved. *)
  given     (* Commands given.                                             *)

vars == <<head, up, hip, dirty, am, dir, converts, todo, cmd, tree, kept, given>>

Unsaved == [r \in Repo |-> None]
Each(op) == [i \in DOMAIN Repos |-> <<op, Repos[i]>>]
EachSub(op) == [i \in DOMAIN Submodules |-> <<op, Submodules[i]>>]
Idle == todo = << >>
Cloned == {r \in Repo : head[r] # << >>}

(* The repository that git finds in r's directory: where a submodule is not *)
(* cloned yet, its parent.                                                  *)
Found(r) == IF r \in Cloned THEN r ELSE Root

(* `git rev-list a..b': what is in b's history and not in a's.              *)
RevList(a, b) == SubSeq(b, Len(LongestCommonPrefix({a, b})) + 1, Len(b))

-----------------------------------------------------------------------------
(* Commands.                                                                *)

HipifySteps == <<<<"convert", Root>>>> \o Each("commit")

CheckoutSteps(hipify, patch) ==
  <<<<"fetch", Root>>, <<"tag", Root>>>> \o EachSub("update") \o EachSub("tag")
    \o (IF patch THEN Each("base") ELSE << >>)
    \o (IF hipify THEN HipifySteps ELSE << >>)
    \o (IF patch THEN Each("hipified") ELSE << >>)

Give(kind, ref, hipify, patch, steps) ==
  /\ Idle /\ given < MaxCommands
  /\ given' = given + 1
  /\ todo' = steps
  /\ cmd' = [kind |-> kind, ref |-> ref, hipify |-> hipify, patch |-> patch, died |-> FALSE]

DoCheckout(ref, hipify, patch) ==
  /\ Give("checkout", ref, hipify, patch, CheckoutSteps(hipify, patch))
  /\ tree' = [ref |-> ref, done |-> FALSE, whole |-> FALSE]
  /\ UNCHANGED <<head, up, hip, dirty, am, dir, converts, kept>>

DoHipify ==
  /\ Root \in Cloned
  /\ Give("hipify", tree.ref, TRUE, FALSE, HipifySteps)
  /\ UNCHANGED <<head, up, hip, dirty, am, dir, converts, tree, kept>>

DoSavePatches ==
  /\ Root \in Cloned
  /\ Give("save", tree.ref, FALSE, FALSE, Each("save"))
  /\ kept' = [kept EXCEPT ![tree.ref] = Unsaved]
  /\ UNCHANGED <<head, up, hip, dirty, am, dir, converts, tree>>

-----------------------------------------------------------------------------
(* Steps.                                                                   *)

At(op, r) == ~ Idle /\ Head(todo) = <<op, r>>

(* The step is done; after the last one a checkout is complete.             *)
Continue(extra) ==
  /\ todo' = extra \o Tail(todo)
  /\ tree' = IF todo' = << >> /\ cmd.kind = "checkout"
             THEN [tree EXCEPT !.done = TRUE, !.whole = cmd.hipify /\ cmd.patch] ELSE tree
  /\ UNCHANGED <<cmd, converts, given>>

(* check_call raises, or the script is killed.                              *)
Stop ==
  /\ todo' = << >> /\ cmd' = [cmd EXCEPT !.died = TRUE]
  /\ UNCHANGED <<converts, tree, given>>

(* git fetch and checkout FETCH_HEAD; git submodule update.                 *)
Fetch(r) ==
  /\ At("fetch", r) \/ At("update", r)
  /\ head' = [head EXCEPT ![r] = <<cmd.ref>>]
  /\ Continue(<< >>)
  /\ UNCHANGED <<up, hip, dirty, am, dir, kept>>

(* Mutant of TagUpstream: git tag without -f, and the error ignored.        *)
TagUpstreamOnce(r) ==
  /\ At("tag", r)
  /\ up' = [up EXCEPT ![r] = IF @ = None THEN head[r] ELSE @]
  /\ Continue(<< >>)
  /\ UNCHANGED <<head, hip, dirty, am, dir, kept>>

TagUpstream(r) ==
  /\ At("tag", r)
  /\ up' = [up EXCEPT ![r] = head[r]]
  /\ Continue(<< >>)
  /\ UNCHANGED <<head, hip, dirty, am, dir, kept>>

(* Mutant of Apply: `git am' ends the session that it finds.                *)
ApplyResuming(r) ==
  \E stage \in {"base", "hipified"} : LET patches == dir[cmd.ref][r][stage] IN
    /\ At(stage, r)
    /\ head' = [head EXCEPT ![r] = IF am[r] = None THEN @ \o patches ELSE @]
    /\ am' = [am EXCEPT ![r] = None]
    /\ Continue(<< >>)
    /\ UNCHANGED <<up, hip, dirty, dir, kept>>

(* All patches of the stage are applied.  Without patches git is not run.   *)
Apply(r) ==
  \E stage \in {"base", "hipified"} : LET patches == dir[cmd.ref][r][stage] IN
    /\ At(stage, r)
    /\ patches # << >> => am[r] = None
    /\ head' = [head EXCEPT ![r] = @ \o patches]
    /\ Continue(<< >>)
    /\ UNCHANGED <<up, hip, dirty, am, dir, kept>>

(* One of them conflicts, or git is killed: those before it stay applied,   *)
(* and the session stays.                                                   *)
ApplyPartly(r) ==
  \E stage \in {"base", "hipified"} : LET patches == dir[cmd.ref][r][stage] IN
    /\ At(stage, r) /\ am[r] = None
    /\ \E k \in 1 .. Len(patches) : LET at == head[r] \o SubSeq(patches, 1, k - 1) IN
         /\ head' = [head EXCEPT ![r] = at]
         /\ am' = [am EXCEPT ![r] = [orig |-> head[r], at |-> at]]
    /\ Stop
    /\ UNCHANGED <<up, hip, dirty, dir, kept>>

(* build_amd.py changes what is not hipified: in a second run, only what was*)
(* committed since.                                                         *)
Convert ==
  /\ At("convert", Root)
  /\ \E new \in SUBSET {r \in Cloned \intersect converts[cmd.ref] : Last(head[r]) # Hipify} :
       /\ {r \in Cloned \intersect converts[cmd.ref] : ~ Contains(head[r], Hipify)} \subseteq new
       /\ dirty' = [r \in Repo |-> dirty[r] \/ r \in new]
  /\ Continue(<< >>)
  /\ UNCHANGED <<head, up, hip, am, dir, kept>>

CommitHipify(r) ==
  /\ At("commit", r)
  /\ head' = [head EXCEPT ![r] = IF dirty[r] THEN Append(@, Hipify) ELSE @]
  /\ dirty' = [dirty EXCEPT ![r] = FALSE]
  /\ Continue(IF dirty[r] THEN <<<<"tag hipify", r>>>> ELSE << >>)
  /\ UNCHANGED <<up, hip, am, dir, kept>>

TagHipify(r) ==
  /\ At("tag hipify", r)
  /\ hip' = [hip EXCEPT ![r] = head[r]]
  /\ Continue(<< >>)
  /\ UNCHANGED <<head, up, dirty, am, dir, kept>>

(* The hipify tag divides the history: it names the one HIPIFY commit, or   *)
(* there is neither.                                                        *)
Divided(r) ==
  IF hip[r] = None THEN ~ Contains(head[r], Hipify)
  ELSE /\ IsPrefix(hip[r], head[r])
       /\ \A i \in DOMAIN head[r] : head[r][i] = Hipify => i = Len(hip[r])

(* Mutant of Ranges: hipify_rev instead of its parent.                      *)
RangesWithHipify(r) ==
  IF hip[r] = None
  THEN [base |-> RevList(up[r], head[r]), hipified |-> << >>]
  ELSE [base |-> RevList(up[r], hip[r]), hipified |-> RevList(hip[r], head[r])]

(* base_revlist and hipified_revlist.                                       *)
Ranges(r) ==
  IF hip[r] = None
  THEN [base |-> RevList(up[r], head[r]), hipified |-> << >>]
  ELSE [base |-> RevList(up[r], Front(hip[r])), hipified |-> RevList(hip[r], head[r])]

NoPatches == [base |-> << >>, hipified |-> << >>]

(* What was saved before is removed first, also if there is no tag and the  *)
(* script exits.                                                            *)
SaveRepo(r) ==
  /\ At("save", r)
  /\ IF up[Found(r)] = None
     THEN /\ dir' = [dir EXCEPT ![cmd.ref][r] = NoPatches]
          /\ UNCHANGED kept /\ Stop
     ELSE /\ dir' = [dir EXCEPT ![cmd.ref][r] = Ranges(Found(r))]
          /\ kept' = [kept EXCEPT ![cmd.ref][r] =
                        IF tree.whole /\ Divided(r) THEN head[r] ELSE None]
          /\ Continue(<< >>)
  /\ UNCHANGED <<head, up, hip, dirty, am>>

(* A command of the script fails or the script is killed between two steps: *)
(* a dirty tree that git does not overwrite, an earlier session of git am.  *)
Die ==
  /\ ~ Idle /\ Stop
  /\ UNCHANGED <<head, up, hip, dirty, am, dir, kept>>

-----------------------------------------------------------------------------
(* The developer.                                                           *)

(* A commit on top.                                                         *)
Commit(r, c) ==
  /\ Idle /\ r \in Cloned /\ am[r] = None /\ ~ dirty[r]
  /\ \A q \in Repo, ref \in Ref :
       ~ Contains(head[q] \o dir[ref][q].base \o dir[ref][q].hipified, c)
  /\ head' = [head EXCEPT ![r] = Append(@, c)]
  /\ UNCHANGED <<up, hip, dirty, am, dir, converts, todo, cmd, tree, kept, given>>

(* git am --abort goes back only if HEAD is where the session left it.      *)
AmAbort(r) ==
  /\ Idle /\ am[r] # None
  /\ head' = [head EXCEPT ![r] = IF @ = am[r].at THEN am[r].orig ELSE @]
  /\ am' = [am EXCEPT ![r] = None]
  /\ UNCHANGED <<up, hip, dirty, dir, converts, todo, cmd, tree, kept, given>>

(* Nothing is cloned; the patches directory has patches for some ref.       *)
Init ==
  /\ head = [r \in Repo |-> << >>]
  /\ up = [r \in Repo |-> None] /\ hip = [r \in Repo |-> None]
  /\ dirty = [r \in Repo |-> FALSE]
  /\ am = [r \in Repo |-> None]
  /\ \E ref \in Ref, base \in SetToSeqs(Shipped) :
       dir = [v \in Ref |-> [r \in Repo |->
                IF v = ref /\ r = Root THEN [base |-> base, hipified |-> << >>] ELSE NoPatches]]
  /\ converts \in [Ref -> {{Root}, Repo}]
  /\ todo = << >>
  /\ \E ref \in Ref :
       /\ tree = [ref |-> ref, done |-> FALSE, whole |-> FALSE]
       /\ cmd = [kind |-> "none", ref |-> ref, hipify |-> FALSE, patch |-> FALSE, died |-> FALSE]
  /\ kept = [ref \in Ref |-> Unsaved]
  /\ given = 0

Next ==
  \/ \E ref \in Ref, hipify, patch \in BOOLEAN : DoCheckout(ref, hipify, patch)
  \/ DoHipify
  \/ DoSavePatches
  \/ Convert
  \/ Die
  \/ \E r \in Repo :
       \/ Fetch(r) \/ TagUpstream(r) \/ Apply(r) \/ ApplyPartly(r)
       \/ CommitHipify(r) \/ TagHipify(r) \/ SaveRepo(r) \/ AmAbort(r)
       \/ \E c \in Local : Commit(r, c)

Spec == Init /\ [][Next]_vars

-----------------------------------------------------------------------------
(* Properties.                                                              *)

(* ptbuild.py:33-37: whatever failed or was killed before, a checkout that  *)
(* completes gives every repository the upstream commit, the base patches,  *)
(* HIPIFY where it changes anything, and the hipified patches, as a fresh   *)
(* one does; only a HIPIFY commit of left-over changes may be one more.     *)
CheckoutExact ==
  [][~ tree.whole /\ tree'.whole =>
       \A r \in Repo : \E h \in {<< >>, <<Hipify>>} :
         /\ head'[r] = <<cmd.ref>> \o dir[cmd.ref][r].base \o h \o dir[cmd.ref][r].hipified
         /\ r \in converts[cmd.ref] /\ ~ Contains(dir[cmd.ref][r].base, Hipify) => h # << >>
    ]_vars

(* save-patches, after a checkout that completed, saves what is local and   *)
(* nothing else: not the HIPIFY commit, no upstream commit, each patch once *)
(* and in order.  Up to the histories that the hipify tag does not divide.  *)
SavedExactly ==
  [][\A r \in Repo, ref \in Ref :
       dir'[ref][r] # dir[ref][r] /\ tree.done /\ Divided(r) =>
         <<head[r][1]>> \o dir'[ref][r].base \o dir'[ref][r].hipified
           = RemoveFirst(head[r], Hipify)]_vars

(* The round trip: the commits of a whole tree, once saved, come back with  *)
(* every later complete checkout of that ref: all as they were where HIPIFY *)
(* changes something, and elsewhere up to a HIPIFY commit of left-overs.    *)
RoundTrip ==
  [][~ tree.whole /\ tree'.whole =>
       \A r \in Repo : kept[cmd.ref][r] # None =>
         /\ RemoveFirst(head'[r], Hipify) = RemoveFirst(kept[cmd.ref][r], Hipify)
         /\ r \in converts[cmd.ref] => head'[r] = kept[cmd.ref][r]
    ]_vars
=============================================================================
