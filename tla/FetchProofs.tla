----------------------------- MODULE FetchProofs -----------------------------
(***************************************************************************)
(* Proofs about fetch_sources.py: for any submodules and patches, and      *)
(* whatever kills it, a run that succeeds leaves a clean state, and no     *)
(* patch is recorded in the index.                                         *)
(***************************************************************************)
EXTENDS FetchSources, SequenceTheorems, TLAPS

-----------------------------------------------------------------------------
(* The invariant.                                                           *)

Commit == Seq(Revision \union Patch)

(* Every variable is in its domain.                                         *)
TypeOK ==
  /\ head \in [Project -> Commit] /\ recorded \in [Project -> Commit]
  /\ remote \in Revision /\ skip \in [Project -> BOOLEAN]
  /\ am \in [Repo -> [orig : Commit, at : Commit, stuck : Revision \union Patch \union {None}] \union {None}]
  /\ dir \in [Project -> Commit \union {None}]
  /\ run \in [phase : {"idle", "update", "unhide", "populate", "patch"}, projects : SUBSET Project,
               remote : BOOLEAN, update : BOOLEAN, patch : BOOLEAN]
  /\ left \subseteq Project /\ patched \in Project \union {None}
  /\ result \in {"none", "running", "ok", "failed", "edited"}

(* A session that got further than its first patch left HEAD on a commit    *)
(* that is not upstream: to abort it changes no clean project.              *)
SessionsOff ==
  \A p \in Project : am[p] # None => am[p].at = am[p].orig \/ ~ Upstream(am[p].at)

(* How far the run has got with p.                                          *)
Updated(p) ==
  run.update => IF run.remote THEN Upstream(head[p]) ELSE head[p] = recorded[p]
Pristine(p) == Updated(p) /\ ~ skip[p]
Patched(p) ==
  run.update => am[p] = None /\ (~ run.remote => head[p] = recorded[p] \o dir[p])

Progress ==
  /\ run.phase = "update" => run.update /\ \A p \in run.projects \ left : Updated(p)
  /\ run.phase = "unhide" => \A p \in run.projects : Updated(p)
  /\ run.phase = "populate" => \A p \in run.projects : Pristine(p)
  /\ run.phase = "patch"  =>
       /\ run.patch /\ left \subseteq HavePatches
       /\ patched # None => patched \in HavePatches \ left
       /\ \A p \in run.projects : IF p \in HavePatches \ left
                                  THEN Patched(p) /\ (skip[p] \/ patched = p)
                                  ELSE Pristine(p)
  /\ run.phase # "patch" => patched = None
  /\ result = "ok" =>
       /\ Idle
       /\ \A p \in run.projects : IF run.patch /\ p \in HavePatches
                                  THEN Patched(p) /\ skip[p] ELSE Pristine(p)

(* The inductive invariant behind CleanState and PristineRecorded.          *)
IndInv == TypeOK /\ PristineRecorded /\ SessionsOff /\ Progress

-----------------------------------------------------------------------------
(* Commits.                                                                 *)

LEMMA CommitFacts ==
  /\ << >> \in Commit
  /\ \A r \in Revision : <<r>> \in Commit /\ Upstream(<<r>>)
  /\ \A s, t \in Commit : s \o t \in Commit /\ Len(s \o t) = Len(s) + Len(t)
  /\ \A s \in Commit, k \in Patch : Append(s, k) \in Commit
  /\ \A s \in Commit : Len(s) \in Nat /\ (s # << >> => Len(s) > 0) /\ s \o << >> = s
  /\ \A s \in Commit : Upstream(s) => s # << >>
  /\ \A s \in Commit, i \in Nat, j \in Nat :
        i > 0 /\ j <= Len(s) => SubSeq(s, i, j) \in Commit
  BY ConcatProperties, AppendProperties, EmptySeq, LenProperties, SubSeqProperties
     DEF Commit, Upstream

(* What the sequence operators of the actions return.                       *)
LEMMA PatchFacts ==
  ASSUME NEW s \in Commit, NEW i \in DOMAIN s
  PROVE  /\ RemoveAt(s, i) \in Commit
         /\ SubSeq(s, 1, i - 1) \in Commit /\ Len(SubSeq(s, 1, i - 1)) = i - 1
         /\ s[i] \in Revision \union Patch
         /\ i \in Nat \ {0}
  <1>1. Len(s) \in Nat /\ i \in 1 .. Len(s) /\ \A j \in 1 .. Len(s) : s[j] \in Revision \union Patch
    BY LenProperties, ElementOfSeq DEF Commit
  <1>2. SubSeq(s, 1, i - 1) \in Commit /\ Len(SubSeq(s, 1, i - 1)) = i - 1
    BY <1>1, SubSeqProperties DEF Commit
  <1>3. SubSeq(s, i + 1, Len(s)) \in Commit
    BY <1>1, SubSeqProperties DEF Commit
  <1>4. SubSeq(s, 1, i - 1) \o SubSeq(s, i + 1, Len(s)) \in Commit
    BY <1>2, <1>3, CommitFacts
  <1>5. i \in Nat \ {0} /\ s[i] \in Revision \union Patch
    BY <1>1
  <1> QED  BY <1>2, <1>4, <1>5 DEF RemoveAt

(* A patch on a commit makes it no commit of upstream's.                    *)
LEMMA Longer ==
  ASSUME NEW s \in Commit, NEW t \in Commit, s # << >>
  PROVE  s \o t = s \/ Len(s \o t) # 1
  <1>1. /\ Len(s) \in Nat /\ Len(s) > 0
        /\ Len(t) \in Nat /\ (t # << >> => Len(t) > 0)
        /\ Len(s \o t) = Len(s) + Len(t)
    BY CommitFacts
  <1>2. CASE t = << >>
    BY <1>2, CommitFacts
  <1>3. CASE t # << >>
    BY <1>1, <1>3
  <1> QED  BY <1>2, <1>3

-----------------------------------------------------------------------------
(* What the steps have in common.                                           *)

LEMMA IndInit == Init => IndInv
  <1> SUFFICES ASSUME Init PROVE IndInv
    OBVIOUS
  <1>1. /\ << >> \in Commit /\ <<1>> \in Commit /\ \A k \in Patch : <<k>> \in Commit
    BY CommitFacts DEF Commit, Revision
  <1>2. TypeOK
    BY <1>1 DEF Init, TypeOK, Revision
  <1>3. PristineRecorded /\ SessionsOff
    BY DEF Init, PristineRecorded, SessionsOff, Upstream, Repo
  <1>4. Progress
    BY DEF Init, Progress, Idle
  <1> QED  BY <1>2, <1>3, <1>4 DEF IndInv

(* A run that ends in failure claims nothing of the projects.               *)
LEMMA QuitStep ==
  ASSUME IndInv, Quit, UNCHANGED <<recorded, remote, skip, dir>>,
         head' \in [Project -> Commit],
         am' \in [Repo -> [orig : Commit, at : Commit, stuck : Revision \union Patch \union {None}] \union {None}],
         SessionsOff'
  PROVE  IndInv'
  <1>1. TypeOK'
    BY DEF IndInv, TypeOK, Quit
  <1>2. PristineRecorded'
    BY DEF IndInv, PristineRecorded, Upstream
  <1>3. Progress'
    BY DEF Quit, Progress, Idle, IndInv, TypeOK
  <1> QED  BY <1>1, <1>2, <1>3 DEF IndInv

(* Nor does a developer's edit between the runs.                            *)
LEMMA EditStep ==
  ASSUME IndInv, Idle, result' = "edited",
         UNCHANGED <<recorded, remote, skip, am, run, left, patched>>,
         head' \in [Project -> Commit],
         dir' \in [Project -> Commit \union {None}]
  PROVE  IndInv'
  <1>1. TypeOK'
    BY DEF IndInv, TypeOK
  <1>2. PristineRecorded' /\ SessionsOff'
    BY DEF IndInv, PristineRecorded, SessionsOff, Upstream
  <1>3. Progress'
    BY DEF Progress, Idle, IndInv
  <1> QED  BY <1>1, <1>2, <1>3 DEF IndInv

-----------------------------------------------------------------------------
(* The steps of the script.                                                 *)

LEMMA StartStep ==
  ASSUME IndInv, NEW projects \in SUBSET Project, NEW isRemote \in BOOLEAN,
         NEW update \in BOOLEAN, NEW patch \in BOOLEAN,
         Start(projects, isRemote, update, patch)
  PROVE  IndInv'
  <1>1. TypeOK'
    BY DEF IndInv, TypeOK, Start
  <1>2. PristineRecorded' /\ SessionsOff'
    BY DEF IndInv, PristineRecorded, SessionsOff, Upstream, Start
  <1>3. Progress'
    BY DEF Progress, Idle, IndInv, TypeOK, Start, Updated
  <1> QED  BY <1>1, <1>2, <1>3 DEF IndInv

LEMMA UpdateStep ==
  ASSUME IndInv, NEW p \in Project, Update(p)
  PROVE  IndInv'
  <1> DEFINE to == IF run.remote THEN <<remote>> ELSE recorded[p]
  <1>1. /\ run.phase = "update" /\ p \in left
        /\ head' = [head EXCEPT ![p] = to]
        /\ UNCHANGED <<recorded, remote, skip, am, dir, patched>>
        /\ \/ left = {p} /\ To("unhide", run.projects)
           \/ left' = left \ {p} /\ UNCHANGED <<run, result>>
    BY DEF Update
  <1>2. to \in Commit /\ IF run.remote THEN Upstream(to) ELSE to = recorded[p]
    BY CommitFacts DEF IndInv, TypeOK
  <1>3. TypeOK'
    <2>1. head' \in [Project -> Commit]
      BY <1>1, <1>2 DEF IndInv, TypeOK
    <2> QED  BY <1>1, <2>1 DEF IndInv, TypeOK, To
  <1>4. PristineRecorded' /\ SessionsOff'
    BY <1>1 DEF IndInv, PristineRecorded, SessionsOff, Upstream
  <1>5. /\ run.update /\ patched = None /\ result # "ok"
        /\ \A q \in run.projects \ left : q \in Project /\ Updated(q)
    BY <1>1 DEF IndInv, Progress, Idle, TypeOK
  <1>6. /\ head'[p] = to
        /\ \A q \in Project : q # p => head'[q] = head[q]
    BY <1>1 DEF IndInv, TypeOK
  <1>7. run'.remote = run.remote /\ run'.update = run.update /\ run'.projects = run.projects
    BY <1>1 DEF To, IndInv, TypeOK
  <1>8. \A q \in run.projects \ (left \ {p}) : Updated(q)'
    BY <1>1, <1>2, <1>5, <1>6, <1>7 DEF Updated, Upstream, IndInv, TypeOK
  <1>9. Progress'
    <2>1. CASE left = {p} /\ To("unhide", run.projects)
      <3>1. run'.phase = "unhide" /\ result' = result
        BY <2>1 DEF To, IndInv, TypeOK
      <3> QED  BY <1>1, <1>5, <1>7, <1>8, <2>1, <3>1 DEF Progress
    <2>2. CASE left' = left \ {p} /\ UNCHANGED <<run, result>>
      BY <1>1, <1>5, <1>8, <2>2 DEF Progress
    <2> QED  BY <1>1, <2>1, <2>2
  <1> QED  BY <1>3, <1>4, <1>9 DEF IndInv

LEMMA UnhideStep ==
  ASSUME IndInv, Unhide
  PROVE  IndInv'
  <1>1. /\ run.phase = "unhide"
        /\ skip' = [p \in Project |-> skip[p] /\ p \notin run.projects]
        /\ UNCHANGED <<head, recorded, remote, am, dir, patched>>
        /\ To("populate", Ancillary)
    BY DEF Unhide
  <1>2. TypeOK'
    BY <1>1, AncillaryAssumption DEF IndInv, TypeOK, To
  <1>3. PristineRecorded' /\ SessionsOff'
    BY <1>1 DEF IndInv, PristineRecorded, SessionsOff, Upstream
  <1>4. /\ patched = None /\ result # "ok"
        /\ \A p \in run.projects : p \in Project /\ Updated(p)
    BY <1>1 DEF IndInv, Progress, Idle, TypeOK
  <1>5. /\ run'.remote = run.remote /\ run'.update = run.update
        /\ run'.projects = run.projects
        /\ run'.phase = "populate" /\ result' = result
    BY <1>1 DEF To, IndInv, TypeOK
  <1>6. \A p \in run.projects : Pristine(p)'
    BY <1>1, <1>4, <1>5 DEF Pristine, Updated, Upstream
  <1>7. Progress'
    BY <1>1, <1>4, <1>5, <1>6 DEF Progress
  <1> QED  BY <1>2, <1>3, <1>7 DEF IndInv

(* A project that is checked out at its recorded commit is as pristine as   *)
(* it was.                                                                  *)
LEMMA PopulateStep ==
  ASSUME IndInv, NEW p \in Project, Populate(p)
  PROVE  IndInv'
  <1>1. /\ run.phase = "populate"
        /\ head' = recorded \/ head' = head
        /\ left' = left \ {p}
        /\ UNCHANGED <<recorded, remote, skip, am, dir, run, patched, result>>
    BY DEF Populate
  <1>2. TypeOK'
    BY <1>1 DEF IndInv, TypeOK
  <1>3. PristineRecorded' /\ SessionsOff'
    BY <1>1 DEF IndInv, PristineRecorded, SessionsOff, Upstream
  <1>4. /\ patched = None /\ result # "ok"
        /\ \A q \in run.projects : q \in Project /\ Pristine(q) /\ Upstream(recorded[q])
    BY <1>1 DEF IndInv, Progress, Idle, TypeOK, PristineRecorded
  <1>5. \A q \in run.projects : Pristine(q)'
    BY <1>1, <1>4 DEF Pristine, Updated, Upstream
  <1>6. Progress'
    BY <1>1, <1>4, <1>5 DEF Progress
  <1> QED  BY <1>2, <1>3, <1>6 DEF IndInv

LEMMA PopulateKilledStep ==
  ASSUME IndInv, NEW p \in Project, PopulateKilled(p)
  PROVE  IndInv'
  <1>1. PICK some \in SUBSET Project :
          head' = [q \in Project |-> IF q \in some THEN recorded[q] ELSE head[q]]
    BY DEF PopulateKilled
  <1>2. head' \in [Project -> Commit]
    BY <1>1 DEF IndInv, TypeOK
  <1>3. Quit /\ UNCHANGED <<recorded, remote, skip, am, dir>>
    BY DEF PopulateKilled
  <1>4. SessionsOff'
    BY <1>3 DEF IndInv, SessionsOff, Upstream
  <1> QED  BY <1>2, <1>3, <1>4, QuitStep DEF IndInv, TypeOK

LEMMA ApplyPatchesStep ==
  ASSUME IndInv, ApplyPatches
  PROVE  IndInv'
  <1>1. /\ run.phase = "populate"
        /\ UNCHANGED <<head, recorded, remote, skip, am, dir, patched>>
        /\ \/ run.patch /\ HavePatches # {} /\ To("patch", HavePatches)
           \/ ~ (run.patch /\ HavePatches # {}) /\ To("idle", {})
    BY DEF ApplyPatches
  <1>2. TypeOK'
    BY <1>1 DEF IndInv, TypeOK, To, HavePatches
  <1>3. PristineRecorded' /\ SessionsOff'
    BY <1>1 DEF IndInv, PristineRecorded, SessionsOff, Upstream
  <1>4. /\ patched = None /\ result # "ok"
        /\ \A p \in run.projects : p \in Project /\ Pristine(p)
    BY <1>1 DEF IndInv, Progress, Idle, TypeOK
  <1>5. /\ run'.remote = run.remote /\ run'.update = run.update
        /\ run'.projects = run.projects /\ run'.patch = run.patch
    BY <1>1 DEF To, IndInv, TypeOK
  <1>6. \A p \in run.projects : Pristine(p)'
    BY <1>1, <1>4, <1>5 DEF Pristine, Updated, Upstream
  <1>7. HavePatches' = HavePatches
    BY <1>1 DEF HavePatches
  <1>8. Progress'
    <2>1. CASE run.patch /\ HavePatches # {} /\ To("patch", HavePatches)
      <3>1. run'.phase = "patch" /\ result' = result /\ left' = HavePatches
        BY <2>1 DEF To, IndInv, TypeOK
      <3> QED  BY <1>1, <1>4, <1>5, <1>6, <1>7, <2>1, <3>1 DEF Progress
    <2>2. CASE ~ (run.patch /\ HavePatches # {}) /\ To("idle", {})
      <3>1. run'.phase = "idle"
        BY <2>2 DEF To, IndInv, TypeOK
      <3> QED  BY <1>1, <1>4, <1>5, <1>6, <1>7, <2>2, <3>1 DEF Progress, Idle
    <2> QED  BY <1>1, <2>1, <2>2
  <1> QED  BY <1>2, <1>3, <1>8 DEF IndInv

LEMMA ApplyStep ==
  ASSUME IndInv, NEW p \in Project, Apply(p)
  PROVE  IndInv'
  <1>1. /\ run.phase = "patch" /\ patched = None /\ p \in left
        /\ am[Found(p)] = None
        /\ head' = [head EXCEPT ![p] = head[p] \o dir[p]]
        /\ patched' = p /\ left' = left \ {p}
        /\ UNCHANGED <<recorded, remote, skip, am, dir, run, result>>
    BY DEF Apply
  <1>2. /\ run.patch /\ left \subseteq HavePatches /\ result # "ok" /\ p # None
        /\ \A q \in run.projects : /\ q \in Project
                                   /\ IF q \in HavePatches \ left
                                        THEN Patched(q) /\ (skip[q] \/ patched = q)
                                        ELSE Pristine(q)
    BY <1>1, NameAssumption DEF IndInv, Progress, Idle, TypeOK
  <1>3. p \in HavePatches /\ dir[p] \in Commit
    BY <1>1, <1>2 DEF HavePatches, IndInv, TypeOK
  <1>4. TypeOK'
    <2>1. head[p] \o dir[p] \in Commit
      BY <1>3, CommitFacts DEF IndInv, TypeOK
    <2> QED  BY <1>1, <2>1 DEF IndInv, TypeOK
  <1>5. PristineRecorded' /\ SessionsOff'
    BY <1>1 DEF IndInv, PristineRecorded, SessionsOff, Upstream
  <1>6. HavePatches' = HavePatches
    BY <1>1 DEF HavePatches
  <1>7. /\ head'[p] = head[p] \o dir[p]
        /\ \A q \in Project : q # p => head'[q] = head[q]
    BY <1>1 DEF IndInv, TypeOK
  <1>8. ASSUME p \in run.projects PROVE Patched(p)'
    <2>1. Pristine(p)
      BY <1>1, <1>2, <1>8
    <2>2. ASSUME run.update PROVE Found(p) = p
      <3>1. Upstream(head[p]) /\ head[p] \in Commit
        BY <2>1, <2>2 DEF Pristine, Updated, IndInv, PristineRecorded, TypeOK
      <3> QED  BY <3>1, CommitFacts DEF Found
    <2> QED  BY <1>1, <1>7, <2>1, <2>2 DEF Patched, Pristine, Updated
  <1>9. ASSUME NEW q \in run.projects, q # p
        PROVE  IF q \in HavePatches \ left'
                 THEN Patched(q)' /\ (skip'[q] \/ patched' = q)
                 ELSE Pristine(q)'
    <2>1. q \in HavePatches \ left' <=> q \in HavePatches \ left
      BY <1>1, <1>9
    <2>2. CASE q \in HavePatches \ left
      <3>1. Patched(q) /\ (skip[q] \/ q = None) /\ q \in Project
        BY <1>1, <1>2, <2>2
      <3> QED  BY <1>1, <1>7, <1>9, <2>1, <2>2, <3>1, NameAssumption DEF Patched
    <2>3. CASE q \notin HavePatches \ left
      <3>1. Pristine(q) /\ q \in Project
        BY <1>2, <2>3
      <3> QED  BY <1>1, <1>7, <1>9, <2>1, <2>3, <3>1 DEF Pristine, Updated, Upstream
    <2> QED  BY <2>2, <2>3
  <1>10. Progress'
    BY <1>1, <1>2, <1>3, <1>6, <1>8, <1>9 DEF Progress
  <1> QED  BY <1>4, <1>5, <1>10 DEF IndInv

LEMMA HideStep ==
  ASSUME IndInv, Hide
  PROVE  IndInv'
  <1>1. /\ patched # None
        /\ skip' = [skip EXCEPT ![patched] = TRUE]
        /\ patched' = None
        /\ To(IF left = {} THEN "idle" ELSE "patch", left)
        /\ UNCHANGED <<head, recorded, remote, am, dir>>
    BY DEF Hide
  <1>2. run.phase = "patch"
    BY <1>1 DEF IndInv, Progress
  <1>3. /\ run.patch /\ left \subseteq HavePatches /\ result # "ok"
        /\ patched \in HavePatches \ left /\ patched \in Project
        /\ \A q \in run.projects : /\ q \in Project
                                   /\ IF q \in HavePatches \ left
                                        THEN Patched(q) /\ (skip[q] \/ patched = q)
                                        ELSE Pristine(q)
    BY <1>1, <1>2 DEF IndInv, Progress, Idle, TypeOK
  <1>4. TypeOK'
    BY <1>1 DEF IndInv, TypeOK, To
  <1>5. PristineRecorded' /\ SessionsOff'
    BY <1>1 DEF IndInv, PristineRecorded, SessionsOff, Upstream
  <1>6. /\ run'.remote = run.remote /\ run'.update = run.update
        /\ run'.projects = run.projects /\ run'.patch = run.patch /\ left' = left
        /\ run'.phase = IF left = {} THEN "idle" ELSE "patch"
        /\ result' = IF left = {} THEN "ok" ELSE result
    BY <1>1 DEF To, IndInv, TypeOK
  <1>7. skip'[patched] /\ \A q \in Project : q # patched => skip'[q] = skip[q]
    BY <1>1, <1>3 DEF IndInv, TypeOK
  <1>8. HavePatches' = HavePatches
    BY <1>1 DEF HavePatches
  <1>9. ASSUME NEW q \in run.projects
        PROVE  IF q \in HavePatches \ left THEN Patched(q)' /\ skip'[q] ELSE Pristine(q)'
    <2>1. CASE q \in HavePatches \ left
      <3>1. Patched(q) /\ (skip[q] \/ patched = q) /\ q \in Project
        BY <1>3, <2>1
      <3> QED  BY <1>1, <1>6, <1>7, <2>1, <3>1 DEF Patched
    <2>2. CASE q \notin HavePatches \ left
      <3>1. Pristine(q) /\ q \in Project /\ q # patched
        BY <1>3, <2>2
      <3> QED  BY <1>1, <1>6, <1>7, <2>2, <3>1 DEF Pristine, Updated, Upstream
    <2> QED  BY <2>1, <2>2
  <1>10. Progress'
    <2>1. CASE left = {}
      BY <1>1, <1>3, <1>6, <1>8, <1>9, <2>1 DEF Progress, Idle
    <2>2. CASE left # {}
      BY <1>1, <1>3, <1>6, <1>8, <1>9, <2>2 DEF Progress, Idle
    <2> QED  BY <2>1, <2>2
  <1> QED  BY <1>4, <1>5, <1>10 DEF IndInv

(* git am stops: the session it leaves is off the upstream commits, unless  *)
(* it changed nothing.                                                      *)
LEMMA StopStep ==
  ASSUME IndInv, NEW p \in Project, dir[p] # None, NEW i \in DOMAIN dir[p],
         NEW stuck \in BOOLEAN, StopAt(p, i, stuck)
  PROVE  IndInv'
  <1> DEFINE at == IF Found(p) = TheRock THEN << >> ELSE head[p] \o SubSeq(dir[p], 1, i - 1)
             new == [orig |-> head[p], at |-> at, stuck |-> IF stuck THEN dir[p][i] ELSE None]
  <1>1. /\ head' = [head EXCEPT ![p] = at]
        /\ am' = [am EXCEPT ![Found(p)] = new]
        /\ Quit /\ UNCHANGED <<recorded, remote, skip, dir>>
    BY DEF StopAt
  <1>2. head[p] \in Commit /\ dir[p] \in Commit
    BY DEF IndInv, TypeOK
  <1>3. SubSeq(dir[p], 1, i - 1) \in Commit /\ Len(SubSeq(dir[p], 1, i - 1)) = i - 1 /\ i \in Nat \ {0}
    BY <1>2, PatchFacts
  <1>4. at \in Commit
    BY <1>2, <1>3, CommitFacts
  <1>5. head' \in [Project -> Commit]
    BY <1>1, <1>4 DEF IndInv, TypeOK
  <1>6. Found(p) \in Repo
    BY DEF Found, Repo
  <1>7. new \in [orig : Commit, at : Commit, stuck : Revision \union Patch \union {None}]
    BY <1>2, <1>4, PatchFacts
  <1>8. am' \in [Repo -> [orig : Commit, at : Commit, stuck : Revision \union Patch \union {None}] \union {None}]
    BY <1>1, <1>6, <1>7 DEF IndInv, TypeOK
  <1>9. SessionsOff'
    <2>1. ASSUME NEW q \in Project, am'[q] # None, q # Found(p)
          PROVE  am'[q].at = am'[q].orig \/ ~ Upstream(am'[q].at)
      BY <1>1, <2>1 DEF IndInv, TypeOK, SessionsOff, Repo
    <2>2. ASSUME Found(p) \in Project
          PROVE  new.at = new.orig \/ ~ Upstream(new.at)
      <3>1. Found(p) = p /\ p # TheRock /\ head[p] # << >>
        BY <2>2, NameAssumption DEF Found
      <3>2. at = head[p] \o SubSeq(dir[p], 1, i - 1)
        BY <3>1
      <3> QED  BY <1>2, <1>3, <3>1, <3>2, Longer DEF Upstream
    <2>3. am'[Found(p)] = new
      BY <1>1, <1>6 DEF IndInv, TypeOK
    <2> QED  BY <2>1, <2>2, <2>3 DEF SessionsOff, Upstream
  <1> QED  BY <1>1, <1>5, <1>8, <1>9, QuitStep

-----------------------------------------------------------------------------
(* The developer.                                                           *)

(* To abort a session changes nothing that a run has claimed.               *)
LEMMA AbortStep ==
  ASSUME IndInv, NEW r \in Repo, AmAbort(r)
  PROVE  IndInv'
  <1>1. /\ Idle /\ am[r] # None
        /\ head' = [p \in Project |-> IF p = r /\ head[p] = am[r].at THEN am[r].orig ELSE head[p]]
        /\ am' = [am EXCEPT ![r] = None]
        /\ UNCHANGED <<recorded, remote, skip, dir, run, left, patched, result>>
    BY DEF AmAbort
  <1>2. am[r].orig \in Commit
    BY <1>1 DEF IndInv, TypeOK
  <1>3. TypeOK'
    <2>1. head' \in [Project -> Commit]
      BY <1>1, <1>2 DEF IndInv, TypeOK
    <2> QED  BY <1>1, <2>1 DEF IndInv, TypeOK
  <1>4. \A p \in Project : am'[p] # None => p # r /\ am'[p] = am[p]
    BY <1>1 DEF IndInv, TypeOK, Repo
  <1>5. PristineRecorded' /\ SessionsOff'
    BY <1>1, <1>4 DEF IndInv, PristineRecorded, SessionsOff, Upstream
  <1>6. \A p \in Project : head'[p] # head[p] => am[p] # None /\ ~ Upstream(head[p])
    BY <1>1 DEF IndInv, SessionsOff
  <1>7. HavePatches' = HavePatches
    BY <1>1 DEF HavePatches
  <1>8. ASSUME result = "ok", NEW p \in run.projects
        PROVE  IF run.patch /\ p \in HavePatches THEN Patched(p)' /\ skip'[p] ELSE Pristine(p)'
    <2>1. /\ p \in Project
          /\ IF run.patch /\ p \in HavePatches THEN Patched(p) /\ skip[p] ELSE Pristine(p)
      BY <1>8 DEF IndInv, Progress, TypeOK
    <2>2. CASE run.patch /\ p \in HavePatches
      <3>1. run.update => am[p] = None /\ head'[p] = head[p] /\ am'[p] = None
        BY <1>4, <1>6, <2>1, <2>2 DEF Patched
      <3> QED  BY <1>1, <2>1, <2>2, <3>1 DEF Patched
    <2>3. CASE ~ (run.patch /\ p \in HavePatches)
      <3>1. run.update => Upstream(head[p])
        BY <2>1, <2>3 DEF Pristine, Updated, IndInv, PristineRecorded
      <3>2. run.update => head'[p] = head[p]
        BY <1>6, <2>1, <3>1
      <3> QED  BY <1>1, <2>1, <2>3, <3>2 DEF Pristine, Updated, Upstream
    <2> QED  BY <2>2, <2>3
  <1>9. Progress'
    BY <1>1, <1>7, <1>8 DEF IndInv, Progress, Idle
  <1> QED  BY <1>3, <1>5, <1>9 DEF IndInv

(* What is committed after a successful run is upstream: patched            *)
(* sub-modules are hidden from the commit.                                  *)
LEMMA RecordStep ==
  ASSUME IndInv, Record
  PROVE  IndInv'
  <1>1. /\ Idle /\ result = "ok" /\ run.projects = Project /\ run.update
        /\ recorded' = [p \in Project |-> IF skip[p] \/ head[p] = << >> THEN recorded[p] ELSE head[p]]
        /\ UNCHANGED <<head, remote, skip, am, dir, run, left, patched, result>>
    BY DEF Record
  <1>2. TypeOK'
    BY <1>1 DEF IndInv, TypeOK
  <1>3. \A p \in Project : Upstream(recorded[p])
    BY DEF IndInv, PristineRecorded
  <1>4. \A p \in Project : IF run.patch /\ p \in HavePatches
                             THEN Patched(p) /\ skip[p] ELSE Pristine(p)
    BY <1>1 DEF IndInv, Progress
  <1>5. ASSUME NEW p \in Project, ~ skip[p] PROVE Upstream(head[p]) /\ head[p] # << >>
    <2>1. Pristine(p)
      BY <1>4, <1>5
    <2>2. Upstream(head[p])
      BY <1>1, <1>3, <2>1 DEF Pristine, Updated
    <2> QED  BY <2>2, CommitFacts DEF IndInv, TypeOK
  <1>6. \A p \in Project : recorded'[p] = IF skip[p] THEN recorded[p] ELSE head[p]
    BY <1>1, <1>5
  <1>7. PristineRecorded'
    BY <1>3, <1>5, <1>6 DEF PristineRecorded, Upstream
  <1>8. SessionsOff'
    BY <1>1 DEF IndInv, SessionsOff, Upstream
  <1>9. HavePatches' = HavePatches
    BY <1>1 DEF HavePatches
  <1>10. ASSUME NEW p \in Project
         PROVE  IF run.patch /\ p \in HavePatches THEN Patched(p)' /\ skip'[p] ELSE Pristine(p)'
    <2>1. CASE run.patch /\ p \in HavePatches
      <3>1. Patched(p) /\ skip[p] /\ recorded'[p] = recorded[p]
        BY <1>4, <1>6, <2>1
      <3> QED  BY <1>1, <2>1, <3>1 DEF Patched
    <2>2. CASE ~ (run.patch /\ p \in HavePatches)
      <3>1. Pristine(p) /\ ~ skip[p]
        BY <1>4, <2>2 DEF Pristine
      <3>2. recorded'[p] = head[p] /\ Upstream(head[p])
        BY <1>5, <1>6, <3>1
      <3> QED  BY <1>1, <2>2, <3>1, <3>2 DEF Pristine, Updated, Upstream
    <2> QED  BY <2>1, <2>2
  <1>11. Progress'
    BY <1>1, <1>9, <1>10 DEF IndInv, Progress, Idle
  <1> QED  BY <1>2, <1>7, <1>8, <1>11 DEF IndInv

-----------------------------------------------------------------------------
(* The theorems.                                                            *)

(* What Progress says depends on neither the remote nor the bound.          *)
LEMMA SameStep ==
  ASSUME IndInv, remote' \in Revision,
         UNCHANGED <<head, recorded, skip, am, dir, run, left, patched, result>>
  PROVE  IndInv'
  <1>1. TypeOK'
    BY DEF IndInv, TypeOK
  <1>2. PristineRecorded' /\ SessionsOff'
    BY DEF IndInv, PristineRecorded, SessionsOff, Upstream
  <1>3. HavePatches' = HavePatches
    BY DEF HavePatches
  <1>4. \A p \in Project : (Updated(p)' <=> Updated(p)) /\ (Pristine(p)' <=> Pristine(p))
                           /\ (Patched(p)' <=> Patched(p))
    BY DEF Updated, Pristine, Patched, Upstream
  <1>5. run.projects \subseteq Project
    BY DEF IndInv, TypeOK
  <1>6. Progress'
    BY <1>3, <1>4, <1>5 DEF IndInv, Progress, Idle
  <1> QED  BY <1>1, <1>2, <1>6 DEF IndInv

LEMMA IndStep == IndInv /\ [Next]_vars => IndInv'
  <1> SUFFICES ASSUME IndInv, [Next]_vars PROVE IndInv'
    OBVIOUS
  <1>1. ASSUME Default \/ Other PROVE IndInv'
    BY <1>1, StartStep DEF Default, Other
  <1>2. ASSUME NEW p \in Project, ApplyConflicts(p) \/ ApplyKilled(p) PROVE IndInv'
    <2>1. dir[p] # None
      BY <1>2 DEF ApplyConflicts, ApplyKilled, IndInv, Progress, HavePatches
    <2>2. PICK i \in DOMAIN dir[p], stuck \in BOOLEAN : StopAt(p, i, stuck)
      <3>1. CASE ApplyConflicts(p)
        <4>1. PICK i \in Conflicts(p) : StopAt(p, i, Found(p) = p)
          BY <3>1 DEF ApplyConflicts
        <4> QED  BY <4>1 DEF Conflicts
      <3>2. CASE ApplyKilled(p)
        BY <3>2 DEF ApplyKilled
      <3> QED  BY <1>2, <3>1, <3>2
    <2> QED  BY <2>1, <2>2, StopStep
  <1>3. ASSUME Kill \/ \E p \in Project : ApplyRefused(p) PROVE IndInv'
    <2>1. Quit /\ UNCHANGED <<head, recorded, remote, skip, am, dir>>
      BY <1>3 DEF Kill, ApplyRefused
    <2>2. SessionsOff'
      BY <2>1 DEF IndInv, SessionsOff, Upstream
    <2> QED  BY <2>1, <2>2, QuitStep DEF IndInv, TypeOK
  <1>4. ASSUME NEW p \in Project, DeletePatch(p) PROVE IndInv'
    <2>1. PICK i \in DOMAIN dir[p] : dir' = [dir EXCEPT ![p] = RemoveAt(dir[p], i)]
      BY <1>4 DEF DeletePatch
    <2>2. dir[p] \in Commit
      BY <1>4 DEF DeletePatch, IndInv, TypeOK
    <2>3. RemoveAt(dir[p], i) \in Commit
      BY <2>2, PatchFacts
    <2>4. dir' \in [Project -> Commit \union {None}]
      BY <2>1, <2>3 DEF IndInv, TypeOK
    <2>5. /\ Idle /\ result' = "edited" /\ head' = head
          /\ UNCHANGED <<recorded, remote, skip, am, run, left, patched>>
      BY <1>4 DEF DeletePatch
    <2> QED  BY <2>4, <2>5, EditStep DEF IndInv, TypeOK
  <1>5. ASSUME NEW p \in Project, RemoveDirectory(p) PROVE IndInv'
    <2>1. dir' \in [Project -> Commit \union {None}]
      BY <1>5 DEF RemoveDirectory, IndInv, TypeOK
    <2> QED  BY <1>5, <2>1, EditStep DEF RemoveDirectory, IndInv, TypeOK
  <1>6. ASSUME NEW p \in Project, NEW k \in Patch, CommitAndSave(p, k) PROVE IndInv'
    <2>1. /\ Idle /\ result' = "edited" /\ IsPrefix(recorded[p], head[p])
          /\ head' = [head EXCEPT ![p] = Append(head[p], k)]
          /\ dir' = [dir EXCEPT ![p] =
                       SubSeq(Append(head[p], k), Len(recorded[p]) + 1, Len(head[p]) + 1)]
          /\ UNCHANGED <<recorded, remote, skip, am, run, left, patched>>
      BY <1>6 DEF CommitAndSave
    <2>2. /\ Append(head[p], k) \in Commit /\ Len(Append(head[p], k)) = Len(head[p]) + 1
          /\ Len(recorded[p]) \in Nat /\ Len(head[p]) \in Nat
      BY AppendProperties, LenProperties DEF IndInv, TypeOK, Commit
    <2>3. SubSeq(Append(head[p], k), Len(recorded[p]) + 1, Len(head[p]) + 1) \in Commit
      <3>1. Len(recorded[p]) + 1 \in Nat /\ Len(recorded[p]) + 1 > 0
            /\ Len(head[p]) + 1 \in Nat /\ Len(head[p]) + 1 <= Len(Append(head[p], k))
        BY <2>2
      <3> QED  BY <2>2, <3>1, CommitFacts
    <2>4. head' \in [Project -> Commit] /\ dir' \in [Project -> Commit \union {None}]
      BY <2>1, <2>2, <2>3 DEF IndInv, TypeOK
    <2> QED  BY <2>1, <2>4, EditStep
  <1>7. ASSUME NewRevision \/ UNCHANGED vars PROVE IndInv'
    BY <1>7, SameStep DEF NewRevision, vars, IndInv, TypeOK, Revision
  <1> QED
    BY <1>1, <1>2, <1>3, <1>4, <1>5, <1>6, <1>7, UpdateStep, UnhideStep,
       PopulateStep, PopulateKilledStep, ApplyPatchesStep, ApplyStep, HideStep, AbortStep, RecordStep
       DEF Next

(* The inductive invariant holds in every reachable state.                  *)
THEOREM Inductive == Spec => []IndInv
  BY IndInit, IndStep, PTL DEF Spec

(* Whatever earlier runs, kills and commits left, a run of fetch_sources.py *)
(* that succeeds leaves what it has listed at the recorded commit with its  *)
(* patches, each once and in order, and hidden if and only if it is patched.*)
THEOREM CleanAfterSuccess == Spec => []CleanState
  <1>1. ASSUME IndInv PROVE CleanState
    <2>1. SUFFICES ASSUME result = "ok", run.update, ~ run.remote, NEW p \in run.projects
                   PROVE  /\ head[p] = recorded[p] \o (IF run.patch /\ dir[p] # None
                                                         THEN dir[p] ELSE << >>)
                          /\ skip[p] <=> (run.patch /\ dir[p] # None)
      BY DEF CleanState
    <2>2. p \in Project /\ recorded[p] \o << >> = recorded[p]
      BY <1>1, <2>1, CommitFacts DEF IndInv, TypeOK
    <2>3. IF run.patch /\ p \in HavePatches THEN Patched(p) /\ skip[p] ELSE Pristine(p)
      BY <1>1, <2>1 DEF IndInv, Progress
    <2> QED  BY <2>1, <2>2, <2>3 DEF HavePatches, Patched, Pristine, Updated
  <1> QED  BY <1>1, Inductive, PTL

(* No commit of TheRock ever records a patched sub-module.                  *)
THEOREM OnlyUpstreamRecorded == Spec => []PristineRecorded
  <1>1. IndInv => PristineRecorded
    BY DEF IndInv
  <1> QED  BY <1>1, Inductive, PTL

(* A run that checks out every sub-module first never applies a patch to    *)
(* TheRock itself, where git am ends up in a directory that is not cloned.  *)
THEOREM TheRockStaysClean == Spec => TheRockUntouched
  <1> DEFINE A == am'[TheRock] # None =>
                    am[TheRock] # None \/ run.projects # Project \/ ~ run.update
  <1>1. ASSUME IndInv, [Next]_vars PROVE [A]_vars
    <2>1. SUFFICES ASSUME Next, am[TheRock] = None, run.projects = Project, run.update
                   PROVE  am'[TheRock] = None
      BY <1>1
    <2>2. ASSUME NEW p \in Project, ApplyConflicts(p) \/ ApplyKilled(p)
          PROVE  am'[TheRock] = None
      <3>1. PICK i, stuck : StopAt(p, i, stuck)
        BY <2>2 DEF ApplyConflicts, ApplyKilled
      <3>2. run.phase = "patch" /\ p \in left
        BY <2>2 DEF ApplyConflicts, ApplyKilled
      <3>3. Pristine(p)
        BY <1>1, <2>1, <3>2 DEF IndInv, Progress
      <3>4. head[p] \in Commit /\ Upstream(head[p])
        BY <1>1, <2>1, <3>3 DEF IndInv, TypeOK, PristineRecorded, Pristine, Updated
      <3>5. Found(p) = p /\ p # TheRock
        BY <3>4, CommitFacts, NameAssumption DEF Found
      <3> QED  BY <1>1, <2>1, <3>1, <3>5 DEF StopAt, IndInv, TypeOK, Repo
    <2>3. ASSUME NEW r \in Repo, AmAbort(r) PROVE am'[TheRock] = None
      BY <1>1, <2>1, <2>3 DEF AmAbort, IndInv, TypeOK, Repo
    <2>4. CASE UNCHANGED am
      BY <2>1, <2>4
    <2> QED
      BY <2>1, <2>2, <2>3, <2>4
         DEF Next, Default, Other, Start, Update, Unhide, Populate, PopulateKilled, ApplyPatches,
             Apply, ApplyRefused, Hide, Kill,
             DeletePatch, RemoveDirectory, Record, CommitAndSave, NewRevision
  <1> QED  BY <1>1, Inductive, PTL DEF Spec, TheRockUntouched
=============================================================================
