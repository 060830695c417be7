-------------------------- MODULE SuperBuildProofs --------------------------
(***************************************************************************)
(* Theorems about SuperBuild for every set of sub-projects, every          *)
(* dependency graph, and every number of revisions and disturbances.       *)
(***************************************************************************)
EXTENDS SuperBuild, TLAPS

-----------------------------------------------------------------------------
(* The dependency graph.                                                    *)

(* A sub-project is in its own cone.                                        *)
LEMMA ConeSelf == \A p \in Proj : p \in Cone[p] /\ Cone[p] \subseteq Proj
  BY DEF Cone

(* A cone is closed under Deps.                                             *)
LEMMA ConeClosed ==
  ASSUME NEW p \in Proj, NEW x \in Cone[p]
  PROVE  Deps[x] \subseteq Cone[p]
  <1>1. x \in Proj
    BY ConeSelf
  <1> SUFFICES ASSUME NEW d \in Deps[x] PROVE d \in Cone[p]
    OBVIOUS
  <1>2. d \in Proj
    BY <1>1, GraphAssumption
  <1>3. ASSUME NEW S \in SUBSET Proj, p \in S, \A y \in S : Deps[y] \subseteq S
        PROVE  d \in S
    <2>1. x \in S
      BY <1>3 DEF Cone
    <2> QED
      BY <1>3, <2>1
  <1> QED
    BY <1>2, <1>3 DEF Cone

(* The cone of a member lies inside the cone.                               *)
LEMMA ConeMono ==
  ASSUME NEW p \in Proj, NEW x \in Cone[p]
  PROVE  Cone[x] \subseteq Cone[p]
  <1>1. x \in Proj
    BY ConeSelf
  <1> SUFFICES ASSUME NEW q \in Cone[x] PROVE q \in Cone[p]
    OBVIOUS
  <1>2. q \in Proj
    BY <1>1, ConeSelf
  <1>3. ASSUME NEW S \in SUBSET Proj, p \in S, \A y \in S : Deps[y] \subseteq S
        PROVE  q \in S
    <2>1. x \in S
      BY <1>3 DEF Cone
    <2> QED
      BY <1>1, <1>3, <2>1 DEF Cone
  <1> QED
    BY <1>2, <1>3 DEF Cone

(* Everything p is built from, p aside, is reached through one of its deps. *)
LEMMA ConeSplit ==
  ASSUME NEW p \in Proj, NEW q \in Cone[p], q # p
  PROVE  \E d \in Deps[p] : q \in Cone[d]
  <1> DEFINE S == {p} \union {x \in Proj : \E d \in Deps[p] : x \in Cone[d]}
  <1>1. S \in SUBSET Proj /\ p \in S
    OBVIOUS
  <1>2. ASSUME NEW x \in S PROVE Deps[x] \subseteq S
    <2>1. Deps[p] \subseteq Proj
      BY GraphAssumption
    <2>2. CASE x = p
      BY <2>1, <2>2, ConeSelf
    <2>3. CASE x # p
      <3>1. PICK d \in Deps[p] : x \in Cone[d]
        BY <2>3
      <3>2. d \in Proj
        BY <2>1
      <3>3. Deps[x] \subseteq Cone[d]
        BY <3>1, <3>2, ConeClosed
      <3> QED
        BY <3>1, <3>2, <3>3, ConeSelf
    <2> QED
      BY <2>2, <2>3
  <1>3. q \in S
    BY <1>1, <1>2 DEF Cone
  <1> QED
    BY <1>3

(* Every other member of a cone is a direct dep of some member.             *)
LEMMA ConePred ==
  ASSUME NEW p \in Proj, NEW q \in Cone[p], q # p
  PROVE  \E x \in Cone[p] : q \in Deps[x]
  <1> SUFFICES ASSUME \A x \in Cone[p] : q \notin Deps[x] PROVE FALSE
    OBVIOUS
  <1> DEFINE S == Cone[p] \ {q}
  <1>1. S \in SUBSET Proj /\ p \in S
    BY ConeSelf
  <1>2. \A x \in S : Deps[x] \subseteq S
    BY ConeClosed
  <1>3. q \in S
    BY <1>1, <1>2 DEF Cone
  <1> QED
    BY <1>3

-----------------------------------------------------------------------------
(* The build edges.                                                         *)

(* An edge is a pair of a sub-project and a phase.                          *)
LEMMA EdgeType ==
  /\ \A e \in Edge : e[1] \in Proj /\ e[2] \in Phase /\ e = <<e[1], e[2]>>
  /\ \A p \in Proj, ph \in Phase : <<p, ph>> \in Edge
  /\ \A ph \in Phase : Earlier(ph) \subseteq Phase /\ ph \notin Earlier(ph)
  BY DEF Edge, Phase, Earlier

(* An edge is upstream of itself, and upstream edges are edges.             *)
LEMMA UpSelf == \A e \in Edge : e \in Upstream[e] /\ Upstream[e] \subseteq Edge
  BY DEF Upstream

(* Being upstream is transitive.                                            *)
LEMMA UpTrans ==
  ASSUME NEW e \in Edge, NEW f \in Upstream[e]
  PROVE  Upstream[f] \subseteq Upstream[e]
  <1>1. f \in Edge
    BY UpSelf
  <1> SUFFICES ASSUME NEW g \in Upstream[f] PROVE g \in Upstream[e]
    OBVIOUS
  <1>2. g \in Edge
    BY <1>1, UpSelf
  <1>3. CASE f[1] = e[1] /\ f[2] \in Earlier(e[2]) \union {e[2]}
    <2>1. Earlier(f[2]) \union {f[2]} \subseteq Earlier(e[2]) \union {e[2]}
      BY <1>1, <1>3, EdgeType DEF Phase, Earlier
    <2> QED
      BY <1>1, <1>2, <1>3, <2>1 DEF Upstream
  <1>4. CASE \E d \in Deps[e[1]] : f[1] \in Cone[d]
    <2>1. PICK d \in Deps[e[1]] : f[1] \in Cone[d]
      BY <1>4
    <2>2. d \in Proj
      BY EdgeType, GraphAssumption
    <2>3. g[1] \in Cone[d]
      <3>1. CASE g[1] = f[1]
        BY <3>1, <2>1
      <3>2. CASE \E c \in Deps[f[1]] : g[1] \in Cone[c]
        <4>1. PICK c \in Deps[f[1]] : g[1] \in Cone[c]
          BY <3>2
        <4>2. c \in Cone[d]
          BY <2>1, <2>2, <4>1, ConeClosed
        <4> QED
          BY <2>2, <4>1, <4>2, ConeMono
      <3> QED
        BY <1>1, <1>2, <3>1, <3>2 DEF Upstream
    <2> QED
      BY <1>2, <2>1, <2>3 DEF Upstream
  <1> QED
    BY <1>1, <1>3, <1>4 DEF Upstream

(* A consumer of e has e upstream, and is another edge of the graph.        *)
LEMMA ConsumerUp ==
  ASSUME NEW e \in Edge, NEW g \in Consumers[e]
  PROVE  g \in Edge /\ e \in Upstream[g]
  <1>1. g \in Edge
    BY DEF Consumers
  <1>2. CASE g[1] = e[1] /\ Earlier(g[2]) = Earlier(e[2]) \union {e[2]}
    BY <1>1, <1>2 DEF Upstream
  <1>3. CASE e[2] = "dist" /\ g[2] = "configure" /\ e[1] \in Deps[g[1]]
    <2>1. e[1] \in Cone[e[1]]
      BY EdgeType, ConeSelf
    <2> QED
      BY <1>1, <1>3, <2>1 DEF Upstream
  <1> QED
    BY <1>1, <1>2, <1>3 DEF Consumers

(* A consumer of an edge is a different edge.                               *)
LEMMA ConsumerOther ==
  ASSUME NEW e \in Edge, NEW g \in Consumers[e]
  PROVE  g # e
  BY EdgeType DEF Consumers, Phase, Earlier

(* Each phase but dist has a next phase.                                    *)
LEMMA NextPhase ==
  ASSUME NEW ph \in Phase, NEW late \in Phase, ph \in Earlier(late)
  PROVE  \E nx \in Earlier(late) \union {late} :
           nx \in Phase /\ Earlier(nx) = Earlier(ph) \union {ph}
  <1>1. ph = "configure" => /\ "build" \in Earlier(late) \union {late}
                            /\ Earlier("build") = Earlier(ph) \union {ph}
    BY DEF Phase, Earlier
  <1>2. ph = "build" => /\ "stage" \in Earlier(late) \union {late}
                        /\ Earlier("stage") = Earlier(ph) \union {ph}
    BY DEF Phase, Earlier
  <1>3. ph = "stage" => /\ "dist" \in Earlier(late) \union {late}
                        /\ Earlier("dist") = Earlier(ph) \union {ph}
    BY DEF Phase, Earlier
  <1>4. ph # "dist"
    BY DEF Phase, Earlier
  <1> QED
    BY <1>1, <1>2, <1>3, <1>4 DEF Phase

(* Between an edge and another one upstream of it lies a consumer.          *)
LEMMA UpConsumer ==
  ASSUME NEW f \in Edge, NEW e \in Upstream[f], e # f
  PROVE  \E g \in Consumers[e] : g \in Upstream[f]
  <1>1. e \in Edge
    BY UpSelf
  <1>2. CASE e[1] = f[1] /\ e[2] \in Earlier(f[2])
    <2>1. PICK nx \in Earlier(f[2]) \union {f[2]} :
            nx \in Phase /\ Earlier(nx) = Earlier(e[2]) \union {e[2]}
      BY <1>1, <1>2, EdgeType, NextPhase
    <2>2. <<e[1], nx>> \in Edge
      BY <1>1, <2>1, EdgeType
    <2>3. <<e[1], nx>> \in Consumers[e]
      BY <1>1, <2>1, <2>2 DEF Consumers
    <2>4. <<e[1], nx>> \in Upstream[f]
      BY <1>2, <2>1, <2>2 DEF Upstream
    <2> QED
      BY <2>3, <2>4
  <1>3. CASE \E d \in Deps[f[1]] : e[1] \in Cone[d]
    <2>1. PICK d \in Deps[f[1]] : e[1] \in Cone[d]
      BY <1>3
    <2>2. d \in Proj
      BY EdgeType, GraphAssumption
    <2>3. CASE e[2] # "dist"
      <3>1. e[2] \in Earlier("dist") /\ "dist" \in Phase /\ e[2] \in Phase
        BY <1>1, <2>3, EdgeType DEF Phase, Earlier
      <3>2. PICK nx \in Phase : Earlier(nx) = Earlier(e[2]) \union {e[2]}
        BY <3>1, NextPhase
      <3>3. <<e[1], nx>> \in Edge
        BY <1>1, <3>2, EdgeType
      <3>4. <<e[1], nx>> \in Consumers[e]
        BY <1>1, <3>2, <3>3 DEF Consumers
      <3>5. <<e[1], nx>> \in Upstream[f]
        BY <2>1, <3>3 DEF Upstream
      <3> QED
        BY <3>4, <3>5
    <2>4. CASE e[2] = "dist" /\ e[1] = d
      <3>1. <<f[1], "configure">> \in Edge
        BY EdgeType DEF Phase
      <3>2. <<f[1], "configure">> \in Consumers[e]
        BY <1>1, <2>1, <2>4, <3>1 DEF Consumers
      <3>3. "configure" \in Earlier(f[2]) \union {f[2]}
        BY EdgeType DEF Phase, Earlier
      <3>4. <<f[1], "configure">> \in Upstream[f]
        BY <3>1, <3>3 DEF Upstream
      <3> QED
        BY <3>2, <3>4
    <2>5. CASE e[2] = "dist" /\ e[1] # d
      <3>1. PICK x \in Cone[d] : e[1] \in Deps[x]
        BY <2>1, <2>2, <2>5, ConePred
      <3>2. <<x, "configure">> \in Edge
        BY <2>2, ConeSelf, EdgeType DEF Phase
      <3>3. <<x, "configure">> \in Consumers[e]
        BY <1>1, <2>5, <3>1, <3>2 DEF Consumers
      <3>4. <<x, "configure">> \in Upstream[f]
        BY <2>1, <3>1, <3>2 DEF Upstream
      <3> QED
        BY <3>3, <3>4
    <2> QED
      BY <2>3, <2>4, <2>5
  <1> QED
    BY <1>1, <1>2, <1>3, EdgeType DEF Upstream

-----------------------------------------------------------------------------
(* What ninja's verdict on an edge says of the edges upstream of it.        *)

(* If an edge is clean, so is all upstream of it.                           *)
LEMMA CleanUp ==
  ASSUME NEW e \in Edge, NEW f \in Upstream[e], Clean(e)
  PROVE  Clean(f)
  BY UpTrans DEF Clean

(* The dist of a dep, and its stage, are upstream of every phase of p.      *)
LEMMA DepUp ==
  ASSUME NEW p \in Proj, NEW ph \in Phase, NEW d \in Deps[p], NEW x \in Cone[d],
         NEW f \in Phase
  PROVE  <<x, f>> \in Upstream[<<p, ph>>]
  <1>1. x \in Proj
    BY GraphAssumption, ConeSelf
  <1> QED
    BY <1>1, EdgeType DEF Upstream

(* So is an earlier phase of p itself.                                      *)
LEMMA OwnUp ==
  ASSUME NEW p \in Proj, NEW ph \in Phase, NEW f \in Earlier(ph) \union {ph}
  PROVE  <<p, f>> \in Upstream[<<p, ph>>]
  <1>1. f \in Phase
    BY EdgeType
  <1> QED
    BY <1>1, EdgeType DEF Upstream

(* A phase from build on has configure and build of each member of the cone *)
(* upstream.                                                                *)
LEMMA BuildUp ==
  ASSUME NEW p \in Proj, NEW ph \in {"build", "stage", "dist"}, NEW q \in Cone[p],
         NEW f \in {"configure", "build"}
  PROVE  <<q, f>> \in Upstream[<<p, ph>>]
  <1>1. ph \in Phase /\ f \in Phase /\ f \in Earlier(ph) \union {ph}
    BY DEF Phase, Earlier
  <1>2. CASE q = p
    BY <1>1, <1>2, OwnUp
  <1>3. CASE q # p
    <2>1. PICK d \in Deps[p] : q \in Cone[d]
      BY <1>3, ConeSplit
    <2> QED
      BY <1>1, <2>1, DepUp
  <1> QED
    BY <1>2, <1>3

(* If nothing becomes fresh in a step, what is clean after it was clean     *)
(* before it.                                                               *)
LEMMA CleanGrow ==
  ASSUME \A p \in Proj : old[p] \subseteq old'[p], NEW f \in Edge, Clean(f)'
  PROVE  Clean(f)
  BY UpSelf, EdgeType DEF Clean, Old

(* Touching the stamp of e leaves every edge that has e upstream old, and   *)
(* makes no other stamp fresh.                                              *)
LEMMA CleanTouch ==
  ASSUME TypeOK, NEW e \in Edge, NEW f \in Edge,
         \A p \in Proj : Touched(e, old)[p] \subseteq old'[p],
         Clean(f)'
  PROVE  /\ e \in Upstream[f] => e = f
         /\ \A g \in Upstream[f] : g # e => ~ Old(g)
         /\ e # f => Clean(f)
  <1>1. \A g \in Upstream[f] : g \in Edge /\ g[2] \notin old'[g[1]]
    BY UpSelf DEF Clean, Old
  <1>2. ASSUME e \in Upstream[f], e # f PROVE FALSE
    <2>1. PICK g \in Consumers[e] : g \in Upstream[f]
      BY <1>2, UpConsumer
    <2>2. g \in Edge /\ g = <<g[1], g[2]>> /\ g[1] \in Proj /\ g[2] \in Phase
      BY <1>1, <2>1, EdgeType
    <2>3. g[2] \in Touched(e, old)[g[1]]
      BY <2>1, <2>2 DEF Touched
    <2> QED
      BY <1>1, <2>1, <2>2, <2>3
  <1>3. ASSUME NEW g \in Upstream[f], g # e PROVE ~ Old(g)
    <2>1. g \in Edge /\ g = <<g[1], g[2]>> /\ g[1] \in Proj /\ g[2] \in Phase
      BY <1>1, EdgeType
    <2>2. e = <<e[1], e[2]>>
      BY EdgeType
    <2>3. g[2] \in old[g[1]] => g[2] \in Touched(e, old)[g[1]]
      BY <1>3, <2>1, <2>2 DEF Touched
    <2> QED
      BY <1>1, <2>1, <2>3 DEF Old
  <1> QED
    BY <1>2, <1>3 DEF Clean

-----------------------------------------------------------------------------
(* Type correctness.                                                        *)

(* What the phases compute from trees are trees.                            *)
LEMMA TreeTypes ==
  ASSUME TypeOK
  PROVE  /\ Empty \in Tree
         /\ \A p \in Proj : View(p) \in Tree
         /\ \A dirs \in SUBSET Proj : Merge(dirs) \in Tree
         /\ \A s, t \in Tree : Mix(s, t) \in Tree
         /\ \A t \in Tree, p \in Proj, R \in SUBSET Rev : [t EXCEPT ![p] = R] \in Tree
  <1>1. Empty \in Tree
    BY DEF Empty, Tree
  <1>2. ASSUME NEW p \in Proj PROVE View(p) \in Tree
    <2>1. \A d \in Deps[p] : d \in Proj
      BY GraphAssumption
    <2>2. \A d \in Runtime[p] : d \in Proj
      BY GraphAssumption
    <2>3. \A d, q \in Proj : dist[d][q] \subseteq Rev /\ stage[d][q] \subseteq Rev
      BY DEF TypeOK, Tree
    <2>4. \A q \in Proj : UNION ({dist[d][q] : d \in Deps[p]}
                                  \union {stage[d][q] : d \in Runtime[p]}) \subseteq Rev
      BY <2>1, <2>2, <2>3
    <2> QED
      BY <2>4 DEF View, Tree
  <1>3. ASSUME NEW dirs \in SUBSET Proj PROVE Merge(dirs) \in Tree
    <2>1. \A d, q \in Proj : stage[d][q] \subseteq Rev
      BY DEF TypeOK, Tree
    <2>2. \A q \in Proj : UNION {stage[d][q] : d \in dirs} \subseteq Rev
      BY <2>1
    <2> QED
      BY <2>2 DEF Merge, Tree
  <1>4. \A s, t \in Tree : Mix(s, t) \in Tree
    BY DEF Mix, Tree
  <1>5. \A t \in Tree, p \in Proj, R \in SUBSET Rev : [t EXCEPT ![p] = R] \in Tree
    BY DEF Tree
  <1> QED
    BY <1>1, <1>2, <1>3, <1>4, <1>5

(* Initially the variables have their types.                                *)
LEMMA TypeInit == Init => TypeOK
  BY BoundAssumption DEF Init, TypeOK, Tree, Rev, Empty

(* What cmake --build compiles is a revision.                               *)
LEMMA CompiledType ==
  ASSUME TypeOK, NEW p \in Proj, NEW R \in SUBSET Rev
  PROVE  /\ ListsOf(p, R) \in SUBSET (1 .. MaxRev)
         /\ \A c \in ListsOf(p, R), r \in R : Compiled(c, r) \in Rev
  <1>1. parsed[p] \in SUBSET (1 .. MaxRev)
    BY DEF TypeOK
  <1>2. \A s \in R : s.lists \in 1 .. MaxRev /\ s.files \in 1 .. MaxRev
    BY DEF Rev
  <1>3. ListsOf(p, R) \in SUBSET (1 .. MaxRev)
    BY <1>1, <1>2 DEF ListsOf
  <1> QED
    BY <1>2, <1>3 DEF Compiled, Rev

(* What a completed command does to the trees keeps their types.            *)
LEMMA TypeDone ==
  ASSUME TypeOK, NEW e \in Edge, Done(e)
  PROVE  /\ conf' \in [Proj -> Tree] /\ built' \in [Proj -> Tree]
         /\ stage' \in [Proj -> Tree] /\ dist' \in [Proj -> Tree]
         /\ parsed' \in [Proj -> SUBSET (1 .. MaxRev)]
  <1> DEFINE p == e[1]
  <1>1. p \in Proj
    BY EdgeType
  <1>2. {p} \union Runtime[p] \in SUBSET Proj
    BY <1>1, GraphAssumption
  <1>3. CASE ConfigureDone(p)
    <2>1. PICK c \in parsing[p] : parsed' = [parsed EXCEPT ![p] = {c}]
      BY <1>3 DEF ConfigureDone
    <2>2. parsed' \in [Proj -> SUBSET (1 .. MaxRev)]
      BY <1>1, <2>1 DEF TypeOK
    <2> QED
      BY <1>1, <1>3, <2>2, TreeTypes DEF ConfigureDone, TypeOK
  <1>4. CASE BuildDone(p)
    <2>1. PICK r \in seen[p], c \in ListsOf(p, seen[p]) :
           /\ built' = [built EXCEPT ![p] = [View(p) EXCEPT ![p] = {Compiled(c, r)}]]
           /\ parsed' = [parsed EXCEPT ![p] = {c}]
      BY <1>4 DEF BuildDone
    <2>2. seen[p] \in SUBSET Rev
      BY <1>1 DEF TypeOK, Tree
    <2>3. {Compiled(c, r)} \in SUBSET Rev /\ c \in 1 .. MaxRev
      BY <1>1, <2>2, CompiledType
    <2>4. [View(p) EXCEPT ![p] = {Compiled(c, r)}] \in Tree
      BY <1>1, <2>3, TreeTypes
    <2>5. parsed' \in [Proj -> SUBSET (1 .. MaxRev)]
      BY <1>1, <2>1, <2>3 DEF TypeOK
    <2> QED
      BY <1>1, <1>4, <2>1, <2>4, <2>5 DEF BuildDone, TypeOK
  <1>5. CASE StageDone(p)
    BY <1>1, <1>5 DEF StageDone, TypeOK
  <1>6. CASE DistDone(p)
    BY <1>1, <1>2, <1>6, TreeTypes DEF DistDone, TypeOK
  <1> QED
    BY <1>3, <1>4, <1>5, <1>6 DEF Done

(* So does what an interrupted command leaves.                              *)
LEMMA TypePartlyDone ==
  ASSUME TypeOK, NEW e \in Edge, PartlyDone(e)
  PROVE  /\ conf' \in [Proj -> Tree] /\ built' \in [Proj -> Tree]
         /\ stage' \in [Proj -> Tree] /\ dist' \in [Proj -> Tree]
         /\ parsed' \in [Proj -> SUBSET (1 .. MaxRev)]
  <1> DEFINE p == e[1]
             own == {Compiled(c, r) : c \in ListsOf(p, seen[p]), r \in seen[p]}
  <1>1. p \in Proj
    BY EdgeType
  <1>2. {p} \union Runtime[p] \in SUBSET Proj
    BY <1>1, GraphAssumption
  <1>3. conf[p] \in Tree /\ built[p] \in Tree /\ stage[p] \in Tree /\ View(p) \in Tree
    BY <1>1, TreeTypes DEF TypeOK
  <1>4. [View(p) EXCEPT ![p] = own] \in Tree /\ ListsOf(p, seen[p]) \in SUBSET (1 .. MaxRev)
    <2>1. seen[p] \in SUBSET Rev
      BY <1>1 DEF TypeOK, Tree
    <2>2. own \in SUBSET Rev /\ ListsOf(p, seen[p]) \in SUBSET (1 .. MaxRev)
      BY <1>1, <2>1, CompiledType
    <2> HIDE DEF own
    <2> QED
      BY <1>1, <2>2, TreeTypes
  <1>5. CASE e[2] = "configure"
    <2>1. Mix(conf[p], View(p)) \in Tree
      BY <1>3, TreeTypes
    <2>2. parsed' = [parsed EXCEPT ![p] = parsed[p] \union parsing[p]]
      BY <1>5 DEF PartlyDone
    <2>3. parsed' \in [Proj -> SUBSET (1 .. MaxRev)]
      BY <1>1, <2>2 DEF TypeOK
    <2> QED
      BY <1>1, <1>5, <2>1, <2>3 DEF PartlyDone, TypeOK
  <1>6. CASE e[2] = "build"
    <2>1. Mix(built[p], [View(p) EXCEPT ![p] = own]) \in Tree
      BY <1>3, <1>4, TreeTypes
    <2>2. parsed' = [parsed EXCEPT ![p] = ListsOf(p, seen[p])]
      BY <1>6 DEF PartlyDone
    <2>3. parsed' \in [Proj -> SUBSET (1 .. MaxRev)]
      BY <1>1, <1>4, <2>2 DEF TypeOK
    <2>4. built' = [built EXCEPT ![p] = Mix(built[p], [View(p) EXCEPT ![p] = own])]
      BY <1>6 DEF PartlyDone
    <2> HIDE DEF own
    <2> QED
      BY <1>1, <1>6, <2>1, <2>3, <2>4 DEF PartlyDone, TypeOK
  <1>7. CASE e[2] = "stage"
    <2>1. Mix(stage[p], built[p]) \in Tree
      BY <1>3, TreeTypes
    <2> QED
      BY <1>1, <1>7, <2>1 DEF PartlyDone, TypeOK
  <1>8. CASE e[2] = "dist"
    <2>1. PICK dirs \in SUBSET ({p} \union Runtime[p]) :
             dist' = [dist EXCEPT ![p] = Merge(dirs)]
      BY <1>8 DEF PartlyDone
    <2>2. Merge(dirs) \in Tree
      BY <1>2, TreeTypes
    <2>3. UNCHANGED <<conf, parsed, built, stage>>
      BY <1>8 DEF PartlyDone
    <2> QED
      BY <1>1, <2>1, <2>2, <2>3 DEF TypeOK
  <1> QED
    BY <1>5, <1>6, <1>7, <1>8 DEF PartlyDone

(* Touching stamps and planning keep the types.                             *)
LEMMA TypeTouched ==
  ASSUME TypeOK, NEW e \in Edge
  PROVE  Touched(e, old) \in [Proj -> SUBSET Phase]
  BY DEF TypeOK, Touched

(* Every step keeps the types.                                              *)
LEMMA TypeStep == TypeOK /\ [Next]_vars => TypeOK'
  <1> SUFFICES ASSUME TypeOK, [Next]_vars PROVE TypeOK'
    OBVIOUS
  <1>0. Disturb => budget' \in 0 .. MaxDisturb
    BY BoundAssumption DEF Disturb, TypeOK
  <1>1. ASSUME NEW T \in SUBSET Edge, StartNinja(T) PROVE TypeOK'
    <2>1. Plan(T) \subseteq Edge
      BY UpSelf DEF Plan
    <2>2. todo' \subseteq Edge /\ running = {}
      BY <1>1, <2>1 DEF StartNinja, TypeOK
    <2> QED
      BY <1>1, <2>2 DEF StartNinja, TypeOK, trees
  <1>2. ASSUME NEW e \in Edge, Start(e) PROVE TypeOK'
    <2>1. e[1] \in Proj
      BY EdgeType
    <2>2. src[e[1]] \in Rev /\ src[e[1]].lists \in 1 .. MaxRev
      BY <2>1 DEF TypeOK, Rev
    <2>3. seen' \in Tree
      BY <1>2, <2>1, <2>2 DEF Start, StartReading, TypeOK, Tree
    <2>4. parsing' \in [Proj -> SUBSET (1 .. MaxRev)]
      BY <1>2, <2>1, <2>2 DEF Start, StartReading, TypeOK
    <2> QED
      BY <1>2, <2>3, <2>4 DEF Start, TypeOK, trees
  <1>3. ASSUME NEW e \in Edge, Finish(e) PROVE TypeOK'
    BY <1>3, TypeDone, TypeTouched DEF Finish, TypeOK
  <1>4. ASSUME NEW e \in Edge, Fail(e) PROVE TypeOK'
    BY <1>0, <1>4, TypePartlyDone DEF Fail, TypeOK
  <1>5. ASSUME NEW e \in Edge, FailAfterTouch(e) PROVE TypeOK'
    <2>1. e[1] \in Proj /\ e[2] \in Phase
      BY EdgeType
    <2>2. old' \in [Proj -> SUBSET Phase]
      BY <1>5, <2>1, TypeTouched DEF FailAfterTouch
    <2> QED
      BY <1>0, <1>5, <2>2, TypeDone DEF FailAfterTouch, TypeOK
  <1>6. ASSUME NEW p \in Proj, NEW r, NewRevision(p, r)
        PROVE  r \in Rev /\ src' \in [Proj -> Rev] /\ seen' \in Tree
    BY <1>6 DEF NewRevision, TypeOK, Tree
  <1>7. ASSUME NEW p \in Proj, EditSource(p) \/ EditLists(p) PROVE TypeOK'
    <2>1. PICK r : NewRevision(p, r)
      BY <1>7 DEF EditSource, EditLists
    <2>2. old' \in [Proj -> SUBSET Phase]
      BY <1>7 DEF EditSource, EditLists, TypeOK, Phase
    <2>3. parsing' \in [Proj -> SUBSET (1 .. MaxRev)]
      <3>1. CASE EditSource(p)
        BY <3>1 DEF EditSource, TypeOK
      <3>2. CASE EditLists(p)
        <4>1. src[p].lists + 1 \in 1 .. MaxRev
          BY <3>2, <1>6 DEF EditLists, Rev
        <4> QED
          BY <3>2, <4>1 DEF EditLists, TypeOK
      <3> QED
        BY <1>7, <3>1, <3>2
    <2> QED
      BY <1>0, <1>6, <2>1, <2>2, <2>3 DEF NewRevision, TypeOK, trees
  <1>8. ASSUME NEW p \in Proj, Expunge(p) PROVE TypeOK'
    BY <1>0, <1>8, TreeTypes DEF Expunge, TypeOK
  <1>9. ASSUME NEW p \in Proj, DirectBuild(p) PROVE TypeOK'
    <2>1. PICK c \in ListsOf(p, {src[p]}) :
             /\ built' = [built EXCEPT ![p] = [View(p) EXCEPT ![p] = {Compiled(c, src[p])}]]
             /\ parsed' = [parsed EXCEPT ![p] = {c}]
      BY <1>9 DEF DirectBuild
    <2>2. View(p) \in Tree /\ {src[p]} \in SUBSET Rev
      BY TreeTypes DEF TypeOK
    <2>3. {Compiled(c, src[p])} \in SUBSET Rev /\ c \in 1 .. MaxRev
      BY <2>2, CompiledType
    <2>4. [View(p) EXCEPT ![p] = {Compiled(c, src[p])}] \in Tree
      BY <2>2, <2>3, TreeTypes
    <2>5. built' \in [Proj -> Tree] /\ parsed' \in [Proj -> SUBSET (1 .. MaxRev)]
      BY <2>1, <2>3, <2>4 DEF TypeOK
    <2>6. budget' \in 0 .. MaxDisturb
      BY <1>0, <1>9 DEF DirectBuild
    <2> QED
      BY <1>9, <2>5, <2>6 DEF DirectBuild, TypeOK
  <1>10. ASSUME NEW p \in Proj, NEW ph \in Phase, RemoveStamp(p, ph) PROVE TypeOK'
    BY <1>0, <1>10 DEF RemoveStamp, TypeOK, trees
  <1>11. CASE UNCHANGED vars
    BY <1>11 DEF vars, TypeOK
  <1> QED
    BY <1>1, <1>2, <1>3, <1>4, <1>5, <1>7, <1>8, <1>9, <1>10, <1>11
       DEF Next, Ninja, Disturbance

(* Type correctness of the specification.                                   *)
THEOREM TypeCorrect == Spec => []TypeOK
  BY TypeInit, TypeStep, PTL DEF Spec

-----------------------------------------------------------------------------
(* Trees stay within their cone.                                            *)

(* What a sub-project reads, and the stage trees it merges, lie in its cone.*)
LEMMA ScopeRead ==
  ASSUME Scope, NEW p \in Proj, NEW q \in Proj \ Cone[p]
  PROVE  /\ View(p)[q] = {}
         /\ \A dirs \in SUBSET ({p} \union Runtime[p]) : Merge(dirs)[q] = {}
  <1>1. p \in Cone[p] /\ Deps[p] \subseteq Cone[p] /\ Runtime[p] \subseteq Deps[p]
    BY ConeSelf, ConeClosed, GraphAssumption
  <1>2. \A d \in {p} \union Deps[p] : d \in Proj /\ q \notin Cone[d]
    BY <1>1, ConeSelf, ConeMono
  <1>3. \A d \in {p} \union Deps[p] : dist[d][q] = {} /\ stage[d][q] = {}
    BY <1>2 DEF Scope
  <1>4. UNION ({dist[d][q] : d \in Deps[p]} \union {stage[d][q] : d \in Runtime[p]}) = {}
    BY <1>1, <1>3
  <1>5. \A dirs \in SUBSET ({p} \union Runtime[p]) : UNION {stage[d][q] : d \in dirs} = {}
    BY <1>1, <1>3
  <1> QED
    BY <1>4, <1>5 DEF View, Merge

(* A completed or interrupted command keeps its tree within the cone.       *)
LEMMA ScopeCommand ==
  ASSUME TypeOK, Scope, NEW e \in Edge, Done(e) \/ PartlyDone(e)
  PROVE  Scope'
  <1> DEFINE p == e[1]
  <1>1. p \in Proj /\ p \in Cone[p]
    BY EdgeType, ConeSelf
  <1>2. \A q \in Proj \ Cone[p] : built[p][q] = {} /\ stage[p][q] = {} /\ View(p)[q] = {}
    BY <1>1, ScopeRead DEF Scope
  <1>3. View(p) \in Tree
    BY <1>1, TreeTypes
  <1>4. \A q \in Proj \ Cone[p], R \in SUBSET Rev : [View(p) EXCEPT ![p] = R][q] = {}
    BY <1>1, <1>2, <1>3 DEF Tree
  <1>5. ASSUME NEW new, \A q \in Proj \ Cone[p] : new[q] = {},
               \/ built' = [built EXCEPT ![p] = new] /\ UNCHANGED <<stage, dist>>
               \/ stage' = [stage EXCEPT ![p] = new] /\ UNCHANGED <<built, dist>>
               \/ dist' = [dist EXCEPT ![p] = new] /\ UNCHANGED <<built, stage>>
        PROVE  Scope'
    BY <1>1, <1>5 DEF Scope, TypeOK
  <1>6. CASE UNCHANGED <<built, stage, dist>>
    BY <1>6 DEF Scope
  <1>7. CASE BuildDone(p)
    <2>1. PICK r \in seen[p], c \in ListsOf(p, seen[p]) :
           /\ built' = [built EXCEPT ![p] = [View(p) EXCEPT ![p] = {Compiled(c, r)}]]
           /\ parsed' = [parsed EXCEPT ![p] = {c}]
      BY <1>7 DEF BuildDone
    <2>2. {Compiled(c, r)} \in SUBSET Rev
      <3>1. seen[p] \in SUBSET Rev
        BY <1>1 DEF TypeOK, Tree
      <3> QED
        BY <1>1, <3>1, CompiledType
    <2> DEFINE new == [View(p) EXCEPT ![p] = {Compiled(c, r)}]
    <2>3. \A q \in Proj \ Cone[p] : new[q] = {}
      BY <1>4, <2>2
    <2>4. built' = [built EXCEPT ![p] = new] /\ UNCHANGED <<stage, dist>>
      BY <1>7, <2>1 DEF BuildDone
    <2> HIDE DEF new
    <2> QED
      BY <1>5, <2>3, <2>4
  <1>8. CASE StageDone(p)
    BY <1>2, <1>5, <1>8 DEF StageDone
  <1>9. CASE DistDone(p)
    <2>1. \A q \in Proj \ Cone[p] : Merge({p} \union Runtime[p])[q] = {}
      BY <1>1, ScopeRead
    <2> QED
      BY <1>5, <1>9, <2>1 DEF DistDone
  <1>10. CASE PartlyDone(e) /\ e[2] = "build"
    <2> DEFINE own == {Compiled(c, r) : c \in ListsOf(p, seen[p]), r \in seen[p]}
               new == Mix(built[p], [View(p) EXCEPT ![p] = own])
    <2>1. own \in SUBSET Rev
      <3>1. seen[p] \in SUBSET Rev
        BY <1>1 DEF TypeOK, Tree
      <3> QED
        BY <1>1, <3>1, CompiledType
    <2>2. built' = [built EXCEPT ![p] = new] /\ UNCHANGED <<stage, dist>>
      BY <1>10 DEF PartlyDone
    <2> HIDE DEF own
    <2>3. \A q \in Proj \ Cone[p] : new[q] = {}
      BY <1>2, <1>4, <2>1 DEF Mix
    <2> HIDE DEF new
    <2> QED
      BY <1>5, <2>2, <2>3
  <1>11. CASE PartlyDone(e) /\ e[2] = "stage"
    <2> DEFINE new == Mix(stage[p], built[p])
    <2>1. \A q \in Proj \ Cone[p] : new[q] = {}
      BY <1>2 DEF Mix
    <2> QED
      BY <1>5, <1>11, <2>1 DEF PartlyDone
  <1>12. CASE PartlyDone(e) /\ e[2] = "dist"
    <2>1. PICK dirs \in SUBSET ({p} \union Runtime[p]) :
             dist' = [dist EXCEPT ![p] = Merge(dirs)]
      BY <1>12 DEF PartlyDone
    <2>2. \A q \in Proj \ Cone[p] : Merge(dirs)[q] = {}
      BY <1>1, ScopeRead
    <2>3. UNCHANGED <<built, stage>>
      BY <1>12 DEF PartlyDone
    <2> QED
      BY <1>5, <2>1, <2>2, <2>3
  <1> QED
    BY <1>6, <1>7, <1>8, <1>9, <1>10, <1>11, <1>12
       DEF Done, PartlyDone, ConfigureDone

-----------------------------------------------------------------------------
(* The plan.                                                                *)

(* ninja only runs commands whose stamp is out of date.                     *)
LEMMA RunningOld ==
  ASSUME TypeOK, PlanSound, NEW e \in running
  PROVE  Old(e)
  BY DEF TypeOK, PlanSound

(* A command that fails leaves its own stamp old, and no stamp fresher.     *)
LEMMA FailGrows ==
  ASSUME TypeOK, PlanSound, NEW e \in Edge, Fail(e) \/ FailAfterTouch(e)
  PROVE  (\A p \in Proj : old[p] \subseteq old'[p]) /\ Old(e)'
  <1>1. e \in running /\ e[1] \in Proj /\ e[2] \in Phase
    BY EdgeType DEF Fail, FailAfterTouch
  <1>2. Old(e)
    BY <1>1, RunningOld
  <1>3. \A p \in Proj : old[p] \subseteq old'[p]
    <2>1. CASE Fail(e)
      BY <2>1 DEF Fail
    <2>2. CASE FailAfterTouch(e)
      <3>1. Touched(e, old) \in [Proj -> SUBSET Phase]
        BY TypeTouched
      <3>2. ASSUME NEW p \in Proj
            PROVE  old[p] \ (IF p = e[1] THEN {e[2]} ELSE {}) \subseteq Touched(e, old)[p]
        BY DEF Touched
      <3> QED  BY <2>2, <3>1, <3>2 DEF FailAfterTouch
    <2> QED  BY <2>1, <2>2
  <1> QED  BY <1>1, <1>2, <1>3 DEF Old

(* A plan just made is sound.                                               *)
LEMMA PlanStart ==
  ASSUME TypeOK, NEW T \in SUBSET Edge, StartNinja(T)
  PROVE  PlanSound'
  <1>1. todo' = Plan(T) /\ running' = {} /\ old' = old
    BY DEF StartNinja, TypeOK
  <1>2. ASSUME NEW e \in todo'
        PROVE  e \in Edge /\ \E f \in Upstream[e] \intersect todo' : Old(f)
    <2>1. PICK t \in T : e \in Upstream[t]
      BY <1>1 DEF Plan
    <2>2. e \in Edge /\ e \in Upstream[t]
      BY <2>1, UpSelf
    <2>3. PICK f \in Upstream[e] : Old(f)
      BY <1>1 DEF Plan, Clean
    <2>4. f \in Edge /\ f \in Upstream[t]
      BY <2>2, <2>3, UpSelf, UpTrans
    <2>5. ~ Clean(f)
      BY <2>3, <2>4, UpSelf DEF Clean
    <2>6. f \in Plan(T)
      BY <2>4, <2>5 DEF Plan
    <2> QED
      BY <1>1, <2>2, <2>3, <2>6
  <1>3. ASSUME NEW e \in todo', NEW g \in todo', NEW h \in Upstream[e], g \in Upstream[h]
        PROVE  h \in todo'
    <2>1. PICK t \in T : e \in Upstream[t]
      BY <1>1 DEF Plan
    <2>2. h \in Edge /\ h \in Upstream[t]
      BY <1>2, <2>1, UpSelf, UpTrans
    <2>3. ~ Clean(g)
      BY <1>1 DEF Plan
    <2>4. ~ Clean(h)
      BY <1>3, <2>2, <2>3, CleanUp
    <2> QED
      BY <1>1, <2>2, <2>4 DEF Plan
  <1> QED
    BY <1>1, <1>2, <1>3 DEF PlanSound, Old

(* Finishing an edge keeps the plan sound.                                  *)
LEMMA PlanFinish ==
  ASSUME TypeOK, PlanSound, NEW x \in Edge, Finish(x)
  PROVE  PlanSound'
  <1>1. /\ x \in running /\ x \in todo
        /\ todo' = todo \ {x} /\ running' = running \ {x}
        /\ todo \subseteq Edge
    BY DEF Finish, TypeOK
  <1>2. Upstream[x] \intersect todo = {x}
    BY <1>1 DEF PlanSound
  <1>3. ASSUME NEW f \in Edge, f # x, Old(f) PROVE Old(f)'
    <2>1. f = <<f[1], f[2]>> /\ f[1] \in Proj /\ f[2] \in Phase /\ x = <<x[1], x[2]>>
      BY EdgeType
    <2> QED
      BY <1>3, <2>1 DEF Finish, Touched, Old
  <1>4. ASSUME NEW h \in Consumers[x] PROVE Old(h)'
    <2>1. h \in Edge /\ h = <<h[1], h[2]>> /\ h[1] \in Proj /\ h[2] \in Phase
      BY ConsumerUp, EdgeType
    <2> QED
      BY <2>1 DEF Finish, Touched, Old
  <1>5. ASSUME NEW e \in todo'
        PROVE  \E f \in Upstream[e] \intersect todo' : Old(f)'
    <2>1. e \in Edge /\ e \in todo /\ e # x
      BY <1>1
    <2>2. PICK f \in Upstream[e] \intersect todo : Old(f)
      BY <2>1 DEF PlanSound
    <2>3. CASE f # x
      BY <1>1, <1>3, <2>2, <2>3
    <2>4. CASE f = x
      <3>1. PICK h \in Consumers[x] : h \in Upstream[e]
        BY <2>1, <2>2, <2>4, UpConsumer
      <3>2. x \in Upstream[h] /\ h # x
        BY <3>1, ConsumerUp, ConsumerOther
      <3>3. h \in todo
        BY <1>1, <2>1, <3>1, <3>2 DEF PlanSound
      <3> QED
        BY <1>1, <1>4, <3>1, <3>2, <3>3
    <2> QED
      BY <2>3, <2>4
  <1>6. ASSUME NEW e \in running' PROVE Upstream[e] \intersect todo' = {e}
    BY <1>1, <1>6 DEF PlanSound, TypeOK
  <1>7. ASSUME NEW e \in todo', NEW g \in todo', NEW h \in Upstream[e],
               g \in Upstream[h], g # e
        PROVE  h \in todo'
    <2>1. h \in todo
      BY <1>1, <1>7 DEF PlanSound
    <2>2. h # x
      BY <1>1, <1>2, <1>7
    <2> QED
      BY <1>1, <2>1, <2>2
  <1> QED
    BY <1>5, <1>6, <1>7 DEF PlanSound

(* Abandoning the plan but for what runs keeps it sound.                    *)
LEMMA PlanAbandon ==
  ASSUME TypeOK, PlanSound, running' \subseteq running, todo' = running',
         \A p \in Proj : old[p] \subseteq old'[p]
  PROVE  PlanSound'
  <1>1. \A e \in running' : e \in Edge /\ e \in running /\ e \in todo
    BY DEF TypeOK
  <1>2. ASSUME NEW e \in running' PROVE Old(e)' /\ Upstream[e] \intersect todo = {e}
    <2>1. Old(e) /\ e[1] \in Proj
      BY <1>1, RunningOld, EdgeType
    <2> QED
      BY <1>1, <2>1 DEF Old, PlanSound
  <1>3. ASSUME NEW e \in todo' PROVE \E f \in Upstream[e] \intersect todo' : Old(f)'
    BY <1>1, <1>2, UpSelf
  <1>4. ASSUME NEW e \in running' PROVE Upstream[e] \intersect todo' = {e}
    BY <1>1, <1>2
  <1>5. ASSUME NEW e \in todo', NEW g \in todo', NEW h \in Upstream[e],
               g \in Upstream[h], g # e
        PROVE  h \in todo'
    <2>1. g \in Upstream[e]
      BY <1>1, <1>5, UpTrans
    <2> QED
      BY <1>1, <1>2, <1>5, <2>1
  <1> QED
    BY <1>3, <1>4, <1>5 DEF PlanSound

(* So does an old stamp more.                                               *)
LEMMA PlanGrow ==
  ASSUME TypeOK, PlanSound, UNCHANGED <<todo, running>>,
         \A p \in Proj : old[p] \subseteq old'[p]
  PROVE  PlanSound'
  <1>1. \A f \in todo : Old(f) => Old(f)'
    BY EdgeType DEF TypeOK, Old
  <1> QED
    BY <1>1 DEF PlanSound

-----------------------------------------------------------------------------
(* What the trees hold.                                                     *)

(* A build whose dependencies are clean finds them at their current         *)
(* revisions.                                                               *)
LEMMA ViewRight ==
  ASSUME TypeOK, Scope, Settled, NEW p \in Proj,
         \A d \in Deps[p] : Clean(<<d, "dist">>),
         NEW q \in Cone[p], q # p, Known(q)
  PROVE  View(p)[q] = {src[q]}
  <1>1. q \in Proj
    BY ConeSelf
  <1>2. ASSUME NEW d \in Deps[p]
        PROVE  /\ dist[d][q] \subseteq {src[q]} /\ stage[d][q] \subseteq {src[q]}
               /\ q \in Cone[d] => dist[d][q] = {src[q]}
    <2>1. d \in Proj
      BY GraphAssumption
    <2>2. "stage" \in Earlier("dist") /\ "dist" \in Phase /\ <<d, "dist">> \in Edge
      BY <2>1, EdgeType DEF Earlier, Phase
    <2>3. Clean(<<d, "stage">>)
      BY <2>1, <2>2, OwnUp, CleanUp
    <2>4. q \in Cone[d] => dist[d][q] = {src[q]} /\ stage[d][q] = {src[q]}
      BY <2>1, <2>3 DEF Settled, Right
    <2>5. q \notin Cone[d] => dist[d][q] = {} /\ stage[d][q] = {}
      BY <1>1, <2>1 DEF Scope
    <2> QED
      BY <2>4, <2>5
  <1>3. PICK d \in Deps[p] : q \in Cone[d]
    BY ConeSplit
  <1>4. Runtime[p] \subseteq Deps[p]
    BY GraphAssumption
  <1>5. UNION ({dist[c][q] : c \in Deps[p]} \union {stage[c][q] : c \in Runtime[p]})
          = {src[q]}
    BY <1>2, <1>3, <1>4
  <1> QED
    BY <1>1, <1>5 DEF View

(* Merging clean stage trees gives the current revisions.                   *)
LEMMA MergeRight ==
  ASSUME TypeOK, Scope, Settled, NEW p \in Proj,
         \A d \in {p} \union Runtime[p] : Clean(<<d, "stage">>)
  PROVE  Right(Merge({p} \union Runtime[p]), p)
  <1> SUFFICES ASSUME NEW q \in Cone[p], Known(q)
               PROVE  Merge({p} \union Runtime[p])[q] = {src[q]}
    BY DEF Right
  <1>1. q \in Proj
    BY ConeSelf
  <1>2. ASSUME NEW d \in {p} \union Runtime[p]
        PROVE  /\ stage[d][q] \subseteq {src[q]}
               /\ d = p => stage[d][q] = {src[q]}
    <2>1. d \in Proj
      BY GraphAssumption
    <2>2. q \in Cone[d] => stage[d][q] = {src[q]}
      BY <2>1 DEF Settled, Right
    <2>3. q \notin Cone[d] => stage[d][q] = {}
      BY <1>1, <2>1 DEF Scope
    <2> QED
      BY <2>2, <2>3
  <1>3. UNION {stage[d][q] : d \in {p} \union Runtime[p]} = {src[q]}
    BY <1>2
  <1> QED
    BY <1>1, <1>3 DEF Merge

(* A command changes no tree but the one its phase makes.                   *)
LEMMA CommandFrame ==
  ASSUME TypeOK, NEW e \in Edge, Done(e) \/ PartlyDone(e), NEW p \in Proj
  PROVE  /\ e # <<p, "build">> => built'[p] = built[p]
         /\ e # <<p, "stage">> => stage'[p] = stage[p]
         /\ e # <<p, "dist">>  => dist'[p] = dist[p]
  <1>1. e = <<e[1], e[2]>> /\ e[1] \in Proj /\ e[2] \in Phase
    BY EdgeType
  <1>2. CASE e[2] = "configure"
    BY <1>2 DEF Done, PartlyDone, ConfigureDone
  <1>3. CASE e[2] = "build"
    BY <1>1, <1>3 DEF Done, PartlyDone, BuildDone, TypeOK
  <1>4. CASE e[2] = "stage"
    BY <1>1, <1>4 DEF Done, PartlyDone, StageDone, TypeOK
  <1>5. CASE e[2] = "dist"
    BY <1>1, <1>5 DEF Done, PartlyDone, DistDone, TypeOK
  <1> QED
    BY <1>1, <1>2, <1>3, <1>4, <1>5 DEF Phase

(* The stage trees a dist tree is merged from are upstream of it.           *)
LEMMA StageUp ==
  ASSUME NEW p \in Proj, NEW d \in {p} \union Runtime[p]
  PROVE  <<d, "stage">> \in Upstream[<<p, "dist">>] /\ d \in Cone[p] /\ d \in Proj
  <1>1. "stage" \in Phase /\ "dist" \in Phase /\ "stage" \in Earlier("dist")
    BY DEF Phase, Earlier
  <1>2. CASE d = p
    BY <1>1, <1>2, OwnUp, ConeSelf
  <1>3. CASE d \in Runtime[p]
    <2>1. d \in Deps[p] /\ d \in Proj /\ d \in Cone[d]
      BY <1>3, GraphAssumption, ConeSelf
    <2> QED
      BY <1>1, <2>1, DepUp, ConeClosed, ConeSelf
  <1> QED
    BY <1>2, <1>3

(* A step that freshens no stamp, and changes a sub-project's trees only    *)
(* downstream of something old, keeps Settled, as long as what it does to   *)
(* the sources shows in the stamps too.                                     *)
LEMMA SettledGrow ==
  ASSUME TypeOK, Settled,
         \A p \in Proj : old[p] \subseteq old'[p],
         \A p \in Proj : Clean(<<p, "build">>)' => built'[p] = built[p],
         \A p \in Proj : Clean(<<p, "stage">>)' => stage'[p] = stage[p],
         \A p \in Proj : Clean(<<p, "dist">>)' => dist'[p] = dist[p],
         \A p \in Proj, ph \in {"build", "stage", "dist"}, q \in Proj :
            /\ q \in Cone[p]
            /\ Clean(<<p, ph>>)'
            /\ Known(q)'
            => Known(q) /\ src'[q] = src[q]
  PROVE  Settled'
  <1> SUFFICES ASSUME NEW p \in Proj
               PROVE  /\ Clean(<<p, "build">>)' => Right(built[p], p)'
                      /\ Clean(<<p, "stage">>)' => Right(stage[p], p)'
                      /\ Clean(<<p, "dist">>)'  =>
                           /\ Right(dist[p], p)'
                           /\ (dist[p] = Merge({p} \union Runtime[p]))'
    BY DEF Settled
  <1>0. \A q \in Cone[p] : q \in Proj
    BY ConeSelf
  <1>1. <<p, "build">> \in Edge /\ <<p, "stage">> \in Edge /\ <<p, "dist">> \in Edge
    BY EdgeType DEF Phase
  <1>2. ASSUME Clean(<<p, "build">>)' PROVE Right(built[p], p)'
    <2>1. Clean(<<p, "build">>)
      BY <1>1, <1>2, CleanGrow
    <2>2. Right(built[p], p) /\ built'[p] = built[p]
      BY <1>2, <2>1 DEF Settled
    <2> SUFFICES ASSUME NEW q \in Cone[p], Known(q)' PROVE built'[p][q] = {src'[q]}
      BY DEF Right
    <2>3. Known(q) /\ src'[q] = src[q]
      BY <1>0, <1>2
    <2> QED
      BY <2>2, <2>3 DEF Right
  <1>3. ASSUME Clean(<<p, "stage">>)' PROVE Right(stage[p], p)'
    <2>1. Clean(<<p, "stage">>)
      BY <1>1, <1>3, CleanGrow
    <2>2. Right(stage[p], p) /\ stage'[p] = stage[p]
      BY <1>3, <2>1 DEF Settled
    <2> SUFFICES ASSUME NEW q \in Cone[p], Known(q)' PROVE stage'[p][q] = {src'[q]}
      BY DEF Right
    <2>3. Known(q) /\ src'[q] = src[q]
      BY <1>0, <1>3
    <2> QED
      BY <2>2, <2>3 DEF Right
  <1>4. ASSUME Clean(<<p, "dist">>)'
        PROVE  Right(dist[p], p)' /\ (dist[p] = Merge({p} \union Runtime[p]))'
    <2>1. Clean(<<p, "dist">>)
      BY <1>1, <1>4, CleanGrow
    <2>2. Right(dist[p], p)'
      <3>1. Right(dist[p], p) /\ dist'[p] = dist[p]
        BY <1>4, <2>1 DEF Settled
      <3> SUFFICES ASSUME NEW q \in Cone[p], Known(q)' PROVE dist'[p][q] = {src'[q]}
        BY DEF Right
      <3>2. Known(q) /\ src'[q] = src[q]
        BY <1>0, <1>4
      <3> QED
        BY <3>1, <3>2 DEF Right
    <2>3. ASSUME NEW d \in {p} \union Runtime[p] PROVE stage'[d] = stage[d]
      <3>1. <<d, "stage">> \in Upstream[<<p, "dist">>] /\ d \in Proj
        BY StageUp
      <3>2. Clean(<<d, "stage">>)'
        BY <1>1, <1>4, <3>1, UpTrans DEF Clean
      <3> QED
        BY <3>1, <3>2
    <2>4. Merge({p} \union Runtime[p])' = Merge({p} \union Runtime[p])
      BY <2>3 DEF Merge
    <2> QED
      BY <1>4, <2>1, <2>2, <2>4 DEF Settled
  <1> QED
    BY <1>2, <1>3, <1>4

(* Building p against clean dependencies, from its current sources, gives   *)
(* the current revisions.                                                   *)
LEMMA BuildRight ==
  ASSUME TypeOK, Scope, Settled, NEW p \in Proj,
         \A d \in Deps[p] : Clean(<<d, "dist">>),
         NEW r \in Rev, Known(p) => r = src[p]
  PROVE  Right([View(p) EXCEPT ![p] = {r}], p)
  <1> SUFFICES ASSUME NEW q \in Cone[p], Known(q)
               PROVE  [View(p) EXCEPT ![p] = {r}][q] = {src[q]}
    BY DEF Right
  <1>1. q \in Proj /\ View(p) \in Tree
    BY ConeSelf, TreeTypes
  <1>2. CASE q = p
    BY <1>1, <1>2 DEF Tree
  <1>3. CASE q # p
    <2>1. View(p)[q] = {src[q]}
      BY <1>3, ViewRight
    <2> QED
      BY <1>1, <1>3, <2>1 DEF Tree
  <1> QED
    BY <1>2, <1>3

(* A build whose configure is clean, and that nobody has edited under its   *)
(* command or that of its configure, compiles the current revision.         *)
LEMMA CompiledRight ==
  ASSUME TypeOK, Configured, NEW p \in Proj, Known(p), Clean(<<p, "configure">>),
         NEW R \in SUBSET {src[p]}, NEW r \in R, NEW c \in ListsOf(p, R)
  PROVE  Compiled(c, r) = src[p]
  <1>1. parsed[p] = {src[p].lists}
    BY DEF Configured, Known, Racy
  <1>2. c = src[p].lists
    BY <1>1 DEF ListsOf
  <1>3. src[p] \in Rev /\ r = src[p]
    BY DEF TypeOK
  <1> QED
    BY <1>2, <1>3 DEF Compiled, Rev

(* Finishing the command of x.  Only the tree of x itself can be both new   *)
(* and clean, and all it was made from was clean before.                    *)
LEMMA SettledFinish ==
  ASSUME TypeOK, Scope, PlanSound, SeenCurrent, Configured, Settled,
         NEW x \in Edge, Finish(x)
  PROVE  Settled'
  <1>1. /\ x \in running /\ Done(x) /\ old' = Touched(x, old)
        /\ src' = src /\ seen' = seen /\ parsing' = parsing
    BY DEF Finish
  <1>2. \A p \in Proj : Touched(x, old)[p] \subseteq old'[p]
    BY <1>1
  <1> SUFFICES ASSUME NEW p \in Proj
               PROVE  /\ Clean(<<p, "build">>)' => Right(built[p], p)'
                      /\ Clean(<<p, "stage">>)' => Right(stage[p], p)'
                      /\ Clean(<<p, "dist">>)'  =>
                           /\ Right(dist[p], p)'
                           /\ (dist[p] = Merge({p} \union Runtime[p]))'
    BY DEF Settled
  <1>3. /\ Right(built'[p], p) => Right(built[p], p)'
        /\ Right(stage'[p], p) => Right(stage[p], p)'
        /\ Right(dist'[p], p)  => Right(dist[p], p)'
    BY <1>1 DEF Right, Known, Racy
  <1>4. <<p, "build">> \in Edge /\ <<p, "stage">> \in Edge /\ <<p, "dist">> \in Edge
    BY EdgeType DEF Phase
  <1>5. ASSUME Clean(<<p, "build">>)' PROVE Right(built'[p], p)
    <2>1. CASE x # <<p, "build">>
      <3>1. Clean(<<p, "build">>) /\ built'[p] = built[p]
        BY <1>1, <1>2, <1>4, <1>5, <2>1, CleanTouch, CommandFrame
      <3> QED
        BY <3>1 DEF Settled
    <2>2. CASE x = <<p, "build">>
      <3>1. PICK r \in seen[p], c \in ListsOf(p, seen[p]) :
             /\ built' = [built EXCEPT ![p] = [View(p) EXCEPT ![p] = {Compiled(c, r)}]]
             /\ parsed' = [parsed EXCEPT ![p] = {c}]
        BY <1>1, <2>2 DEF Done, BuildDone
      <3>2. Compiled(c, r) \in Rev /\ src[p] \in seen[p]
        BY <1>1, <2>2, CompiledType DEF TypeOK, Tree, SeenCurrent
      <3>3. Known(p) => Compiled(c, r) = src[p]
        <4>1. Clean(<<p, "configure">>)
          <5>1. /\ <<p, "configure">> \in Upstream[<<p, "build">>]
                /\ <<p, "configure">> \in Edge
            BY OwnUp, EdgeType DEF Phase, Earlier
          <5>2. Clean(<<p, "configure">>)'
            BY <1>4, <1>5, <5>1, UpTrans DEF Clean
          <5> QED
            BY <1>2, <2>2, <5>1, <5>2, CleanTouch
        <4>2. Known(p) => seen[p] \in SUBSET {src[p]}
          BY <3>2 DEF Known, Racy, One
        <4> QED
          BY <4>1, <4>2, CompiledRight
      <3>4. ASSUME NEW d \in Deps[p] PROVE Clean(<<d, "dist">>)
        <4>1. d \in Proj /\ d \in Cone[d] /\ "build" \in Phase /\ "dist" \in Phase
          BY GraphAssumption, ConeSelf DEF Phase
        <4>2. <<d, "dist">> \in Edge /\ <<d, "dist">> \in Upstream[<<p, "build">>]
          BY <4>1, DepUp, EdgeType
        <4>3. Clean(<<d, "dist">>)'
          BY <1>4, <1>5, <4>2, UpTrans DEF Clean
        <4> QED
          BY <1>2, <2>2, <4>2, <4>3, CleanTouch
      <3>5. Right([View(p) EXCEPT ![p] = {Compiled(c, r)}], p)
        BY <3>2, <3>3, <3>4, BuildRight
      <3>6. built'[p] = [View(p) EXCEPT ![p] = {Compiled(c, r)}]
        BY <3>1 DEF TypeOK
      <3> QED
        BY <3>5, <3>6
    <2> QED
      BY <2>1, <2>2
  <1>6. ASSUME Clean(<<p, "stage">>)' PROVE Right(stage'[p], p)
    <2>1. CASE x # <<p, "stage">>
      <3>1. Clean(<<p, "stage">>) /\ stage'[p] = stage[p]
        BY <1>1, <1>2, <1>4, <1>6, <2>1, CleanTouch, CommandFrame
      <3> QED
        BY <3>1 DEF Settled
    <2>2. CASE x = <<p, "stage">>
      <3>1. <<p, "build">> \in Upstream[<<p, "stage">>]
        BY OwnUp DEF Phase, Earlier
      <3>2. Clean(<<p, "build">>)'
        BY <1>4, <1>6, <3>1, UpTrans DEF Clean
      <3>3. Clean(<<p, "build">>)
        BY <1>2, <1>4, <2>2, <3>2, CleanTouch
      <3>4. stage'[p] = built[p]
        BY <1>1, <2>2 DEF Done, StageDone, TypeOK
      <3> QED
        BY <3>3, <3>4 DEF Settled
    <2> QED
      BY <2>1, <2>2
  <1>7. ASSUME Clean(<<p, "dist">>)'
        PROVE  Right(dist'[p], p) /\ (dist[p] = Merge({p} \union Runtime[p]))'
    <2>1. ASSUME NEW d \in {p} \union Runtime[p]
          PROVE  Clean(<<d, "stage">>) /\ stage'[d] = stage[d]
      <3>1. /\ <<d, "stage">> \in Upstream[<<p, "dist">>]
            /\ <<d, "stage">> \in Edge /\ d \in Proj
        BY StageUp, EdgeType DEF Phase
      <3>2. x # <<d, "stage">>
        BY <1>2, <1>4, <1>7, <3>1, CleanTouch
      <3>3. Clean(<<d, "stage">>)'
        BY <1>4, <1>7, <3>1, UpTrans DEF Clean
      <3> QED
        BY <1>1, <1>2, <3>1, <3>2, <3>3, CleanTouch, CommandFrame
    <2>2. Merge({p} \union Runtime[p])' = Merge({p} \union Runtime[p])
      BY <2>1 DEF Merge
    <2>3. CASE x # <<p, "dist">>
      <3>1. Clean(<<p, "dist">>) /\ dist'[p] = dist[p]
        BY <1>1, <1>2, <1>4, <1>7, <2>3, CleanTouch, CommandFrame
      <3> QED
        BY <2>2, <3>1 DEF Settled
    <2>4. CASE x = <<p, "dist">>
      <3>1. dist'[p] = Merge({p} \union Runtime[p])
        BY <1>1, <2>4 DEF Done, DistDone, TypeOK
      <3>2. Right(Merge({p} \union Runtime[p]), p)
        BY <2>1, MergeRight
      <3> QED
        BY <2>2, <3>1, <3>2
    <2> QED
      BY <2>3, <2>4
  <1> QED
    BY <1>3, <1>5, <1>6, <1>7

(* A command that fails leaves its stamp old, whatever it did to its tree.  *)
LEMMA SettledFail ==
  ASSUME TypeOK, Settled, NEW e \in Edge, Old(e)', Done(e) \/ PartlyDone(e),
         \A p \in Proj : old[p] \subseteq old'[p], UNCHANGED <<src, seen, parsing>>
  PROVE  Settled'
  <1>1. ASSUME NEW p \in Proj
        PROVE  /\ Clean(<<p, "build">>)' => built'[p] = built[p]
               /\ Clean(<<p, "stage">>)' => stage'[p] = stage[p]
               /\ Clean(<<p, "dist">>)' => dist'[p] = dist[p]
    <2>1. /\ <<p, "build">> \in Edge /\ <<p, "stage">> \in Edge
          /\ <<p, "dist">> \in Edge
      BY EdgeType DEF Phase
    <2>2. /\ Clean(<<p, "build">>)' => e # <<p, "build">>
          /\ Clean(<<p, "stage">>)' => e # <<p, "stage">>
          /\ Clean(<<p, "dist">>)' => e # <<p, "dist">>
      BY <2>1, UpSelf DEF Clean
    <2> QED
      BY <2>2, CommandFrame
  <1>2. ASSUME NEW q \in Proj, Known(q)' PROVE Known(q) /\ src'[q] = src[q]
    BY <1>2 DEF Known, Racy
  <1> QED
    BY <1>1, <1>2, SettledGrow

(* A new revision of the sources of x shows in the stamps of x, if they are *)
(* among the inputs of its build.                                           *)
LEMMA SettledEdit ==
  ASSUME TypeOK, Settled, NEW x \in Proj, EditSource(x) \/ EditLists(x),
         \A p \in Proj : old[p] \subseteq old'[p],
         x \in Globbed => \E f \in {"configure", "build"} : f \in old'[x]
  PROVE  Settled'
  <1>0. PICK r : NewRevision(x, r)
    BY DEF EditSource, EditLists
  <1>1. ASSUME NEW p \in Proj, NEW ph \in {"build", "stage", "dist"}, NEW q \in Cone[p],
               Clean(<<p, ph>>)', Known(q)'
        PROVE  Known(q) /\ src'[q] = src[q]
    <2>1. q \in Proj
      BY ConeSelf
    <2>2. CASE q = x
      <3>1. x \in Globbed
        BY <1>1, <2>2 DEF Known
      <3>2. PICK f \in {"configure", "build"} : f \in old'[x]
        BY <3>1
      <3>3. <<x, f>> \in Upstream[<<p, ph>>]
        BY <1>1, <2>2, BuildUp
      <3> QED
        BY <1>1, <3>2, <3>3 DEF Clean, Old
    <2>3. CASE q # x
      <3>1. src'[q] = src[q] /\ seen'[q] = seen[q]
        BY <1>0, <2>1, <2>3 DEF NewRevision, TypeOK, Tree
      <3>2. parsing'[q] = parsing[q]
        BY <2>1, <2>3 DEF EditSource, EditLists, TypeOK
      <3> QED
        BY <1>1, <3>1, <3>2 DEF Known, Racy
    <2> QED
      BY <2>2, <2>3
  <1>2. UNCHANGED trees
    BY <1>0 DEF NewRevision
  <1> QED
    BY <1>1, <1>2, SettledGrow DEF trees

(* A command that starts forgets the edits its predecessor raced with; its  *)
(* stamp is old.                                                            *)
LEMMA SettledStart ==
  ASSUME TypeOK, Settled, PlanSound, NEW e \in Edge, Start(e)
  PROVE  Settled'
  <1>1. Old(e) /\ old' = old
    BY DEF Start, PlanSound
  <1>2. ASSUME NEW p \in Proj, NEW ph \in {"build", "stage", "dist"}, NEW q \in Cone[p],
               Clean(<<p, ph>>)', Known(q)'
        PROVE  Known(q) /\ src'[q] = src[q]
    <2>1. q \in Proj
      BY ConeSelf
    <2>2. e # <<q, "build">> /\ e # <<q, "configure">>
      BY <1>1, <1>2, BuildUp DEF Clean, Old
    <2>3. e = <<e[1], e[2]>> /\ e[1] \in Proj
      BY EdgeType
    <2>4. src'[q] = src[q] /\ seen'[q] = seen[q] /\ parsing'[q] = parsing[q]
      BY <2>1, <2>2, <2>3 DEF Start, StartReading, TypeOK, Tree
    <2> QED
      BY <1>2, <2>4 DEF Known, Racy
  <1>3. UNCHANGED trees
    BY DEF Start
  <1> QED
    BY <1>1, <1>2, <1>3, SettledGrow DEF trees

(* A build by hand in a clean build directory uses clean dependencies.      *)
LEMMA SettledDirect ==
  ASSUME TypeOK, Scope, Configured, Settled, NEW x \in Proj, DirectBuild(x)
  PROVE  Scope' /\ Settled'
  <1>0. PICK c \in ListsOf(x, {src[x]}) :
          built' = [built EXCEPT ![x] = [View(x) EXCEPT ![x] = {Compiled(c, src[x])}]]
    BY DEF DirectBuild
  <1> DEFINE new == [View(x) EXCEPT ![x] = {Compiled(c, src[x])}]
  <1>1. /\ built' = [built EXCEPT ![x] = new]
        /\ UNCHANGED <<src, seen, parsing, old, stage, dist>>
    BY <1>0 DEF DirectBuild
  <1>2. ASSUME NEW q \in Proj \ Cone[x] PROVE new[q] = {}
    BY <1>2, ConeSelf, ScopeRead, TreeTypes DEF Tree
  <1>3. ASSUME Clean(<<x, "build">>) PROVE Right(new, x)
    <2>1. ASSUME NEW d \in Deps[x] PROVE Clean(<<d, "dist">>)
      <3>1. d \in Proj /\ d \in Cone[d] /\ "build" \in Phase /\ "dist" \in Phase
        BY GraphAssumption, ConeSelf DEF Phase
      <3>2. <<x, "build">> \in Edge /\ <<d, "dist">> \in Upstream[<<x, "build">>]
        BY <3>1, DepUp, EdgeType
      <3> QED
        BY <1>3, <3>2, CleanUp
    <2>2. Compiled(c, src[x]) \in Rev
      BY CompiledType DEF TypeOK
    <2>3. Clean(<<x, "configure">>)
      <3>1. <<x, "configure">> \in Upstream[<<x, "build">>]
        BY OwnUp DEF Phase, Earlier
      <3> QED
        BY <1>3, <3>1, CleanUp, EdgeType DEF Phase
    <2>4. Known(x) => Compiled(c, src[x]) = src[x]
      BY <2>3, CompiledRight
    <2> QED
      BY <2>1, <2>2, <2>4, BuildRight
  <1> HIDE DEF new
  <1>4. Scope'
    BY <1>1, <1>2 DEF Scope, TypeOK
  <1>5. ASSUME NEW p \in Proj, Clean(<<p, "build">>) PROVE Right(built'[p], p)
    <2>1. CASE p = x
      BY <1>1, <1>3, <1>5, <2>1 DEF TypeOK
    <2>2. CASE p # x
      BY <1>1, <1>5, <2>2 DEF Settled, TypeOK
    <2> QED
      BY <2>1, <2>2
  <1>6. Settled'
    BY <1>1, <1>5 DEF Settled, Clean, Old, Right, Known, Racy, Merge
  <1> QED
    BY <1>4, <1>6

-----------------------------------------------------------------------------
(* The inductive invariant.                                                 *)

(* In a fresh build directory every stamp is missing and every tree empty.  *)
LEMMA IndInit == Init => IndInv
  <1> SUFFICES ASSUME Init PROVE IndInv
    OBVIOUS
  <1>1. \A p \in Proj, ph \in Phase : ~ Clean(<<p, ph>>)
    BY UpSelf, EdgeType DEF Init, Clean, Old
  <1>2. Settled
    BY <1>1 DEF Settled, Phase
  <1>3. Scope
    BY ConeSelf DEF Init, Scope, Empty
  <1>4. PlanSound /\ SeenCurrent
    BY DEF Init, PlanSound, SeenCurrent
  <1>5. Configured
    BY <1>1 DEF Configured, Phase
  <1> QED
    BY <1>2, <1>3, <1>4, <1>5, TypeInit DEF IndInv

(* A step that freshens no stamp keeps what the running commands could have *)
(* read, if it leaves the sources alone and starts nothing.                 *)
LEMMA SeenGrow ==
  ASSUME SeenCurrent, running' \subseteq running, UNCHANGED <<src, seen, parsing>>,
         \A p \in Proj : old[p] \subseteq old'[p]
  PROVE  SeenCurrent'
  <1>1. \A p \in Proj : Clean(<<p, "configure">>)' => Clean(<<p, "configure">>)
    BY CleanGrow, EdgeType DEF Phase
  <1> QED
    BY <1>1 DEF SeenCurrent

(* What a command that runs could have read holds the current revision, and *)
(* lists that are edited make its configure old.                            *)
LEMMA SeenStep == TypeOK /\ PlanSound /\ SeenCurrent /\ [Next]_vars => SeenCurrent'
  <1> SUFFICES ASSUME TypeOK, PlanSound, SeenCurrent, [Next]_vars PROVE SeenCurrent'
    OBVIOUS
  <1>1. ASSUME running' = running, UNCHANGED <<src, seen, parsing>>,
               \A p \in Proj : old[p] \subseteq old'[p]
        PROVE  SeenCurrent'
    BY <1>1, SeenGrow
  <1>2. ASSUME NEW T \in SUBSET Edge, StartNinja(T) PROVE SeenCurrent'
    BY <1>1, <1>2 DEF StartNinja
  <1>3. ASSUME NEW e \in Edge, Start(e) PROVE SeenCurrent'
    <2>1. e = <<e[1], e[2]>> /\ e[1] \in Proj /\ UNCHANGED <<src, old>>
      BY <1>3, EdgeType DEF Start
    <2> SUFFICES ASSUME NEW p \in Proj
                 PROVE  /\ <<p, "build">> \in running' =>
                             /\ src'[p] \in seen'[p]
                             /\ Clean(<<p, "configure">>)' => \A s \in seen'[p] : s.lists = src'[p].lists
                        /\ <<p, "configure">> \in running' => src'[p].lists \in parsing'[p]
      BY DEF SeenCurrent
    <2>2. Clean(<<p, "configure">>)' = Clean(<<p, "configure">>)
      BY <2>1 DEF Clean, Old
    <2>3. e = <<p, "build">> => seen'[p] = {src[p]}
      BY <1>3 DEF Start, StartReading, TypeOK, Tree
    <2>4. e # <<p, "build">> => seen'[p] = seen[p]
      BY <1>3, <2>1 DEF Start, StartReading, TypeOK, Tree
    <2>5. e = <<p, "configure">> => parsing'[p] = {src[p].lists}
      BY <1>3 DEF Start, StartReading, TypeOK
    <2>6. e # <<p, "configure">> => parsing'[p] = parsing[p]
      BY <1>3, <2>1 DEF Start, StartReading, TypeOK
    <2>7. running' = running \union {e}
      BY <1>3 DEF Start
    <2>8. <<p, "build">> \in running' =>
            /\ src'[p] \in seen'[p]
            /\ Clean(<<p, "configure">>)' => \A s \in seen'[p] : s.lists = src'[p].lists
      BY <2>1, <2>2, <2>3, <2>4, <2>7 DEF SeenCurrent
    <2>9. <<p, "configure">> \in running' => src'[p].lists \in parsing'[p]
      BY <2>1, <2>5, <2>6, <2>7 DEF SeenCurrent
    <2> QED
      BY <2>8, <2>9
  <1>4. ASSUME NEW x \in Edge, Finish(x) PROVE SeenCurrent'
    <2>1. /\ x \in running /\ running' \subseteq running /\ UNCHANGED <<src, seen, parsing>>
          /\ x \in todo /\ old' = Touched(x, old)
      BY <1>4 DEF Finish, TypeOK
    <2>2. ASSUME NEW p \in Proj, <<p, "build">> \in running, Clean(<<p, "configure">>)'
          PROVE  Clean(<<p, "configure">>)
      <3>1. /\ <<p, "configure">> \in Upstream[<<p, "build">>]
            /\ <<p, "configure">> \in Edge /\ <<p, "configure">> # <<p, "build">>
        BY OwnUp, EdgeType DEF Phase, Earlier
      <3>2. Upstream[<<p, "build">>] \intersect todo = {<<p, "build">>}
        BY <2>2 DEF PlanSound
      <3>3. x # <<p, "configure">>
        BY <2>1, <3>1, <3>2
      <3>4. \A q \in Proj : Touched(x, old)[q] \subseteq old'[q]
        BY <2>1
      <3> QED
        BY <2>2, <3>1, <3>3, <3>4, CleanTouch
    <2> QED
      BY <2>1, <2>2 DEF SeenCurrent
  <1>5. ASSUME NEW e \in Edge, Fail(e) \/ FailAfterTouch(e) PROVE SeenCurrent'
    <2>1. running' \subseteq running /\ UNCHANGED <<src, seen, parsing>>
      BY <1>5 DEF Fail, FailAfterTouch
    <2> QED
      BY <1>5, <2>1, FailGrows, SeenGrow
  <1>6. ASSUME NEW x \in Proj, EditSource(x) \/ EditLists(x) PROVE SeenCurrent'
    <2>1. PICK r : NewRevision(x, r)
      BY <1>6 DEF EditSource, EditLists
    <2>2. \A p \in Proj : old[p] \subseteq old'[p]
      BY <1>6 DEF EditSource, EditLists, TypeOK
    <2>3. \A p \in Proj : Clean(<<p, "configure">>)' => Clean(<<p, "configure">>)
      BY <2>2, CleanGrow, EdgeType DEF Phase
    <2>4. running' = running
      BY <2>1 DEF NewRevision
    <2>5. \A p \in Proj \ {x} : src'[p] = src[p] /\ seen'[p] = seen[p] /\ parsing'[p] = parsing[p]
      BY <1>6, <2>1 DEF EditSource, EditLists, NewRevision, TypeOK, Tree
    <2>6. src'[x] = r /\ (<<x, "build">> \in running => seen'[x] = seen[x] \union {r})
      BY <2>1 DEF NewRevision, TypeOK, Tree
    <2>7. ASSUME NEW p \in Proj, p # x
          PROVE  /\ <<p, "build">> \in running' => src'[p] \in seen'[p]
                 /\ <<p, "build">> \in running' /\ Clean(<<p, "configure">>)' =>
                      \A s \in seen'[p] : s.lists = src'[p].lists
                 /\ <<p, "configure">> \in running' => src'[p].lists \in parsing'[p]
      BY <2>3, <2>4, <2>5, <2>7 DEF SeenCurrent
    <2>8. <<x, "build">> \in running' => src'[x] \in seen'[x]
      BY <2>4, <2>6
    <2>9. CASE EditSource(x)
      <3>1. src'[x].lists = src[x].lists /\ parsing'[x] = parsing[x]
        BY <2>9 DEF EditSource, NewRevision, TypeOK
      <3>2. ASSUME <<x, "build">> \in running', Clean(<<x, "configure">>)', NEW s \in seen'[x]
            PROVE  s.lists = src'[x].lists
        <4>1. <<x, "build">> \in running /\ Clean(<<x, "configure">>)
          BY <2>3, <2>4, <3>2
        <4>2. CASE s \in seen[x]
          BY <3>1, <4>1, <4>2 DEF SeenCurrent
        <4>3. CASE s = r
          BY <2>6, <4>3
        <4> QED
          BY <2>6, <3>2, <4>1, <4>2, <4>3
      <3>3. <<x, "configure">> \in running' => src'[x].lists \in parsing'[x]
        BY <2>4, <3>1 DEF SeenCurrent
      <3> QED
        BY <2>7, <2>8, <3>2, <3>3 DEF SeenCurrent
    <2>10. CASE EditLists(x)
      <3>1. Old(<<x, "configure">>)' /\ <<x, "configure">> \in Edge
        BY <2>10, EdgeType DEF EditLists, Old, TypeOK, Phase
      <3>2. ~ Clean(<<x, "configure">>)'
        BY <3>1, UpSelf DEF Clean
      <3>3. <<x, "configure">> \in running => src'[x].lists \in parsing'[x]
        <4>1. src'[x] = [lists |-> src[x].lists + 1, files |-> src[x].files]
          BY <2>10 DEF EditLists, NewRevision, TypeOK
        <4>2. src'[x].lists = src[x].lists + 1
          BY <4>1
        <4> QED
          BY <2>10, <4>2 DEF EditLists, TypeOK
      <3>4. <<x, "configure">> \in running' => src'[x].lists \in parsing'[x]
        BY <2>4, <3>3
      <3>5. ASSUME <<x, "build">> \in running', Clean(<<x, "configure">>)', NEW s \in seen'[x]
            PROVE  s.lists = src'[x].lists
        BY <3>2, <3>5
      <3> QED
        BY <2>7, <2>8, <3>4, <3>5 DEF SeenCurrent
    <2> QED
      BY <1>6, <2>9, <2>10
  <1>7. ASSUME NEW x \in Proj, Expunge(x) PROVE SeenCurrent'
    BY <1>1, <1>7 DEF Expunge, TypeOK
  <1>8. ASSUME NEW x \in Proj, DirectBuild(x) PROVE SeenCurrent'
    BY <1>1, <1>8 DEF DirectBuild
  <1>9. ASSUME NEW x \in Proj, NEW ph \in Phase, RemoveStamp(x, ph) PROVE SeenCurrent'
    BY <1>1, <1>9 DEF RemoveStamp, TypeOK
  <1>10. CASE UNCHANGED vars
    BY <1>1, <1>10 DEF vars
  <1> QED
    BY <1>2, <1>3, <1>4, <1>5, <1>6, <1>7, <1>8, <1>9, <1>10 DEF Next, Ninja, Disturbance

(* A step that freshens no stamp, and leaves the sources alone, keeps       *)
(* Configured where it leaves the configuration of a clean configure.       *)
LEMMA ConfiguredGrow ==
  ASSUME Configured, \A p \in Proj : old[p] \subseteq old'[p],
         \A p \in Proj : Clean(<<p, "configure">>)' =>
            /\ src'[p].lists = src[p].lists /\ parsing'[p] = parsing[p]
            /\ One(parsing[p]) => parsed'[p] \in {parsed[p], {src[p].lists}}
  PROVE  Configured'
  <1> SUFFICES ASSUME NEW p \in Proj, Clean(<<p, "configure">>)', One(parsing'[p])
               PROVE  parsed'[p] = {src'[p].lists}
    BY DEF Configured, One
  <1>1. Clean(<<p, "configure">>)
    BY CleanGrow, EdgeType DEF Phase
  <1> QED
    BY <1>1 DEF Configured

(* What a command of p does to the configuration of a clean configure.      *)
LEMMA ParsedCommand ==
  ASSUME TypeOK, SeenCurrent, Configured, NEW e \in running, Done(e) \/ PartlyDone(e),
         NEW p \in Proj, e # <<p, "configure">>, Clean(<<p, "configure">>), One(parsing[p])
  PROVE  parsed'[p] = {src[p].lists}
  <1>1. e \in Edge /\ e = <<e[1], e[2]>> /\ e[1] \in Proj /\ e[2] \in Phase
    BY EdgeType DEF TypeOK
  <1>2. parsed[p] = {src[p].lists}
    BY DEF Configured
  <1>3. CASE e[1] # p
    BY <1>1, <1>2, <1>3 DEF Done, PartlyDone, ConfigureDone, BuildDone, StageDone, DistDone, TypeOK
  <1>4. CASE e[2] \in {"stage", "dist"}
    BY <1>2, <1>4 DEF Done, PartlyDone, StageDone, DistDone
  <1>5. CASE e = <<p, "build">>
    <2>1. src[p] \in seen[p] /\ \A s \in seen[p] : s.lists = src[p].lists
      BY <1>5 DEF SeenCurrent
    <2>2. ListsOf(p, seen[p]) = {src[p].lists}
      BY <1>2, <2>1 DEF ListsOf
    <2>3. CASE Done(e)
      BY <1>5, <2>2, <2>3 DEF Done, BuildDone, TypeOK
    <2>4. CASE PartlyDone(e)
      <3>1. parsed' = [parsed EXCEPT ![p] = ListsOf(p, seen[p])]
        BY <1>5, <2>4 DEF PartlyDone
      <3> QED
        BY <2>2, <3>1 DEF TypeOK
    <2> QED
      BY <2>3, <2>4
  <1> QED
    BY <1>1, <1>3, <1>4, <1>5 DEF Phase

(* Every step keeps Configured.                                             *)
LEMMA ConfiguredStep ==
  TypeOK /\ PlanSound /\ SeenCurrent /\ Configured /\ [Next]_vars => Configured'
  <1> SUFFICES ASSUME TypeOK, PlanSound, SeenCurrent, Configured, [Next]_vars PROVE Configured'
    OBVIOUS
  <1>0. ASSUME NEW p \in Proj, Old(<<p, "configure">>)' PROVE ~ Clean(<<p, "configure">>)'
    BY <1>0, UpSelf, EdgeType DEF Clean, Phase
  <1>1. ASSUME UNCHANGED <<src, parsing, parsed>>, \A p \in Proj : old[p] \subseteq old'[p]
        PROVE  Configured'
    BY <1>1, ConfiguredGrow
  <1>2. ASSUME NEW T \in SUBSET Edge, StartNinja(T) PROVE Configured'
    BY <1>1, <1>2 DEF StartNinja, trees
  <1>3. ASSUME NEW e \in Edge, Start(e) PROVE Configured'
    <2>1. UNCHANGED <<src, old, parsed>> /\ Old(e) /\ e = <<e[1], e[2]>> /\ e[1] \in Proj
      BY <1>3, EdgeType DEF Start, PlanSound, trees
    <2>2. ASSUME NEW p \in Proj, Clean(<<p, "configure">>)' PROVE parsing'[p] = parsing[p]
      <3>1. e # <<p, "configure">>
        BY <1>0, <2>1, <2>2 DEF Old
      <3> QED
        BY <1>3, <2>1, <3>1 DEF Start, StartReading, TypeOK
    <2> QED
      BY <2>1, <2>2, ConfiguredGrow
  <1>4. ASSUME NEW x \in Edge, Finish(x) PROVE Configured'
    <2>1. /\ x \in running /\ Done(x) /\ UNCHANGED <<src, parsing>>
          /\ \A p \in Proj : Touched(x, old)[p] \subseteq old'[p]
      BY <1>4 DEF Finish
    <2> SUFFICES ASSUME NEW p \in Proj, Clean(<<p, "configure">>)', One(parsing[p])
                 PROVE  parsed'[p] = {src[p].lists}
      BY <2>1 DEF Configured, One
    <2>2. CASE x = <<p, "configure">>
      <3>1. PICK c \in parsing[p] : parsed' = [parsed EXCEPT ![p] = {c}]
        BY <2>1, <2>2 DEF Done, ConfigureDone
      <3>2. c = src[p].lists
        BY <2>1, <2>2 DEF SeenCurrent, One
      <3> QED
        BY <3>1, <3>2 DEF TypeOK
    <2>3. CASE x # <<p, "configure">>
      <3>1. Clean(<<p, "configure">>)
        BY <2>1, <2>3, CleanTouch, EdgeType DEF Phase
      <3> QED
        BY <2>1, <2>3, <3>1, ParsedCommand
    <2> QED
      BY <2>2, <2>3
  <1>5. ASSUME NEW e \in Edge, Fail(e) \/ FailAfterTouch(e) PROVE Configured'
    <2>1. /\ e \in running
          /\ Done(e) \/ PartlyDone(e)
          /\ UNCHANGED <<src, parsing>>
      BY <1>5 DEF Fail, FailAfterTouch
    <2>2. (\A p \in Proj : old[p] \subseteq old'[p]) /\ Old(e)'
      BY <1>5, FailGrows
    <2>3. ASSUME NEW p \in Proj, Clean(<<p, "configure">>)', One(parsing[p])
          PROVE  parsed'[p] = {src[p].lists}
      <3>1. e # <<p, "configure">> /\ Clean(<<p, "configure">>)
        BY <1>0, <2>2, <2>3, CleanGrow, EdgeType DEF Phase
      <3> QED
        BY <2>1, <2>3, <3>1, ParsedCommand
    <2> QED
      BY <2>1, <2>2, <2>3, ConfiguredGrow
  <1>6. ASSUME NEW x \in Proj, EditSource(x) \/ EditLists(x) PROVE Configured'
    <2>1. PICK r : NewRevision(x, r)
      BY <1>6 DEF EditSource, EditLists
    <2>2. parsed' = parsed /\ \A p \in Proj : old[p] \subseteq old'[p]
      BY <1>6, <2>1 DEF EditSource, EditLists, NewRevision, trees, TypeOK
    <2>3. \A p \in Proj \ {x} : src'[p] = src[p] /\ parsing'[p] = parsing[p]
      BY <1>6, <2>1 DEF EditSource, EditLists, NewRevision, TypeOK
    <2>4. EditSource(x) => src'[x].lists = src[x].lists /\ parsing'[x] = parsing[x]
      BY DEF EditSource, NewRevision, TypeOK
    <2>5. EditLists(x) => ~ Clean(<<x, "configure">>)'
      BY <1>0 DEF EditLists, Old, TypeOK
    <2> QED
      BY <1>6, <2>2, <2>3, <2>4, <2>5, ConfiguredGrow
  <1>7. ASSUME NEW x \in Proj, Expunge(x) PROVE Configured'
    <2>1. UNCHANGED <<src, parsing>> /\ \A p \in Proj : old[p] \subseteq old'[p]
      BY <1>7 DEF Expunge, TypeOK
    <2>2. \A p \in Proj \ {x} : parsed'[p] = parsed[p]
      BY <1>7 DEF Expunge, TypeOK
    <2>3. ~ Clean(<<x, "configure">>)'
      BY <1>0, <1>7 DEF Expunge, Old, TypeOK, Phase
    <2> QED
      BY <2>1, <2>2, <2>3, ConfiguredGrow
  <1>8. ASSUME NEW x \in Proj, DirectBuild(x) PROVE Configured'
    <2>1. UNCHANGED <<src, parsing, old>>
      BY <1>8 DEF DirectBuild
    <2>2. PICK c \in ListsOf(x, {src[x]}) : parsed' = [parsed EXCEPT ![x] = {c}]
      BY <1>8 DEF DirectBuild
    <2>3. ASSUME Clean(<<x, "configure">>), One(parsing[x]) PROVE c = src[x].lists
      BY <2>2, <2>3 DEF Configured, ListsOf
    <2>4. \A p \in Proj \ {x} : parsed'[p] = parsed[p]
      BY <2>2 DEF TypeOK
    <2>5. parsed'[x] = {c}
      BY <2>2 DEF TypeOK
    <2>6. Clean(<<x, "configure">>)' = Clean(<<x, "configure">>)
      BY <2>1 DEF Clean, Old
    <2> QED
      BY <2>1, <2>3, <2>4, <2>5, <2>6, ConfiguredGrow
  <1>9. ASSUME NEW x \in Proj, NEW ph \in Phase, RemoveStamp(x, ph) PROVE Configured'
    BY <1>1, <1>9 DEF RemoveStamp, trees, TypeOK
  <1>10. CASE UNCHANGED vars
    BY <1>1, <1>10 DEF vars
  <1> QED
    BY <1>2, <1>3, <1>4, <1>5, <1>6, <1>7, <1>8, <1>9, <1>10 DEF Next, Ninja, Disturbance

(* Every step keeps Scope, PlanSound and Settled too.                       *)
LEMMA IndStep == IndInv /\ [Next]_vars => IndInv'
  <1> SUFFICES ASSUME TypeOK, Scope, PlanSound, SeenCurrent, Configured, Settled, [Next]_vars
               PROVE  Scope' /\ PlanSound' /\ Settled'
    BY TypeStep, SeenStep, ConfiguredStep DEF IndInv
  <1>1. ASSUME NEW T \in SUBSET Edge, StartNinja(T)
        PROVE  Scope' /\ PlanSound' /\ Settled'
    <2>1. UNCHANGED <<src, seen, parsing, old, conf, built, stage, dist>>
      BY <1>1 DEF StartNinja, trees
    <2>2. Scope' /\ Settled'
      BY <2>1 DEF Scope, Settled, Clean, Old, Right, Known, Racy, Merge
    <2> QED
      BY <1>1, <2>2, PlanStart
  <1>2. ASSUME NEW e \in Edge, Start(e) PROVE Scope' /\ PlanSound' /\ Settled'
    <2>1. Scope'
      BY <1>2 DEF Start, trees, Scope
    <2>2. PlanSound'
      BY <1>2 DEF Start, PlanSound, Old
    <2> QED
      BY <1>2, <2>1, <2>2, SettledStart
  <1>3. ASSUME NEW e \in Edge, Finish(e) PROVE Scope' /\ PlanSound' /\ Settled'
    <2>1. Done(e)
      BY <1>3 DEF Finish
    <2> QED
      BY <1>3, <2>1, ScopeCommand, PlanFinish, SettledFinish
  <1>4. ASSUME NEW e \in Edge, Fail(e) \/ FailAfterTouch(e)
        PROVE  Scope' /\ PlanSound' /\ Settled'
    <2>1. /\ e \in running
          /\ Done(e) \/ PartlyDone(e)
          /\ running' = running \ {e} /\ todo' = running'
          /\ UNCHANGED <<src, seen, parsing>>
      BY <1>4 DEF Fail, FailAfterTouch
    <2>2. (\A p \in Proj : old[p] \subseteq old'[p]) /\ Old(e)'
      BY <1>4, FailGrows
    <2>3. Scope'
      BY <2>1, ScopeCommand
    <2>4. PlanSound'
      BY <2>1, <2>2, PlanAbandon
    <2> QED
      BY <2>1, <2>2, <2>3, <2>4, SettledFail
  <1>5. ASSUME NEW x \in Proj, EditSource(x) \/ EditLists(x)
        PROVE  Scope' /\ PlanSound' /\ Settled'
    <2>1. PICK r : NewRevision(x, r)
      BY <1>5 DEF EditSource, EditLists
    <2>2. \A p \in Proj : old[p] \subseteq old'[p]
      BY <1>5 DEF EditSource, EditLists, TypeOK
    <2>3. x \in Globbed => \E f \in {"configure", "build"} : f \in old'[x]
      BY <1>5 DEF EditSource, EditLists, TypeOK
    <2>4. UNCHANGED <<todo, running>> /\ Scope'
      BY <2>1 DEF NewRevision, trees, Scope
    <2> QED
      BY <1>5, <2>2, <2>3, <2>4, PlanGrow, SettledEdit
  <1>6. ASSUME NEW x \in Proj, Expunge(x) PROVE Scope' /\ PlanSound' /\ Settled'
    <2>1. \A p \in Proj : old[p] \subseteq old'[p]
      BY <1>6 DEF Expunge, TypeOK
    <2>2. Scope'
      BY <1>6 DEF Expunge, Scope, Empty, TypeOK
    <2>3. UNCHANGED <<todo, running, src, seen, parsing>>
      BY <1>6 DEF Expunge
    <2>4. ASSUME NEW p \in Proj
          PROVE  /\ Clean(<<p, "build">>)' => built'[p] = built[p]
                 /\ Clean(<<p, "stage">>)' => stage'[p] = stage[p]
                 /\ Clean(<<p, "dist">>)' => dist'[p] = dist[p]
      <3>1. CASE p = x
        <4>1. \A ph \in Phase : Old(<<p, ph>>)'
          BY <1>6, <3>1 DEF Expunge, Old, TypeOK
        <4> QED
          BY <4>1, UpSelf, EdgeType DEF Clean, Phase
      <3>2. CASE p # x
        BY <1>6, <3>2 DEF Expunge, TypeOK
      <3> QED
        BY <3>1, <3>2
    <2>5. ASSUME NEW q \in Proj, Known(q)' PROVE Known(q) /\ src'[q] = src[q]
      BY <2>3, <2>5 DEF Known, Racy
    <2>6. Settled'
      BY <2>1, <2>4, <2>5, SettledGrow
    <2> QED
      BY <2>1, <2>2, <2>3, <2>6, PlanGrow
  <1>7. ASSUME NEW x \in Proj, DirectBuild(x) PROVE Scope' /\ PlanSound' /\ Settled'
    <2>1. UNCHANGED <<todo, running, old>>
      BY <1>7 DEF DirectBuild
    <2> QED
      BY <1>7, <2>1, PlanGrow, SettledDirect
  <1>8. ASSUME NEW x \in Proj, NEW ph \in Phase, RemoveStamp(x, ph)
        PROVE  Scope' /\ PlanSound' /\ Settled'
    <2>1. \A p \in Proj : old[p] \subseteq old'[p]
      BY <1>8 DEF RemoveStamp, TypeOK
    <2>2. UNCHANGED <<todo, running, src, seen, parsing, conf, built, stage, dist>>
      BY <1>8 DEF RemoveStamp, trees
    <2>3. ASSUME NEW q \in Proj, Known(q)' PROVE Known(q) /\ src'[q] = src[q]
      BY <2>2, <2>3 DEF Known, Racy
    <2>4. Settled'
      BY <2>1, <2>2, <2>3, SettledGrow
    <2> QED
      BY <2>1, <2>2, <2>4, PlanGrow DEF Scope
  <1>9. CASE UNCHANGED vars
    BY <1>9 DEF vars, Scope, PlanSound, Settled, Clean, Old, Right, Known, Racy, Merge
  <1> QED
    BY <1>1, <1>2, <1>3, <1>4, <1>5, <1>6, <1>7, <1>8, <1>9
       DEF Next, Ninja, Disturbance

(* The inductive invariant holds in every reachable state.                  *)
THEOREM Inductive == Spec => []IndInv
  BY IndInit, IndStep, PTL DEF Spec

-----------------------------------------------------------------------------
(* What `nothing to do` means.                                              *)

(* When ninja has nothing to do for p, the stamp of each phase is clean.    *)
LEMMA UpToDateClean ==
  ASSUME TypeOK, NEW p \in Proj, UpToDate(p)
  PROVE  Clean(<<p, "stage">>) /\ Clean(<<p, "dist">>)
  <1>1. ASSUME NEW ph \in Phase, NEW f \in Upstream[<<p, ph>>] PROVE ~ Old(f)
    <2>1. f[1] = p \/ \E d \in Deps[p] : f[1] \in Cone[d]
      BY EdgeType DEF Upstream
    <2>2. f[1] \in Cone[p]
      BY <2>1, ConeSelf, ConeClosed, ConeMono
    <2> QED
      BY <2>2 DEF UpToDate, Old
  <1> QED
    BY <1>1 DEF Clean, Phase

(* For every build graph: when ninja has nothing to do for p, its stage and *)
(* dist trees are of the current revision of all the stamps can tell of,    *)
(* whatever was edited, failed, deleted or expunged before.                 *)
THEOREM NothingLost == Spec => []NoLostEdit
  <1>1. IndInv => NoLostEdit
    BY UpToDateClean DEF IndInv, Settled, NoLostEdit
  <1> QED
    BY <1>1, Inductive, PTL

(* For every build graph: when ninja has nothing to do for p, its dist tree *)
(* is the union of the stage trees of p and its runtime deps.               *)
THEOREM DistFollowsStage == Spec => []DistMatchesStage
  <1>1. IndInv => DistMatchesStage
    BY UpToDateClean DEF IndInv, Settled, DistMatchesStage
  <1> QED
    BY <1>1, Inductive, PTL

(* For every build graph: no two commands ninja runs side by side meet in a *)
(* directory that one of them writes.                                       *)
THEOREM StampsSerialise == Spec => []NoTornReads
  <1>1. ASSUME TypeOK, PlanSound, NEW e \in running, NEW f \in running, e # f
        PROVE  Writes(e) \intersect (Reads(f) \union Writes(f)) = {}
    <2>1. /\ e \in Edge /\ e[1] \in Proj /\ e[2] \in Phase /\ e = <<e[1], e[2]>>
          /\ f \in Edge /\ f[1] \in Proj /\ f[2] \in Phase /\ f = <<f[1], f[2]>>
      BY <1>1, EdgeType DEF TypeOK
    <2>2. e \notin Upstream[f] /\ f \notin Upstream[e]
      BY <1>1 DEF TypeOK, PlanSound
    <2>3. e[1] # f[1]
      BY <2>1, <2>2, OwnUp DEF Phase, Earlier
    <2>4. e[2] \in {"stage", "dist"} => e[1] \notin Deps[f[1]] /\ e[1] \notin Runtime[f[1]]
      <3>1. e[1] \in Cone[e[1]]
        BY <2>1, ConeSelf
      <3>2. e[1] \notin Deps[f[1]]
        BY <2>1, <2>2, <3>1 DEF Upstream
      <3> QED
        BY <2>1, <3>2, GraphAssumption
    <2>5. CASE e[2] \in {"configure", "build"}
      BY <2>1, <2>3, <2>5 DEF Reads, Writes, Phase
    <2>6. CASE e[2] \in {"stage", "dist"}
      BY <2>1, <2>3, <2>4, <2>6 DEF Reads, Writes, Phase
    <2> QED
      BY <2>1, <2>5, <2>6 DEF Phase
  <1>2. IndInv => NoTornReads
    BY <1>1 DEF IndInv, NoTornReads
  <1> QED
    BY <1>2, Inductive, PTL

-----------------------------------------------------------------------------
(***************************************************************************)
(* The trees of the super-project build go together: no dist tree holds    *)
(* two revisions of a sub-project, and no build runs with a configuration  *)
(* made against other dependencies.  This says nothing of the sources, and *)
(* holds of racy edits and of sub-projects that are not globbed too.       *)
(***************************************************************************)

-----------------------------------------------------------------------------
(* What a tree is made of.                                                  *)

(* The trees that p's own are made from are upstream of each of its phases. *)
LEMMA SourcesUp ==
  ASSUME NEW p \in Proj, NEW ph \in Phase
  PROVE  /\ \A d \in Deps[p] : /\ d \in Proj
                               /\ <<d, "stage">> \in Upstream[<<p, ph>>]
                               /\ <<d, "dist">> \in Upstream[<<p, ph>>]
         /\ \A q \in Cone[p] \ {p} : q \in Proj /\ <<q, "stage">> \in Upstream[<<p, ph>>]
  <1>1. ASSUME NEW d \in Deps[p]
        PROVE  /\ d \in Proj
               /\ <<d, "stage">> \in Upstream[<<p, ph>>]
               /\ <<d, "dist">> \in Upstream[<<p, ph>>]
    <2>1. d \in Proj
      BY GraphAssumption
    <2>2. d \in Cone[d] /\ "stage" \in Phase /\ "dist" \in Phase
      BY <2>1, ConeSelf DEF Phase
    <2> QED  BY <2>1, <2>2, DepUp
  <1>2. ASSUME NEW q \in Cone[p], q # p
        PROVE  q \in Proj /\ <<q, "stage">> \in Upstream[<<p, ph>>]
    <2>1. PICK d \in Deps[p] : q \in Cone[d]
      BY <1>2, ConeSplit
    <2> QED  BY <1>2, <2>1, DepUp, ConeSelf DEF Phase
  <1> QED  BY <1>1, <1>2

(* What p finds of the others, if what it finds it in is made: their stage. *)
LEMMA ViewAgrees ==
  ASSUME TypeOK, Scope, Agreement, NEW p \in Proj,
         \A d \in Deps[p] : Made(<<d, "dist">>) /\ Made(<<d, "stage">>),
         NEW q \in Cone[p], q # p
  PROVE  View(p)[q] = stage[q][q]
  <1>1. q \in Proj
    BY ConeSelf
  <1>2. ASSUME NEW d \in Deps[p]
        PROVE  /\ dist[d][q] \subseteq stage[q][q] /\ stage[d][q] \subseteq stage[q][q]
               /\ q \in Cone[d] => dist[d][q] = stage[q][q]
    <2>1. d \in Proj /\ <<d, "dist">> \in Edge /\ <<d, "stage">> \in Edge
      BY GraphAssumption, EdgeType DEF Phase
    <2>2. \A r \in Cone[d] : dist[d][r] = stage[r][r]
      BY <2>1 DEF Agreement, Agreed
    <2>3. \A r \in Cone[d] \ {d} : stage[d][r] = stage[r][r]
      BY <2>1 DEF Agreement, Agreed, Agrees
    <2>4. q \notin Cone[d] => dist[d][q] = {} /\ stage[d][q] = {}
      BY <1>1, <2>1 DEF Scope
    <2> QED  BY <2>2, <2>3, <2>4
  <1>3. PICK d \in Deps[p] : q \in Cone[d]
    BY ConeSplit
  <1>4. Runtime[p] \subseteq Deps[p]
    BY GraphAssumption
  <1>5. View(p)[q] = UNION ({dist[r][q] : r \in Deps[p]} \union {stage[r][q] : r \in Runtime[p]})
    BY <1>1 DEF View
  <1>6. View(p)[q] \subseteq stage[q][q]
    BY <1>2, <1>4, <1>5
  <1>7. stage[q][q] \subseteq View(p)[q]
    BY <1>2, <1>3, <1>5
  <1> QED  BY <1>6, <1>7

(* What stage trees that are made add up to.                                *)
LEMMA MergeAgrees ==
  ASSUME TypeOK, Scope, Agreement, NEW p \in Proj,
         \A q \in Cone[p] : Made(<<q, "stage">>),
         NEW dirs \in SUBSET ({p} \union Runtime[p])
  PROVE  /\ \A q \in Cone[p] : Merge(dirs)[q] \subseteq stage[q][q]
         /\ \A q \in Proj : One(Merge(dirs)[q])
         /\ p \in dirs => \A q \in Cone[p] : Merge(dirs)[q] = stage[q][q]
  <1>1. \A d \in dirs : d \in Proj /\ d \in Cone[p]
    BY StageUp
  <1>2. \A q \in Cone[p] : q \in Proj /\ <<q, "stage">> \in Edge
    BY ConeSelf, EdgeType DEF Phase
  <1>3. ASSUME NEW q \in Cone[p], NEW d \in Cone[p]
        PROVE  /\ stage[d][q] \subseteq stage[q][q]
               /\ q \in Cone[d] => stage[d][q] = stage[q][q]
    <2>1. \A r \in Cone[d] \ {d} : stage[d][r] = stage[r][r]
      BY <1>2 DEF Agreement, Agreed, Agrees
    <2>2. q \notin Cone[d] => stage[d][q] = {}
      BY <1>2 DEF Scope
    <2> QED  BY <2>1, <2>2
  <1>4. \A q \in Proj : Merge(dirs)[q] = UNION {stage[d][q] : d \in dirs}
    BY DEF Merge
  <1>5. ASSUME NEW q \in Cone[p] PROVE Merge(dirs)[q] \subseteq stage[q][q]
    <2>1. \A d \in dirs : stage[d][q] \subseteq stage[q][q]
      BY <1>1, <1>3
    <2>2. Merge(dirs)[q] = UNION {stage[d][q] : d \in dirs}
      BY <1>2, <1>4
    <2> QED  BY <2>1, <2>2
  <1>6. ASSUME NEW q \in Proj PROVE One(Merge(dirs)[q])
    <2>1. CASE q \in Cone[p]
      <3>1. One(stage[q][q])
        BY <1>2, <2>1 DEF Agreement, Agreed, Agrees
      <3> QED  BY <1>5, <2>1, <3>1 DEF One
    <2>2. CASE q \notin Cone[p]
      <3>1. Merge(dirs)[q] = {}
        BY <2>2, ScopeRead
      <3> QED  BY <3>1 DEF One
    <2> QED  BY <2>1, <2>2
  <1>7. ASSUME p \in dirs, NEW q \in Cone[p] PROVE stage[q][q] \subseteq Merge(dirs)[q]
    <2>1. stage[p][q] = stage[q][q]
      BY <1>3, <1>7, ConeSelf
    <2>2. Merge(dirs)[q] = UNION {stage[d][q] : d \in dirs}
      BY <1>2, <1>4
    <2> QED  BY <1>7, <2>1, <2>2
  <1> QED  BY <1>5, <1>6, <1>7

(* What the build of p makes goes with what it was built from.              *)
LEMMA BuildAgrees ==
  ASSUME TypeOK, Scope, Agreement, NEW p \in Proj,
         \A d \in Deps[p] : Made(<<d, "dist">>) /\ Made(<<d, "stage">>),
         NEW r \in Rev
  PROVE  Agrees([View(p) EXCEPT ![p] = {r}], p)
  <1>1. View(p) \in Tree
    BY TreeTypes
  <1>2. One([View(p) EXCEPT ![p] = {r}][p])
    BY <1>1 DEF One, Tree
  <1>3. ASSUME NEW q \in Cone[p], q # p
        PROVE  [View(p) EXCEPT ![p] = {r}][q] = stage[q][q]
    BY <1>1, <1>3, ViewAgrees, ConeSelf DEF Tree
  <1> QED  BY <1>2, <1>3 DEF Agrees

-----------------------------------------------------------------------------
(* What is made.                                                            *)

(* What is upstream of something made is made.                              *)
LEMMA MadeUp ==
  ASSUME TypeOK, PlanClosed, NEW f \in Edge, Made(f), NEW g \in Upstream[f]
  PROVE  Made(g)
  <1>1. CASE Clean(f)
    BY <1>1, CleanUp DEF Made
  <1>2. CASE \E e \in todo : f \in Upstream[e] /\ f \notin todo
    <2>1. PICK e \in todo : f \in Upstream[e] \ todo
      BY <1>2
    <2>2. e \in Edge
      BY DEF TypeOK
    <2>3. g \in Upstream[e] /\ g \in Upstream[g]
      BY <2>1, <2>2, UpTrans, UpSelf
    <2>4. g \notin todo
      BY <2>1 DEF PlanClosed
    <2> QED  BY <2>3, <2>4 DEF Made
  <1> QED  BY <1>1, <1>2 DEF Made

(* A running command finds everything it reads made, and nothing it reads   *)
(* is made from what it makes.                                              *)
LEMMA RunningReads ==
  ASSUME TypeOK, PlanSound, PlanClosed, NEW x \in running,
         NEW g \in Upstream[x], g # x
  PROVE  Made(g) /\ x \notin Upstream[g]
  <1>1. x \in todo /\ g \notin todo
    BY DEF TypeOK, PlanSound
  <1>2. Upstream[g] \intersect todo = {}
    BY <1>1 DEF PlanClosed
  <1> QED  BY <1>1, <1>2 DEF Made

(* Once an edge is finished, what else is made was so before, without it.   *)
LEMMA MadeFinish ==
  ASSUME TypeOK, PlanSound, PlanClosed, NEW x \in Edge, Finish(x),
         NEW f \in Edge, Made(f)', f # x
  PROVE  Made(f) /\ x \notin Upstream[f]
  <1>1. /\ x \in running /\ x \in todo /\ todo' = todo \ {x}
        /\ old' = Touched(x, old)
    BY DEF Finish, TypeOK
  <1>2. CASE Clean(f)'
    BY <1>1, <1>2, CleanTouch DEF Made
  <1>3. CASE \E e \in todo' : f \in Upstream[e] /\ f \notin todo'
    <2>1. PICK e \in todo' : f \in Upstream[e] /\ f \notin todo'
      BY <1>3
    <2>2. e \in todo /\ f \notin todo
      BY <1>1, <2>1
    <2>3. Upstream[f] \intersect todo = {}
      BY <2>1, <2>2 DEF PlanClosed
    <2> QED  BY <1>1, <2>1, <2>2, <2>3 DEF Made
  <1> QED  BY <1>2, <1>3 DEF Made

(* So it is when a command fails and the plan is given up.                  *)
LEMMA MadeAbandon ==
  ASSUME TypeOK, PlanSound, PlanClosed, NEW x \in running, Old(x)',
         running' = running \ {x}, todo' = running',
         \A p \in Proj : old[p] \subseteq old'[p],
         NEW f \in Edge, Made(f)'
  PROVE  Made(f) /\ x \notin Upstream[f]
  <1>1. CASE Clean(f)'
    <2>1. x \notin Upstream[f]
      BY <1>1 DEF Clean
    <2> QED  BY <1>1, <2>1, CleanGrow DEF Made
  <1>2. CASE \E e \in todo' : f \in Upstream[e] /\ f \notin todo'
    <2>1. PICK e \in running : f \in Upstream[e] /\ f \notin todo' /\ e \in todo'
      BY <1>2
    <2>2. e \in todo /\ x \in todo /\ Upstream[e] \intersect todo = {e}
      BY DEF TypeOK, PlanSound
    <2>3. f \notin todo
      BY <2>1, <2>2
    <2>4. Upstream[f] \intersect todo = {}
      BY <2>1, <2>2, <2>3 DEF PlanClosed
    <2> QED  BY <2>1, <2>2, <2>3, <2>4 DEF Made
  <1> QED  BY <1>1, <1>2 DEF Made

(* Where the plan stays, older stamps make nothing.                         *)
LEMMA MadeGrow ==
  ASSUME \A p \in Proj : old[p] \subseteq old'[p], todo' = todo,
         NEW f \in Edge, Made(f)'
  PROVE  Made(f)
  BY CleanGrow DEF Made

-----------------------------------------------------------------------------
(* The plan has no holes.                                                   *)

LEMMA ClosedStart ==
  ASSUME TypeOK, NEW T \in SUBSET Edge, StartNinja(T)
  PROVE  PlanClosed' /\ \A f \in Edge : Made(f)' => Clean(f)
  <1>1. todo' = Plan(T) /\ old' = old
    BY DEF StartNinja
  <1>2. ASSUME NEW e \in todo', NEW f \in Upstream[e], f \notin todo' PROVE Clean(f) /\ f \in Edge
    <2>1. PICK t \in T : e \in Upstream[t]
      BY <1>1 DEF Plan
    <2>2. e \in Edge
      BY <2>1, UpSelf
    <2>3. f \in Edge /\ f \in Upstream[t]
      BY <2>1, <2>2, UpSelf, UpTrans
    <2> QED  BY <1>1, <1>2, <2>3 DEF Plan
  <1>3. \A g \in todo' : ~ Clean(g)
    BY <1>1 DEF Plan
  <1>4. PlanClosed'
    BY <1>2, <1>3, CleanUp DEF PlanClosed
  <1>5. ASSUME NEW f \in Edge, Made(f)' PROVE Clean(f)
    BY <1>1, <1>2, <1>5 DEF Made, Clean, Old
  <1> QED  BY <1>4, <1>5

LEMMA ClosedFinish ==
  ASSUME TypeOK, PlanSound, PlanClosed, NEW x \in Edge, Finish(x)
  PROVE  PlanClosed'
  <1>1. x \in running /\ todo' = todo \ {x}
    BY DEF Finish
  <1>2. Upstream[x] \intersect todo = {x}
    BY <1>1 DEF PlanSound
  <1> QED  BY <1>1, <1>2 DEF PlanClosed

LEMMA ClosedAbandon ==
  ASSUME TypeOK, PlanSound, PlanClosed, running' \subseteq running, todo' = running'
  PROVE  PlanClosed'
  <1>1. ASSUME NEW e \in todo', NEW f \in Upstream[e], f \notin todo'
        PROVE  Upstream[f] \intersect todo' = {}
    <2>1. e \in todo /\ Upstream[e] \intersect todo = {e} /\ running' \subseteq todo
      BY DEF TypeOK, PlanSound
    <2>2. f \notin todo
      BY <1>1, <2>1
    <2> QED  BY <2>1, <2>2 DEF PlanClosed
  <1> QED  BY <1>1 DEF PlanClosed

-----------------------------------------------------------------------------
(* What was made still goes together.                                       *)

(* As long as no tree upstream of it changes.                               *)
LEMMA AgreedFrame ==
  ASSUME NEW f \in Edge, Agreed(f),
         f[2] = "configure" => conf'[f[1]] = conf[f[1]],
         f[2] = "build" => built'[f[1]] = built[f[1]],
         \A q \in Proj : <<q, "stage">> \in Upstream[f] => stage'[q] = stage[q],
         \A q \in Proj : <<q, "dist">> \in Upstream[f] => dist'[q] = dist[q]
  PROVE  Agreed(f)'
  <1> DEFINE p == f[1]
  <1>1. p \in Proj /\ f[2] \in Phase /\ f = <<p, f[2]>>
    BY EdgeType
  <1>2. \A d \in Deps[p] : d \in Proj /\ stage'[d] = stage[d] /\ dist'[d] = dist[d]
    BY <1>1, SourcesUp
  <1>3. \A q \in Cone[p] \ {p} : q \in Proj /\ stage'[q] = stage[q]
    BY <1>1, SourcesUp
  <1>4. f \in Upstream[f]
    BY UpSelf
  <1>5. CASE f[2] = "configure"
    <2>1. Runtime[p] \subseteq Deps[p]
      BY <1>1, GraphAssumption
    <2>2. {dist[d] : d \in Deps[p]} = {dist'[d] : d \in Deps[p]}
      BY <1>2
    <2>3. ASSUME NEW q \in Proj
          PROVE  UNION ({dist[d][q] : d \in Deps[p]} \union {stage[d][q] : d \in Runtime[p]})
                 = UNION ({dist'[d][q] : d \in Deps[p]} \union {stage'[d][q] : d \in Runtime[p]})
      <3>1. {dist[d][q] : d \in Deps[p]} = {dist'[d][q] : d \in Deps[p]}
        BY <1>2
      <3>2. {stage[d][q] : d \in Runtime[p]} = {stage'[d][q] : d \in Runtime[p]}
        BY <1>2, <2>1
      <3> QED  BY <3>1, <3>2
    <2>4. View(p)' = View(p)
      BY <2>3 DEF View
    <2> QED  BY <1>5, <2>4 DEF Agreed
  <1>6. CASE f[2] = "build"
    BY <1>3, <1>6 DEF Agreed, Agrees
  <1>7. CASE f[2] = "stage"
    <2>1. stage'[p] = stage[p]
      BY <1>1, <1>4, <1>7
    <2> QED  BY <1>3, <1>7, <2>1 DEF Agreed, Agrees
  <1>8. CASE f[2] = "dist"
    <2>1. stage'[p] = stage[p] /\ dist'[p] = dist[p]
      BY <1>1, <1>4, <1>8, StageUp
    <2> QED  BY <1>3, <1>8, <2>1 DEF Agreed
  <1> QED  BY <1>1, <1>5, <1>6, <1>7, <1>8 DEF Phase

(* A command changes the tree of its edge alone.                            *)
LEMMA AgreedCommand ==
  ASSUME TypeOK, NEW x \in Edge, Done(x) \/ PartlyDone(x),
         NEW f \in Edge, Agreed(f), x \notin Upstream[f]
  PROVE  Agreed(f)'
  <1>1. f[1] \in Proj /\ f = <<f[1], f[2]>> /\ x # f
    BY EdgeType, UpSelf
  <1>2. f[2] = "configure" => conf'[f[1]] = conf[f[1]]
    <2>1. x = <<x[1], x[2]>> /\ x[1] \in Proj
      BY EdgeType
    <2> QED  BY <1>1, <2>1 DEF Done, PartlyDone, ConfigureDone, BuildDone, StageDone, DistDone, TypeOK
  <1>3. f[2] = "build" => built'[f[1]] = built[f[1]]
    BY <1>1, CommandFrame
  <1>4. \A q \in Proj : <<q, "stage">> \in Upstream[f] => stage'[q] = stage[q]
    BY CommandFrame
  <1>5. \A q \in Proj : <<q, "dist">> \in Upstream[f] => dist'[q] = dist[q]
    BY CommandFrame
  <1> QED  BY <1>2, <1>3, <1>4, <1>5, AgreedFrame

(* A command that completes makes a tree that goes with the others.         *)
LEMMA AgreedMake ==
  ASSUME TypeOK, Scope, Agreement, NEW x \in Edge, Done(x),
         \A g \in Upstream[x] : g # x => Made(g)
  PROVE  Agreed(x)'
  <1> DEFINE p == x[1]
  <1>1. p \in Proj /\ x[2] \in Phase /\ x = <<p, x[2]>> /\ x \in Upstream[x]
    BY EdgeType, UpSelf
  <1>2. CASE x[2] = "configure"
    <2>1. conf' = [conf EXCEPT ![p] = View(p)] /\ UNCHANGED <<stage, dist>>
      BY <1>2 DEF Done, ConfigureDone
    <2>2. View(p)' = View(p)
      BY <2>1 DEF View
    <2> QED  BY <1>1, <1>2, <2>1, <2>2 DEF Agreed, TypeOK
  <1>3. CASE x[2] = "build"
    <2>1. PICK r \in seen[p], c \in ListsOf(p, seen[p]) :
             built' = [built EXCEPT ![p] = [View(p) EXCEPT ![p] = {Compiled(c, r)}]]
      BY <1>3 DEF Done, BuildDone
    <2>2. stage' = stage /\ Compiled(c, r) \in Rev
      BY <1>1, <1>3, CompiledType DEF Done, BuildDone, TypeOK, Tree
    <2>3. \A d \in Deps[p] : Made(<<d, "dist">>) /\ Made(<<d, "stage">>)
      <3>1. \A d \in Deps[p] : <<d, "dist">> # x /\ <<d, "stage">> # x
        BY <1>1, <1>3
      <3> QED  BY <1>1, <3>1, SourcesUp
    <2>4. Agrees([View(p) EXCEPT ![p] = {Compiled(c, r)}], p)
      BY <1>1, <2>2, <2>3, BuildAgrees
    <2>5. built'[p] = [View(p) EXCEPT ![p] = {Compiled(c, r)}]
      BY <1>1, <2>1 DEF TypeOK
    <2>6. Agrees(built[p], p)'
      BY <2>2, <2>4, <2>5 DEF Agrees
    <2> QED  BY <1>3, <2>6 DEF Agreed
  <1>4. CASE x[2] = "stage"
    <2>1. stage' = [stage EXCEPT ![p] = built[p]]
      BY <1>4 DEF Done, StageDone
    <2>2. <<p, "build">> \in Upstream[x] /\ <<p, "build">> # x /\ <<p, "build">> \in Edge
      BY <1>1, <1>4, OwnUp, EdgeType DEF Phase, Earlier
    <2>3. Agrees(built[p], p)
      BY <2>2 DEF Agreement, Agreed
    <2>4. stage'[p] = built[p] /\ \A q \in Cone[p] \ {p} : stage'[q] = stage[q]
      BY <1>1, <2>1, ConeSelf DEF TypeOK
    <2>5. Agrees(stage[p], p)'
      BY <2>3, <2>4 DEF Agrees
    <2> QED  BY <1>4, <2>5 DEF Agreed
  <1>5. CASE x[2] = "dist"
    <2>1. dist' = [dist EXCEPT ![p] = Merge({p} \union Runtime[p])] /\ stage' = stage
      BY <1>5 DEF Done, DistDone
    <2>2. \A q \in Cone[p] : Made(<<q, "stage">>)
      <3>1. x = <<p, "dist">> /\ "dist" \in Phase
        BY <1>1, <1>5
      <3>2. <<p, "stage">> \in Upstream[x]
        BY <1>1, <3>1, StageUp
      <3>3. \A q \in Cone[p] \ {p} : <<q, "stage">> \in Upstream[x]
        BY <1>1, <3>1, SourcesUp
      <3>4. ASSUME NEW q \in Cone[p] PROVE Made(<<q, "stage">>)
        <4>1. <<q, "stage">> \in Upstream[x] /\ <<q, "stage">> # x
          BY <3>1, <3>2, <3>3
        <4> QED  BY <4>1
      <3> QED  BY <3>4
    <2>3. \A q \in Cone[p] : Merge({p} \union Runtime[p])[q] = stage[q][q]
      BY <1>1, <2>2, MergeAgrees
    <2>4. dist'[p] = Merge({p} \union Runtime[p])
      BY <1>1, <2>1 DEF TypeOK
    <2> QED  BY <1>5, <2>1, <2>3, <2>4 DEF Agreed
  <1> QED  BY <1>1, <1>2, <1>3, <1>4, <1>5 DEF Phase

(* What a command leaves in a dist tree, finished or not, has one revision  *)
(* of everything.                                                           *)
LEMMA CoherentCommand ==
  ASSUME TypeOK, Scope, Agreement, DistCoherent, NEW x \in Edge,
         Done(x) \/ PartlyDone(x),
         \A g \in Upstream[x] : g # x => Made(g)
  PROVE  DistCoherent'
  <1> DEFINE p == x[1]
  <1>1. p \in Proj /\ x = <<p, x[2]>> /\ x[2] \in Phase
    BY EdgeType
  <1>2. CASE x[2] # "dist"
    <2>1. dist' = dist
      BY <1>2 DEF Done, PartlyDone, ConfigureDone, BuildDone, StageDone
    <2> QED  BY <2>1 DEF DistCoherent
  <1>3. CASE x[2] = "dist"
    <2>1. PICK dirs \in SUBSET ({p} \union Runtime[p]) : dist' = [dist EXCEPT ![p] = Merge(dirs)]
      BY <1>3 DEF Done, PartlyDone, DistDone
    <2>2. \A q \in Cone[p] : Made(<<q, "stage">>)
      <3>1. x = <<p, "dist">> /\ "dist" \in Phase
        BY <1>1, <1>3
      <3>2. <<p, "stage">> \in Upstream[x]
        BY <1>1, <3>1, StageUp
      <3>3. \A q \in Cone[p] \ {p} : <<q, "stage">> \in Upstream[x]
        BY <1>1, <3>1, SourcesUp
      <3>4. ASSUME NEW q \in Cone[p] PROVE Made(<<q, "stage">>)
        <4>1. <<q, "stage">> \in Upstream[x] /\ <<q, "stage">> # x
          BY <3>1, <3>2, <3>3
        <4> QED  BY <4>1
      <3> QED  BY <3>4
    <2>3. \A q \in Proj : One(Merge(dirs)[q])
      BY <1>1, <2>2, MergeAgrees
    <2>4. dist'[p] = Merge(dirs) /\ \A q \in Proj : q # p => dist'[q] = dist[q]
      BY <1>1, <2>1 DEF TypeOK
    <2> QED  BY <2>3, <2>4 DEF DistCoherent, One
  <1> QED  BY <1>2, <1>3

-----------------------------------------------------------------------------
(* The invariant.                                                           *)

LEMMA CohInit == Init => CohInv
  <1> SUFFICES ASSUME Init PROVE PlanClosed /\ Agreement /\ DistCoherent
    BY IndInit DEF CohInv
  <1>1. todo = {} /\ \A f \in Edge : Old(f)
    BY EdgeType DEF Init, Old
  <1>2. \A f \in Edge : ~ Made(f)
    BY <1>1, UpSelf DEF Made, Clean
  <1> QED  BY <1>1, <1>2 DEF PlanClosed, Agreement, DistCoherent, Init, Empty

LEMMA CohStep == CohInv /\ [Next]_vars => CohInv'
  <1> SUFFICES ASSUME TypeOK, Scope, PlanSound, PlanClosed, Agreement, DistCoherent, [Next]_vars
               PROVE  PlanClosed' /\ Agreement' /\ DistCoherent'
    BY IndStep DEF CohInv, IndInv
  <1>1. ASSUME NEW T \in SUBSET Edge, StartNinja(T)
        PROVE  PlanClosed' /\ Agreement' /\ DistCoherent'
    <2>1. UNCHANGED <<conf, built, stage, dist>>
      BY <1>1 DEF StartNinja, trees
    <2>2. \A f \in Edge : Made(f)' => Made(f)
      BY <1>1, ClosedStart DEF Made
    <2>3. Agreement' /\ DistCoherent'
      BY <2>1, <2>2 DEF Agreement, Agreed, Agrees, View, DistCoherent
    <2>4. PlanClosed'
      BY <1>1, ClosedStart
    <2> QED  BY <2>3, <2>4
  <1>2. ASSUME NEW e \in Edge, Start(e)
        PROVE  PlanClosed' /\ Agreement' /\ DistCoherent'
    <2>1. UNCHANGED <<conf, built, stage, dist, old, todo>>
      BY <1>2 DEF Start, trees
    <2>2. \A f \in Edge : Made(f)' => Made(f)
      BY <2>1, MadeGrow
    <2>3. \A f \in Edge : Agreed(f)' <=> Agreed(f)
      BY <2>1 DEF Agreed, Agrees, View
    <2> QED  BY <2>1, <2>2, <2>3 DEF PlanClosed, Agreement, DistCoherent
  <1>3. ASSUME NEW e \in Edge, Finish(e)
        PROVE  PlanClosed' /\ Agreement' /\ DistCoherent'
    <2>1. Done(e) /\ e \in running
      BY <1>3 DEF Finish
    <2>2. \A g \in Upstream[e] : g # e => Made(g)
      BY <2>1, RunningReads
    <2>3. Agreed(e)'
      BY <2>1, <2>2, AgreedMake
    <2>4. ASSUME NEW f \in Edge, Made(f)', f # e PROVE Agreed(f)'
      <3>1. Made(f) /\ e \notin Upstream[f]
        BY <1>3, <2>4, MadeFinish
      <3> QED  BY <2>1, <3>1, AgreedCommand DEF Agreement
    <2>5. Agreement'
      BY <2>3, <2>4 DEF Agreement
    <2> QED  BY <1>3, <2>1, <2>2, <2>5, ClosedFinish, CoherentCommand
  <1>4. ASSUME NEW e \in Edge, Fail(e) \/ FailAfterTouch(e)
        PROVE  PlanClosed' /\ Agreement' /\ DistCoherent'
    <2>1. /\ e \in running
          /\ Done(e) \/ PartlyDone(e)
          /\ running' = running \ {e} /\ todo' = running'
      BY <1>4 DEF Fail, FailAfterTouch
    <2>2. (\A p \in Proj : old[p] \subseteq old'[p]) /\ Old(e)'
      BY <1>4, FailGrows
    <2>3. \A g \in Upstream[e] : g # e => Made(g)
      BY <2>1, RunningReads
    <2>4. ASSUME NEW f \in Edge, Made(f)' PROVE Agreed(f)'
      <3>1. Made(f) /\ e \notin Upstream[f]
        BY <2>1, <2>2, <2>4, MadeAbandon
      <3> QED  BY <2>1, <3>1, AgreedCommand DEF Agreement
    <2>5. Agreement'
      BY <2>4 DEF Agreement
    <2> QED  BY <2>1, <2>3, <2>5, ClosedAbandon, CoherentCommand
  <1>5. ASSUME UNCHANGED <<conf, built, stage, dist, todo, running>>,
               \A p \in Proj : old[p] \subseteq old'[p]
        PROVE  PlanClosed' /\ Agreement' /\ DistCoherent'
    <2>1. \A f \in Edge : Made(f)' => Made(f)
      BY <1>5, MadeGrow
    <2>2. \A f \in Edge : Agreed(f)' <=> Agreed(f)
      BY <1>5 DEF Agreed, Agrees, View
    <2> QED  BY <1>5, <2>1, <2>2 DEF PlanClosed, Agreement, DistCoherent
  <1>6. ASSUME NEW x \in Proj, EditSource(x) \/ EditLists(x)
        PROVE  PlanClosed' /\ Agreement' /\ DistCoherent'
    <2>1. \A p \in Proj : old[p] \subseteq old'[p]
      BY <1>6 DEF EditSource, EditLists, TypeOK
    <2> QED  BY <1>5, <1>6, <2>1 DEF EditSource, EditLists, NewRevision, trees
  <1>7. ASSUME NEW x \in Proj, NEW ph \in Phase, RemoveStamp(x, ph)
        PROVE  PlanClosed' /\ Agreement' /\ DistCoherent'
    <2>1. \A p \in Proj : old[p] \subseteq old'[p]
      BY <1>7 DEF RemoveStamp, TypeOK
    <2> QED  BY <1>5, <1>7, <2>1 DEF RemoveStamp, trees
  <1>8. ASSUME NEW x \in Proj, Expunge(x)
        PROVE  PlanClosed' /\ Agreement' /\ DistCoherent'
    <2>1. todo = {} /\ todo' = {} /\ \A p \in Proj : old[p] \subseteq old'[p]
      BY <1>8 DEF Expunge, TypeOK
    <2>2. \A p \in Proj : /\ p # x => /\ conf'[p] = conf[p] /\ built'[p] = built[p]
                                      /\ stage'[p] = stage[p] /\ dist'[p] = dist[p]
                          /\ p = x => dist'[p] = Empty
      BY <1>8 DEF Expunge, TypeOK
    <2>3. \A ph \in Phase : Old(<<x, ph>>)'
      BY <1>8 DEF Expunge, Old, TypeOK
    <2>4. ASSUME NEW f \in Edge, Made(f)' PROVE Agreed(f)'
      <3>1. Clean(f)' /\ Made(f) /\ f = <<f[1], f[2]>> /\ f[1] \in Proj /\ f[2] \in Phase
        BY <2>1, <2>4, MadeGrow, EdgeType DEF Made
      <3>2. f[1] # x
        BY <2>3, <3>1, UpSelf DEF Clean
      <3>3. \A ph \in Phase : <<x, ph>> \notin Upstream[f]
        BY <2>3, <3>1 DEF Clean
      <3>4. \A q \in Proj : /\ <<q, "stage">> \in Upstream[f] => stage'[q] = stage[q]
                            /\ <<q, "dist">> \in Upstream[f] => dist'[q] = dist[q]
        BY <2>2, <3>3 DEF Phase
      <3>5. Agreed(f)
        BY <3>1 DEF Agreement
      <3> QED  BY <2>2, <3>1, <3>2, <3>4, <3>5, AgreedFrame
    <2>5. DistCoherent'
      BY <2>2 DEF DistCoherent, Empty
    <2> QED  BY <2>1, <2>4, <2>5 DEF PlanClosed, Agreement
  <1>9. ASSUME NEW x \in Proj, DirectBuild(x)
        PROVE  PlanClosed' /\ Agreement' /\ DistCoherent'
    <2>1. UNCHANGED <<old, conf, stage, dist, todo>> /\ todo = {}
      BY <1>9 DEF DirectBuild
    <2>0. PICK c \in ListsOf(x, {src[x]}) :
             built' = [built EXCEPT ![x] = [View(x) EXCEPT ![x] = {Compiled(c, src[x])}]]
      BY <1>9 DEF DirectBuild
    <2>2. \A f \in Edge : Made(f)' => Made(f)
      BY <2>1, MadeGrow
    <2>3. ASSUME NEW f \in Edge, Made(f)' PROVE Agreed(f)'
      <3>1. Made(f) /\ Agreed(f) /\ f = <<f[1], f[2]>> /\ f[1] \in Proj
        BY <2>2, <2>3, EdgeType DEF Agreement
      <3>2. CASE f = <<x, "build">>
        <4>1. \A d \in Deps[x] : Made(<<d, "dist">>) /\ Made(<<d, "stage">>)
          BY <3>1, <3>2, SourcesUp, MadeUp DEF Phase
        <4>2. Compiled(c, src[x]) \in Rev
          BY CompiledType DEF TypeOK
        <4>3. Agrees([View(x) EXCEPT ![x] = {Compiled(c, src[x])}], x)
          BY <4>1, <4>2, BuildAgrees
        <4>4. built'[x] = [View(x) EXCEPT ![x] = {Compiled(c, src[x])}]
          BY <2>0 DEF TypeOK
        <4>5. Agrees(built[x], x)'
          BY <2>1, <4>3, <4>4 DEF Agrees
        <4> QED  BY <3>2, <4>5 DEF Agreed
      <3>3. CASE f # <<x, "build">>
        <4>1. f[2] = "build" => built'[f[1]] = built[f[1]]
          BY <2>0, <3>1, <3>3 DEF TypeOK
        <4> QED  BY <2>1, <3>1, <4>1, AgreedFrame
      <3> QED  BY <3>2, <3>3
    <2> QED  BY <2>1, <2>3 DEF PlanClosed, Agreement, DistCoherent
  <1>10. CASE UNCHANGED vars
    BY <1>5, <1>10 DEF vars, trees
  <1> QED
    BY <1>1, <1>2, <1>3, <1>4, <1>6, <1>7, <1>8, <1>9, <1>10
       DEF Next, Ninja, Disturbance

(* The inductive invariant holds in every reachable state.                  *)
THEOREM Coherent == Spec => []CohInv
  BY CohInit, CohStep, PTL DEF Spec

(* Whatever fails, and whatever is edited while it is being built, no dist  *)
(* tree ever mixes two revisions of a sub-project.                          *)
THEOREM OneRevision == Spec => []DistCoherent
  <1>1. CohInv => DistCoherent
    BY DEF CohInv
  <1> QED  BY <1>1, Coherent, PTL

(* The dependencies a build compiles against are those it was configured    *)
(* against: nothing can replace them between the two commands.              *)
THEOREM ConfiguredFirst == Spec => []BuildSeesConfigured
  <1>1. ASSUME CohInv PROVE BuildSeesConfigured
    <2>1. TypeOK /\ PlanSound /\ PlanClosed /\ Agreement
      BY <1>1 DEF CohInv, IndInv
    <2>2. ASSUME NEW p \in Proj, <<p, "build">> \in running PROVE conf[p] = View(p)
      <3> DEFINE c == <<p, "configure">>
      <3>1. c \in Edge /\ c \in Upstream[<<p, "build">>] /\ c # <<p, "build">>
        BY OwnUp, EdgeType DEF Phase, Earlier
      <3>2. Made(c)
        BY <2>1, <2>2, <3>1, RunningReads
      <3>3. Agreed(c)
        BY <2>1, <3>1, <3>2 DEF Agreement
      <3> QED  BY <3>3 DEF Agreed
    <2> QED  BY <2>2 DEF BuildSeesConfigured
  <1> QED  BY <1>1, Coherent, PTL

-----------------------------------------------------------------------------
(***************************************************************************)
(* SuperBuild implements BuildPromise: every step of the one is, through   *)
(* the mapping Want, Fresh, a step of the other or changes nothing of what *)
(* it speaks of.                                                           *)
(***************************************************************************)

-----------------------------------------------------------------------------
(* What the steps do to Fresh.                                              *)

(* A sub-project is fresh if ninja has nothing to do in its cone.           *)
LEMMA FreshIs ==
  /\ \A p \in Proj : p \in Fresh <=> \A q \in Cone[p] : old[q] = {}
  /\ \A p \in Proj : p \in Fresh' <=> \A q \in Cone[p] : old'[q] = {}
  /\ \A q, p \in Proj : p \in Promise!Users(q) <=> q \in Cone[p]
  BY DEF Fresh, UpToDate, Promise!Users

(* Where the stamps stay as they are, so does what is fresh.                *)
LEMMA FreshSame == UNCHANGED old => UNCHANGED Fresh
  BY DEF Fresh, UpToDate

(* What is wanted of a sub-project depends on its own revisions alone.      *)
LEMMA WantSame ==
  /\ UNCHANGED <<src, seen, parsing>> => UNCHANGED Want
  /\ \A q \in Proj : src'[q] = src[q] /\ seen'[q] = seen[q] /\ parsing'[q] = parsing[q]
                     => Want'[q] = Want[q]
  BY DEF Want, Known, Racy

(* Something old in q makes everything that is built from it old.           *)
LEMMA FreshLess ==
  ASSUME NEW q \in Proj, old'[q] # {}, \A x \in Proj \ {q} : old'[x] = old[x]
  PROVE  Fresh' = Fresh \ Promise!Users(q)
  <1>1. \A p \in Proj : q \in Cone[p] => p \notin Fresh'
    BY FreshIs
  <1>2. \A p \in Proj : q \notin Cone[p] => (p \in Fresh' <=> p \in Fresh)
    BY FreshIs, ConeSelf
  <1>3. Fresh \subseteq Proj /\ Fresh' \subseteq Proj
    BY DEF Fresh
  <1> QED  BY <1>1, <1>2, <1>3, FreshIs

(* A sub-project with a planned edge is not fresh.                          *)
LEMMA PlannedNotFresh ==
  ASSUME TypeOK, PlanSound, NEW e \in todo
  PROVE  e[1] \in Proj \ Fresh
  <1>1. e \in Edge /\ e[1] \in Proj
    BY EdgeType DEF TypeOK
  <1>2. PICK f \in Upstream[e] : Old(f)
    BY DEF PlanSound
  <1>3. f[1] \in Cone[e[1]]
    <2>1. CASE f[1] = e[1]
      BY <2>1, <1>1, ConeSelf
    <2>2. CASE \E d \in Deps[e[1]] : f[1] \in Cone[d]
      BY <2>2, <1>1, ConeSelf, ConeClosed, ConeMono
    <2> QED  BY <2>1, <2>2, <1>1 DEF Upstream
  <1> QED  BY <1>1, <1>2, <1>3, FreshIs DEF Old

(* The touch of a stamp of p changes nothing for what p is not part of.     *)
LEMMA FreshElsewhere ==
  ASSUME TypeOK, NEW e \in Edge,
         \A x \in Proj \ {e[1]} : old'[x] = Touched(e, old)[x],
         NEW r \in Proj, e[1] \notin Cone[r]
  PROVE  r \in Fresh' <=> r \in Fresh
  <1>1. ASSUME NEW x \in Cone[r] PROVE old'[x] = old[x]
    <2>1. x \in Proj /\ x # e[1] /\ e[1] \notin Deps[x]
      BY ConeSelf, ConeClosed
    <2>2. \A ph \in Phase : <<x, ph>> \notin Consumers[e]
      BY <2>1 DEF Consumers
    <2>3. old'[x] = old[x] \union {ph \in Phase : <<x, ph>> \in Consumers[e]}
      BY <2>1 DEF Touched
    <2> QED  BY <2>2, <2>3
  <1> QED  BY <1>1, FreshIs

(* A command that finishes makes at most its own sub-project fresh, and     *)
(* that after all it is built from; it makes none old that was fresh.       *)
LEMMA FreshFinish ==
  ASSUME TypeOK, PlanSound, NEW e \in running, old' = Touched(e, old)
  PROVE  /\ e[1] \in Proj \ Fresh
         /\ Fresh' = Fresh \/ Fresh' = Fresh \union {e[1]}
         /\ e[1] \in Fresh' => e[2] = "dist" /\ Cone[e[1]] \ {e[1]} \subseteq Fresh
  <1> DEFINE p == e[1]
  <1>1. e \in Edge /\ e \in todo /\ p \in Proj /\ e[2] \in Phase /\ p \notin Fresh
    BY EdgeType, PlannedNotFresh DEF TypeOK
  <1>2. ASSUME NEW x \in Proj, NEW ph \in Phase, <<x, ph>> \in Consumers[e]
        PROVE  old'[x] # {}
    BY <1>2 DEF Touched
  <1>3. e[2] # "dist" => \E ph \in Phase : <<p, ph>> \in Consumers[e]
    <2>1. SUFFICES ASSUME e[2] # "dist"
                   PROVE  \E ph \in Phase : <<p, ph>> \in Consumers[e]
      OBVIOUS
    <2>2. "dist" \in Phase /\ e[2] \in Earlier("dist")
      BY <2>1, <1>1 DEF Phase, Earlier
    <2>3. PICK ph \in Phase : Earlier(ph) = Earlier(e[2]) \union {e[2]}
      BY <1>1, <2>2, NextPhase
    <2> QED  BY <1>1, <2>3, EdgeType DEF Consumers
  <1>4. e[2] # "dist" => old'[p] # {}
    BY <1>1, <1>2, <1>3
  <1>5. ASSUME NEW r \in Proj, r # p, p \in Cone[r] PROVE r \notin Fresh /\ r \notin Fresh'
    <2>1. r \notin Fresh
      BY <1>1, <1>5, ConeMono, FreshIs
    <2>2. CASE e[2] = "dist"
      <3>1. PICK x \in Cone[r] : p \in Deps[x]
        BY <1>5, ConePred
      <3>2. x \in Proj /\ "configure" \in Phase /\ <<x, "configure">> \in Edge
        BY ConeSelf, EdgeType DEF Phase
      <3>3. <<x, "configure">> \in Consumers[e]
        BY <1>1, <2>2, <3>1, <3>2 DEF Consumers
      <3> QED  BY <2>1, <1>2, <3>1, <3>2, <3>3, FreshIs
    <2>3. CASE e[2] # "dist"
      BY <2>1, <2>3, <1>4, <1>5, FreshIs
    <2> QED  BY <2>2, <2>3
  <1>6. \A r \in Proj : r # p => (r \in Fresh' <=> r \in Fresh)
    BY <1>1, <1>5, FreshElsewhere
  <1>7. p \in Fresh' => Cone[p] \ {p} \subseteq Fresh
    <2>1. SUFFICES ASSUME p \in Fresh', NEW q \in Cone[p], q # p PROVE q \in Fresh
      OBVIOUS
    <2>2. q \in Proj /\ Cone[q] \subseteq Cone[p]
      BY <1>1, ConeSelf, ConeMono
    <2> QED  BY <1>1, <1>6, <2>1, <2>2, FreshIs
  <1>8. p \in Fresh' => e[2] = "dist"
    BY <1>1, <1>4, ConeSelf, FreshIs
  <1>9. Fresh \subseteq Proj /\ Fresh' \subseteq Proj
    BY DEF Fresh
  <1> QED  BY <1>1, <1>6, <1>7, <1>8, <1>9

-----------------------------------------------------------------------------
(* The simulation.                                                          *)

(* The initial states of the build keep the promise: nothing is fresh.      *)
LEMMA PromiseInit == Init => Promise!Init
  <1> SUFFICES ASSUME Init PROVE Promise!Init
    OBVIOUS
  <1>1. Fresh = {}
    BY ConeSelf DEF Fresh, UpToDate, Init, Phase
  <1>2. budget \in Nat
    BY BoundAssumption DEF Init
  <1> QED  BY <1>1, <1>2 DEF Promise!Init, Promise!Kept

(* A command changes the dist tree of its own sub-project only, and that    *)
(* only if it is the dist command.                                          *)
LEMMA DistFrame ==
  ASSUME TypeOK, NEW e \in Edge, Done(e) \/ PartlyDone(e)
  PROVE  Promise!OnlyProduct(e[1]) /\ (e[2] # "dist" => UNCHANGED dist)
  <1>1. \A p \in Proj : e # <<p, "dist">> => dist'[p] = dist[p]
    BY CommandFrame
  <1>2. e[2] # "dist" => UNCHANGED dist
    BY EdgeType DEF Done, PartlyDone, ConfigureDone, BuildDone, StageDone, Phase
  <1> QED  BY <1>1, <1>2 DEF Promise!OnlyProduct

(* The start of a configure or build may fix the revision that is wanted.   *)
LEMMA StartPromised ==
  ASSUME TypeOK, PlanSound, NEW e \in Edge, Start(e)
  PROVE  Promise!Begin(e[1]) \/ UNCHANGED <<Want, Fresh, dist, budget>>
  <1> DEFINE p == e[1]
  <1>1. p \in Proj \ Fresh
    BY PlannedNotFresh DEF Start
  <1>2. UNCHANGED <<old, dist, budget, src>> /\ UNCHANGED Fresh
    BY FreshSame DEF Start, trees
  <1>3. \A q \in Proj \ {p} : seen'[q] = seen[q] /\ parsing'[q] = parsing[q]
    BY DEF Start, StartReading, TypeOK, Tree
  <1>4. \A q \in Proj \ {p} : Want'[q] = Want[q]
    BY <1>2, <1>3, WantSame
  <1>5. Known(p) => Known(p)'
    <2>1. seen'[p] = seen[p] \/ seen'[p] = {src[p]}
      BY <1>1 DEF Start, StartReading, TypeOK, Tree
    <2>2. parsing'[p] = parsing[p] \/ parsing'[p] = {src[p].lists}
      BY <1>1 DEF Start, StartReading, TypeOK
    <2> QED
      BY <2>1, <2>2 DEF Known, Racy, One
  <1>6. CASE Known(p) <=> Known(p)'
    <2>1. Want'[p] = Want[p]
      BY <1>1, <1>2, <1>6 DEF Want
    <2> QED  BY <1>2, <1>4, <2>1 DEF Want
  <1>7. CASE Known(p)'
    <2>1. Want'[p] = {src[p]} /\ src[p] \in Rev
      BY <1>1, <1>2, <1>7 DEF Want, TypeOK
    <2>2. Promise!OnlyWant(p)
      BY <1>4 DEF Promise!OnlyWant
    <2> QED  BY <1>1, <1>2, <2>1, <2>2 DEF Promise!Begin
  <1> QED  BY <1>5, <1>6, <1>7

(* A command that ends delivers its sub-project, or works on it.            *)
LEMMA FinishPromised ==
  ASSUME TypeOK, PlanSound, TypeOK', Settled', NEW e \in Edge, Finish(e)
  PROVE  \/ Promise!Deliver(e[1]) \/ Promise!Work(e[1])
         \/ UNCHANGED <<Want, Fresh, dist, budget>>
  <1> DEFINE p == e[1]
  <1>1. /\ e \in running /\ old' = Touched(e, old) /\ Done(e)
        /\ UNCHANGED <<src, seen, parsing, budget>> /\ UNCHANGED Want
    BY WantSame DEF Finish
  <1>2. /\ p \in Proj \ Fresh
        /\ Fresh' = Fresh \/ Fresh' = Fresh \union {p}
        /\ p \in Fresh' => e[2] = "dist" /\ Cone[p] \ {p} \subseteq Fresh
    BY <1>1, FreshFinish
  <1>3. Promise!OnlyProduct(p) /\ (e[2] # "dist" => UNCHANGED dist)
    BY <1>1, DistFrame
  <1>4. CASE p \in Fresh'
    <2>1. UpToDate(p)'
      BY <1>4 DEF Fresh
    <2>2. Clean(<<p, "dist">>)'
      <3>1. ASSUME NEW f \in Upstream[<<p, "dist">>] PROVE ~ Old(f)'
        <4>1. <<p, "dist">> \in Edge
          BY <1>2, EdgeType DEF Phase
        <4>2. f[1] \in Cone[p]
          BY <1>2, <4>1, ConeSelf, ConeClosed, ConeMono DEF Upstream
        <4> QED  BY <2>1, <4>2 DEF UpToDate, Old
      <3> QED  BY <3>1 DEF Clean
    <2>3. Right(dist[p], p)'
      BY <1>2, <2>2 DEF Settled
    <2>4. \A q \in Cone[p] : Want[q] # {} => dist'[p][q] = Want[q]
      BY <1>1, <1>2, <2>3, ConeSelf DEF Right, Want, Known, Racy
    <2>5. Promise!Good(dist'[p], p)
      BY <2>4 DEF Promise!Good, Promise!Anything
    <2> QED  BY <1>1, <1>2, <1>3, <1>4, <2>5 DEF Promise!Deliver
  <1>5. CASE p \notin Fresh' /\ e[2] # "dist"
    BY <1>1, <1>2, <1>3, <1>5
  <1>6. CASE p \notin Fresh'
    BY <1>1, <1>2, <1>3, <1>6 DEF Promise!Work
  <1> QED  BY <1>4, <1>5, <1>6

(* A command that fails disturbs its own sub-project, which is not fresh.   *)
LEMMA FailPromised ==
  ASSUME TypeOK, PlanSound, NEW e \in Edge, Fail(e) \/ FailAfterTouch(e)
  PROVE  Promise!Disturbed(e[1])
  <1> DEFINE p == e[1]
  <1>1. /\ e \in running /\ e \in todo /\ e[2] \in Phase
        /\ UNCHANGED <<src, seen, parsing>> /\ budget > 0 /\ budget' = budget - 1
        /\ Done(e) \/ PartlyDone(e)
    BY EdgeType DEF Fail, FailAfterTouch, Disturb, TypeOK
  <1>2. p \in Proj \ Fresh
    BY <1>1, PlannedNotFresh
  <1>3. Promise!OnlyProduct(p) /\ Promise!OnlyWant(p) /\ Want' = Want
    BY <1>1, DistFrame, WantSame DEF Promise!OnlyWant
  <1>4. Fresh' = Fresh
    <2>1. CASE Fail(e)
      BY <2>1, FreshSame DEF Fail
    <2>2. CASE FailAfterTouch(e)
      <3>1. old' = [Touched(e, old) EXCEPT ![p] = @ \union {e[2]}]
        BY <2>2 DEF FailAfterTouch
      <3>2. Touched(e, old) \in [Proj -> SUBSET Phase]
        BY TypeTouched
      <3>3. old'[p] # {} /\ \A x \in Proj \ {p} : old'[x] = Touched(e, old)[x]
        BY <1>1, <1>2, <3>1, <3>2
      <3>4. ASSUME NEW r \in Proj, p \in Cone[r] PROVE r \notin Fresh /\ r \notin Fresh'
        BY <1>2, <3>3, <3>4, ConeMono, FreshIs
      <3>5. \A r \in Proj : r \in Fresh' <=> r \in Fresh
        BY <3>3, <3>4, FreshElsewhere
      <3> QED  BY <3>5 DEF Fresh
    <2> QED  BY <1>1, <2>1, <2>2
  <1> QED  BY <1>1, <1>2, <1>3, <1>4 DEF Promise!Disturbed

(* An edit takes back what uses the sub-project, or goes unseen.            *)
LEMMA EditPromised ==
  ASSUME TypeOK, NEW q \in Proj, EditSource(q) \/ EditLists(q)
  PROVE  Promise!Disturbed(q)
  <1>1. /\ UNCHANGED <<dist>> /\ budget > 0 /\ budget' = budget - 1
        /\ \A x \in Proj \ {q} : /\ src'[x] = src[x] /\ seen'[x] = seen[x]
                                  /\ parsing'[x] = parsing[x]
    BY DEF EditSource, EditLists, NewRevision, Disturb, trees, TypeOK, Tree
  <1>2. Promise!OnlyWant(q) /\ Promise!OnlyProduct(q)
    BY <1>1, WantSame DEF Promise!OnlyWant, Promise!OnlyProduct
  <1>3. CASE EditLists(q) \/ q \in Globbed
    <2>1. old'[q] # {} /\ \A x \in Proj \ {q} : old'[x] = old[x]
      BY <1>3 DEF EditSource, EditLists, TypeOK
    <2>2. Fresh' = Fresh \ Promise!Users(q)
      BY <2>1, FreshLess
    <2> QED  BY <1>1, <1>2, <2>2 DEF Promise!Disturbed
  <1>4. CASE EditSource(q) /\ q \notin Globbed
    <2>1. Fresh' = Fresh
      BY <1>4, FreshSame DEF EditSource
    <2>2. Want'[q] = Want[q]
      BY <1>4 DEF Want, Known
    <2> QED  BY <1>1, <1>2, <2>1, <2>2 DEF Promise!Disturbed
  <1> QED  BY <1>3, <1>4

(* So do a deleted stamp and an expunge; a build inside the build directory *)
(* goes unseen.                                                             *)
LEMMA CleaningPromised ==
  ASSUME TypeOK, NEW q \in Proj,
         \/ Expunge(q) \/ DirectBuild(q) \/ \E ph \in Phase : RemoveStamp(q, ph)
  PROVE  Promise!Disturbed(q)
  <1>1. /\ UNCHANGED <<src, seen, parsing>> /\ budget > 0 /\ budget' = budget - 1
        /\ \A x \in Proj \ {q} : dist'[x] = dist[x]
    BY DEF Expunge, DirectBuild, RemoveStamp, Disturb, trees, TypeOK
  <1>2. Want' = Want /\ Promise!OnlyWant(q) /\ Promise!OnlyProduct(q)
    BY <1>1, WantSame DEF Promise!OnlyWant, Promise!OnlyProduct
  <1>3. CASE DirectBuild(q)
    BY <1>1, <1>2, <1>3, FreshSame DEF DirectBuild, Promise!Disturbed
  <1>4. CASE Expunge(q) \/ \E ph \in Phase : RemoveStamp(q, ph)
    <2>1. old'[q] # {} /\ \A x \in Proj \ {q} : old'[x] = old[x]
      BY <1>4 DEF Expunge, RemoveStamp, Phase, TypeOK
    <2>2. Fresh' = Fresh \ Promise!Users(q)
      BY <2>1, FreshLess
    <2>3. q \in Fresh' => dist'[q] = dist[q]
      BY <2>2, ConeSelf, FreshIs
    <2> QED  BY <1>1, <1>2, <2>2, <2>3 DEF Promise!Disturbed
  <1> QED  BY <1>3, <1>4

(* Every step of the build is a step of the promise.                        *)
LEMMA PromiseStep ==
  IndInv /\ IndInv' /\ [Next]_vars => [Promise!Next]_(Promise!vars)
  <1> SUFFICES ASSUME IndInv, IndInv', [Next]_vars
               PROVE  Promise!Next \/ UNCHANGED <<Want, Fresh, dist, budget>>
    BY DEF Promise!vars
  <1>0. TypeOK /\ PlanSound /\ TypeOK' /\ Settled'
    BY DEF IndInv
  <1>1. ASSUME NEW p \in Proj, \/ Promise!Work(p) \/ Promise!Deliver(p)
                               \/ Promise!Begin(p) \/ Promise!Disturbed(p)
        PROVE  Promise!Next
    BY <1>1 DEF Promise!Next
  <1>2. ASSUME NEW T \in SUBSET Edge, StartNinja(T)
        PROVE  UNCHANGED <<Want, Fresh, dist, budget>>
    BY <1>2, WantSame, FreshSame DEF StartNinja, trees
  <1>3. CASE Ninja
    <2>1. ASSUME NEW e \in Edge, StartNinja({e}) PROVE UNCHANGED <<Want, Fresh, dist, budget>>
      BY <1>2, <2>1
    <2>2. ASSUME NEW e \in Edge, Start(e)
          PROVE  Promise!Next \/ UNCHANGED <<Want, Fresh, dist, budget>>
      BY <1>0, <1>1, <2>2, StartPromised, EdgeType
    <2>3. ASSUME NEW e \in Edge, Finish(e)
          PROVE  Promise!Next \/ UNCHANGED <<Want, Fresh, dist, budget>>
      BY <1>0, <1>1, <2>3, FinishPromised, EdgeType
    <2> QED  BY <1>2, <1>3, <2>1, <2>2, <2>3 DEF Ninja
  <1>4. CASE Disturbance
    <2>1. ASSUME NEW e \in Edge, Fail(e) \/ FailAfterTouch(e) PROVE Promise!Next
      BY <1>0, <1>1, <2>1, FailPromised, EdgeType
    <2>2. ASSUME NEW p \in Proj, EditSource(p) \/ EditLists(p) PROVE Promise!Next
      BY <1>0, <1>1, <2>2, EditPromised
    <2>3. ASSUME NEW p \in Proj, \/ Expunge(p) \/ DirectBuild(p)
                                 \/ \E ph \in Phase : RemoveStamp(p, ph)
          PROVE  Promise!Next
      BY <1>0, <1>1, <2>3, CleaningPromised
    <2> QED  BY <1>4, <2>1, <2>2, <2>3 DEF Disturbance
  <1>5. CASE UNCHANGED vars
    BY <1>5, WantSame, FreshSame DEF vars, trees
  <1> QED  BY <1>3, <1>4, <1>5 DEF Next

(* SuperBuild implements BuildPromise.                                      *)
THEOREM Implements == Spec => PromiseKept
  <1>1. Init => Promise!Init
    BY PromiseInit
  <1>2. IndInv /\ IndInv' /\ [Next]_vars => [Promise!Next]_(Promise!vars)
    BY PromiseStep
  <1> QED  BY <1>1, <1>2, Inductive, PTL DEF Spec, PromiseKept, Promise!Spec
=============================================================================
