---------------------------- MODULE MCSuperBuild ----------------------------
(* Two slices of the real graph (compiler/CMakeLists.txt,                   *)
(* core/CMakeLists.txt), with rocm-cmake, rocm-core and the sysdeps left    *)
(* out.  In the chain llvm is a build dep of rocr only, so it is no dep of  *)
(* hip at all; in the diamond hip reaches llvm in three ways.               *)
EXTENDS SuperBuild, TLC

CONSTANTS llvm, rocr, comgr, hip

ChainProj    == {llvm, rocr, hip}
ChainDeps    == (llvm :> {}) @@ (rocr :> {llvm}) @@ (hip :> {rocr})
ChainRuntime == (llvm :> {}) @@ (rocr :> {}) @@ (hip :> {rocr})

DiamondProj    == {llvm, rocr, comgr, hip}
DiamondDeps    == (llvm :> {}) @@ (rocr :> {llvm}) @@ (comgr :> {llvm})
                    @@ (hip :> {llvm, rocr, comgr})
DiamondRuntime == (llvm :> {}) @@ (rocr :> {}) @@ (comgr :> {llvm})
                    @@ (hip :> {llvm, rocr, comgr})

(* The state one undisturbed `ninja` reaches from Init, as the start of     *)
(* runs that look at what happens after it.                                 *)
First       == [lists |-> 1, files |-> 1]
ConeTree(p) == [q \in Proj |-> IF q \in Cone[p] THEN {First} ELSE {}]
DepTree(p)  == [q \in Proj |-> IF \E d \in Deps[p] : q \in Cone[d] THEN {First} ELSE {}]

BuiltInit ==
  /\ src = [p \in Proj |-> First]
  /\ seen = [p \in Proj |-> {First}]
  /\ parsing = [p \in Proj |-> {1}]
  /\ old = [p \in Proj |-> {}]
  /\ conf = [p \in Proj |-> DepTree(p)]
  /\ parsed = [p \in Proj |-> {1}]
  /\ built = [p \in Proj |-> ConeTree(p)]
  /\ stage = [p \in Proj |-> ConeTree(p)]
  /\ dist = [p \in Proj |-> ConeTree(p)]
  /\ todo = {}
  /\ running = {}
  /\ budget = MaxDisturb

BuiltSpec == BuiltInit /\ [][Next]_vars
=============================================================================
