------------------------------ MODULE MCArtifacts ------------------------------
(* Records as they occur in the artifact.toml files: defaults only, a       *)
(* directory-level include (math-libs/BLAS/artifact-blas.toml), patterns of *)
(* their own (base/artifact.toml) and a forced file                         *)
(* (compiler/artifact-amd-llvm.toml).                                       *)
EXTENDS Artifacts, TLC

CONSTANTS clr, solver, so, hdr

Default  == [default |-> TRUE, optional |-> FALSE, include |-> {}, exclude |-> {},
             force |-> {}]
IfBuilt  == [Default EXCEPT !.optional = TRUE]
WholeDir == [Default EXCEPT !.include = {Kind}]
Own      == [Default EXCEPT !.default = FALSE, !.include = {{hdr}}, !.exclude = {{so}}]
Forced   == [Default EXCEPT !.force = {{hdr}}]

Parts == <<"lib", "dev">>
MatchedKinds == [c \in {"dbg", "dev", "lib", "doc"} |->
                   CASE c = "dev" -> {hdr} [] c = "lib" -> {so} [] OTHER -> {}]

(* The second stage directory is optional and has nothing that patterns     *)
(* match, but is in manifests when it exists.                               *)
Two(r, r2) == (clr :> r) @@ (solver :> r2)
TwoAll     == Two(Kind, {})

(* lib takes a whole directory and dev goes by the defaults, or lib has a   *)
(* file forced into it and dev takes its own.                               *)
TwoTomls == {("lib" :> Two(WholeDir, IfBuilt)) @@ ("dev" :> Two(Default, IfBuilt)),
             ("lib" :> Two(Forced, None)) @@ ("dev" :> Two(Own, IfBuilt))}
=============================================================================
