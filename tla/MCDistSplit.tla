----------------------------- MODULE MCDistSplit -----------------------------
EXTENDS DistSplit

(* Two names next to each other, and one of them in another directory.      *)
Paths == {[dir |-> "lib", name |-> "so"], [dir |-> "lib", name |-> "so.1"],
          [dir |-> "llvm", name |-> "so"]}

(* One family, as a build has today: an artifact of the core package with   *)
(* two base directories, one of the libraries package, and one that only    *)
(* devel has.                                                               *)
Dir(n, c, b, f) == [name |-> n, component |-> c, basedir |-> b, family |-> f]
OneFamily == {Dir("core-hip", "lib", "clr", "generic"), Dir("core-hip", "lib", "ocl", "generic"),
              Dir("blas", "lib", "blas", "gfx94X"), Dir("blas", "dev", "blas", "gfx94X")}

(* The artifacts of the builds for two families side by side.               *)
TwoFamilies == {Dir("blas", "lib", "blas", "gfx94X"), Dir("blas", "lib", "blas", "gfx110X")}
=============================================================================
