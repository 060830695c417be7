------------------------- MODULE MCSubprojectGraph -------------------------
EXTENDS SubprojectGraph, TLC

CONSTANTS llvm, rocr, hip, none, hsa, dir1, dir2, dir3

(* All but the toolchain are interchangeable.                               *)
Symmetry == Permutations({rocr, hip}) \union Permutations({dir1, dir2, dir3})
=============================================================================
