------------------------------ MODULE MCFeatures ------------------------------
(* A slice of the table in the top CMakeLists.txt.                          *)
EXTENDS Features, TLC

CONSTANTS COMPILER, CORE_RUNTIME, HIP_RUNTIME, BLAS, ALL, CORE, MATH_LIBS

(* As it is, and with two features in the wrong order.                      *)
Slices == {<<COMPILER, CORE_RUNTIME, HIP_RUNTIME, BLAS>>,
           <<COMPILER, HIP_RUNTIME, CORE_RUNTIME, BLAS>>}

SliceRequires ==
  (COMPILER :> {}) @@ (CORE_RUNTIME :> {}) @@ (HIP_RUNTIME :> {COMPILER, CORE_RUNTIME})
    @@ (BLAS :> {HIP_RUNTIME})

SliceGroups ==
  (COMPILER :> ALL) @@ (CORE_RUNTIME :> CORE) @@ (HIP_RUNTIME :> CORE)
    @@ (BLAS :> MATH_LIBS)
=============================================================================
