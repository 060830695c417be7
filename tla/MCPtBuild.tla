------------------------------ MODULE MCPtBuild ------------------------------
EXTENDS PtBuild, TLC

CONSTANTS pytorch, fbgemm, r1, r2, p1, p2, c1, hipified, none

Symmetry == Permutations(Ref) \union Permutations(Shipped)
=============================================================================
