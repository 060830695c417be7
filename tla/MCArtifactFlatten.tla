-------------------------- MODULE MCArtifactFlatten --------------------------
(* Two names at the top, one below: enough for a link to lead from one      *)
(* directory of an artifact into another one; two inodes.                   *)
EXTENDS ArtifactFlatten, TLC

CONSTANTS lib, lib64, so, a, b

(* Two artifacts of one base directory each, or one artifact of two.        *)
TwoArtifacts == {<<1, 1>>}
BothLayouts  == {<<1, 1>>, <<2>>}

(* Nothing is computed from an inode or a name but its equality with others.*)
Symmetry == Permutations(Inode) \union Permutations(Top)
=============================================================================
