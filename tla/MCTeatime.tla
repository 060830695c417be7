------------------------------ MODULE MCTeatime ------------------------------
(* The child may write more than the pipe holds, before and after SIGTERM.  *)
EXTENDS Teatime

CONSTANTS group, endgroup, summary
=============================================================================
