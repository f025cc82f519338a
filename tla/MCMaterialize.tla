---------------------------- MODULE MCMaterialize ----------------------------
(* Values of the constants of Materialize for the run. *)
EXTENDS Materialize, TLC

CONSTANTS top, sub, deep, b1, b2

\* top has a plain file and a directory with a symlink and an executable; deep
\* nests it one level further than MaxDepth allows.
Workspace ==
    top :> <<FileNode(b1, FALSE), DirNode(sub)>>
    @@ sub :> <<SymlinkNode, FileNode(b2, TRUE)>>
    @@ deep :> <<DirNode(top)>>

JobSymmetry == Permutations(Jobs)
=============================================================================
