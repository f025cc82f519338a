------------------------- MODULE MCServerLifecycle --------------------------
(* ServerLifecycle as the runs check it; its constants are sets of model      *)
(* values and Booleans, given in the .cfg.                                    *)
EXTENDS ServerLifecycle
=============================================================================
