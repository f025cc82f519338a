------------------------------- MODULE MCCasGc -------------------------------
(* Values of the constants of CasGc for the runs. *)
EXTENDS CasGc, TLC

CONSTANTS t1, t2, u, b1, b2

\* t1 is a directory with a file b1 and a subdirectory u with a file b2; t2 is
\* a directory with the same file b2.
SharedChildren == t1 :> {b1, u} @@ u :> {b2} @@ t2 :> {b2}
SharedOrder == t1 :> <<b1, b2, u, t1>> @@ u :> <<b2, u>> @@ t2 :> <<b2, t2>>

\* A directory with a file and a subdirectory.
NestedChildren == t1 :> {b1, u} @@ u :> {b2}
NestedOrder == t1 :> <<b1, b2, u, t1>> @@ u :> <<b2, u>>
=============================================================================
