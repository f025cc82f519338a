-------------------------- MODULE MCDecisionCache ---------------------------
(* Values of the constants of DecisionCache for the runs. *)
EXTENDS DecisionCache, TLC

\* Granted at first, revoked by the first change, granted again by the second.
Revoked == [k \in Keys |-> Versions \ {1}]
=============================================================================
