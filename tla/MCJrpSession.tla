---------------------------- MODULE MCJrpSession ----------------------------
(* Values of the constants of JrpSession for the runs. *)
EXTENDS JrpSession

\* The range a conforming build announces.
OwnRange == {<<CMin, CMax>>}

\* Ranges a peer may announce in a frame of version 1: its own, one from the
\* future, one wider than the server's, an obsolete one, an inverted one.
AnyRange == {<<1, 1>>, <<2, 2>>, <<1, 3>>, <<0, 0>>, <<2, 1>>}
=============================================================================
