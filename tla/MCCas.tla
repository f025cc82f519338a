------------------------------- MODULE MCCas --------------------------------
(* Values of the constants of Cas for the runs. *)
EXTENDS Cas, TLC

CONSTANTS d1, d2, w1, w2

\* Every digest has one writer, as shard ownership gives.
OwnsDisjoint == w1 :> {d1} @@ w2 :> {d2}

\* One writer, both digests.
OwnsAll == w1 :> {d1, d2}

\* Two writers of the same digest.
OwnsShared == w1 :> {d1} @@ w2 :> {d1}

InodeSymmetry == Permutations(Inodes)
=============================================================================
