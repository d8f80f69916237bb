---------------------------- MODULE MCContainers ----------------------------
(* Uploads share a path, so that one replaces the other.                    *)
EXTENDS Containers, TLC

CONSTANTS f0, f1

MCPath == f0 :> "a" @@ f1 :> "a"

Symmetry == Permutations(Cont) \cup Permutations(RowId)
=============================================================================
