---------------------------- MODULE MCSqlitePool ----------------------------
(* Instances of SqlitePool for TLC.                                         *)
EXTENDS SqlitePool, TLC

Symmetry == Permutations(Resp) \cup Permutations(Client)
=============================================================================
