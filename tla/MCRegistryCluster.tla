--------------------------- MODULE MCRegistryCluster ---------------------------
(***************************************************************************)
(* Small clusters of workers that all support one model.                   *)
(***************************************************************************)
EXTENDS RegistryCluster, TLC

CONSTANT m1

MCModels == {m1}
MCSupportLists == {<<m1>>}
MCModels0 == <<m1>>

MCSymmetry == Permutations(Addrs)

=============================================================================
