------------------------------ MODULE MCRegistry ------------------------------
(***************************************************************************)
(* A small registry: support lists with one model, with two, and with the  *)
(* same model twice (the protocol does not forbid it).                     *)
(***************************************************************************)
EXTENDS RegistryLedger

CONSTANTS m1, m2

MCModels == {m1, m2}
MCSupportLists == {<<m1>>, <<m1, m2>>, <<m2, m2>>}
MCMemories == {1, 2}

MCOneList == {<<m1, m2>>}

=============================================================================
