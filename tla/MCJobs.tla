--------------------------------- MODULE MCJobs ---------------------------------
(***************************************************************************)
(* Two jobs of two slices, whose store holds two results each, of up to    *)
(* three saved.                                                            *)
(***************************************************************************)
EXTENDS JobLedger, TLC

CONSTANTS j1, j2, n1, n2, d

MCJobIds == {j1, j2}
MCNodes == {n1, n2}
MCDefinitions == {d}
MCMaxCounts == {-1, 0, 1, 3}

MCSymmetry == Permutations(MCJobIds) \cup Permutations(MCNodes)

=============================================================================
