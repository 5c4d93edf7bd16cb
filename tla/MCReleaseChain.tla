--------------------------- MODULE MCReleaseChain ---------------------------
(***************************************************************************)
(* ReleaseChain for TLC: runs, and candidates, are interchangeable.        *)
(***************************************************************************)
EXTENDS ReleaseChain, TLC

RunSymmetry == Permutations(Runs) \cup Permutations(Candidates)
=============================================================================
