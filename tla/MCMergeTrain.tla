---------------------------- MODULE MCMergeTrain ----------------------------
(***************************************************************************)
(* MergeTrain for TLC.  Repositories of equal standing are interchangeable.*)
(***************************************************************************)
EXTENDS MergeTrain, TLC

RepoSymmetry == Permutations(Repos)
=============================================================================
