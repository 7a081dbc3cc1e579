---------------------------- MODULE MCJobRunner ----------------------------
(***************************************************************************)
(* Instances of JobRunner for TLC.                                         *)
(***************************************************************************)
EXTENDS JobRunner, TLC

\* Runs are interchangeable.
RunSymmetry == Permutations(Run)
=============================================================================
