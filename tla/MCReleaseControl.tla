-------------------------- MODULE MCReleaseControl --------------------------
(* Small instances of ReleaseControl: three releases of which one drops a  *)
(* URL of the others, and two overlapping command invocations.             *)
EXTENDS ReleaseControl, TLC

CONSTANTS r1, r2, r3

\* r3 answers every URL of r1 and r2; r2 every URL of r1; going back loses URLs.
MCContinues == {<<r1, r2>>, <<r2, r3>>, <<r1, r3>>} \cap (Release \X Release)
Symmetry == Permutations(Operator)
=============================================================================
