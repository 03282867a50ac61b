----------------------------- MODULE MCTimelapse -----------------------------
(* Instances of Timelapse for TLC; the sets are model values of the .cfg. *)
EXTENDS Timelapse, TLC

\* Versions the filter admits are interchangeable.
UsableVersionsSymmetric == Permutations(UsableVersions)

=============================================================================
