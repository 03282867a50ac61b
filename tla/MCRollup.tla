------------------------------ MODULE MCRollup ------------------------------
(* Instances of Rollup for TLC; the sets are model values of the .cfg files. *)
EXTENDS Rollup, TLC

\* Drainers are interchangeable, and so are series.
Symmetry == Permutations(Drainers) \cup Permutations(Series)
=============================================================================
