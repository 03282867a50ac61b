------------------------------ MODULE MCReplay ------------------------------
(* The replay alone: two animations, one fetch in flight. *)
EXTENDS Replay

Frames == [pm |-> 3, temp |-> 2]

=============================================================================
