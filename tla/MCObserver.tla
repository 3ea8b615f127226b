---------------------------- MODULE MCObserver ----------------------------
(* Instance of Observer for TLC. *)
EXTENDS Observer

CONSTANT v1

\* Three controllers whose ids are also possible epochs.
ThreeControllers == <<1, 2, 3>>

=============================================================================
