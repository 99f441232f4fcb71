----------------------------- MODULE ObservationMC -----------------------------
(* Two or three turns, the first of them too short to be summed up.        *)
EXTENDS Observation
ShortTurns == {1}
================================================================================
