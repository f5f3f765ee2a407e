---------------------------- MODULE MCProduction ----------------------------
(* Production for TLC: one client, two controller states.                   *)
EXTENDS Production

CONSTANT A      \* a controller state with something pressed

MCStates == {Neutral, A}
=============================================================================
