----------------------------- MODULE MCIpcRunner -----------------------------
(* IpcRunner for TLC: two connections, two controller states.              *)
EXTENDS IpcRunner

CONSTANT A      \* a controller state with something pressed

MCStates == {Neutral, A}
MCSequences == 0 .. 1
=============================================================================
