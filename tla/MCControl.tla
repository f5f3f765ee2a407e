------------------------------ MODULE MCControl ------------------------------
(* Control for TLC: two IPC clients, or two threads on one handle of the   *)
(* C API, and three states.                                                *)
EXTENDS Control

CONSTANTS
    A, B,       \* two controller states with something pressed
    T1, T2      \* two threads

MCClients == {1, 2}
MCDirectClient == 9
MCCallers == {T1, T2}
MCStates == {Neutral, A, B}
MCSequences == 0..2
=============================================================================
