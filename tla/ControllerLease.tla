--------------------------- MODULE ControllerLease ---------------------------
(***************************************************************************)
(* What the daemon promises about the controller, whatever the transport:  *)
(* one client at a time drives it, only that client changes the input, and *)
(* whenever nobody drives it the input is neutral (README.md, "neutral on  *)
(* disconnect and on exit"; spec/protocols/daemon-ipc-v1.md, neutral       *)
(* fail-safe). Control, IpcRunner and Session implement it.                *)
(***************************************************************************)
CONSTANTS
    Clients,    \* everybody that may drive the controller
    NoClient,   \* nobody, not a member of Clients
    States,     \* controller states
    Neutral     \* the input with nothing pressed

VARIABLES driver, input

vars == <<driver, input>>

Init == driver = NoClient /\ input = Neutral

\* A client starts driving a free controller, with the input still neutral.
Grant(client) ==
    /\ driver = NoClient
    /\ driver' = client
    /\ UNCHANGED input

\* The driver replaces the input.
Apply(state) ==
    /\ driver # NoClient
    /\ input' = state
    /\ UNCHANGED driver

\* The driver leaves or is removed: the input is released in the same step.
Withdraw ==
    /\ driver # NoClient
    /\ driver' = NoClient
    /\ input' = Neutral

Next ==
    \/ \E client \in Clients : Grant(client)
    \/ \E state \in States : Apply(state)
    \/ Withdraw

Spec == Init /\ [][Next]_vars
=============================================================================
