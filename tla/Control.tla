------------------------------- MODULE Control -------------------------------
(***************************************************************************)
(* swbt/control/control.c over one domain, in the two ways the program     *)
(* uses it. In the daemon the IPC server is its only caller. A handle of   *)
(* the C API (swbt_open) has a domain and a control of its own, which no   *)
(* IPC client shares; any number of threads may submit on it.              *)
(*                                                                         *)
(* Each domain operation is atomic under the domain's spin lock.           *)
(* swbt_control_submit_state takes that lock twice (acquire, set_state)    *)
(* and increments next_direct_sequence in between without it: the load,    *)
(* the store and the second read of the counter are steps of their own,    *)
(* and the calls of other threads run between any two of them.             *)
(***************************************************************************)
EXTENDS Domain, Integers, FiniteSets

CONSTANTS
    Clients,        \* ids of IPC clients
    DirectClient,   \* swbt_control_direct_client_id, UINT32_MAX
    Callers,        \* threads that submit on a handle of the C API
    Sequences,      \* sequence numbers an IPC client may send
    MaxUpdates      \* bound: state updates counted by the metrics

ASSUME ControlAssumption ==
    /\ Clients \subseteq Nat
    /\ DirectClient \in Nat \ Clients
    /\ Sequences \subseteq Nat
    /\ MaxUpdates \in Nat

VARIABLES
    use,                    \* whose control it is: "daemon" or "handle"
    app,                    \* the domain, a DomainValue
    next_direct_sequence,   \* control->next_direct_sequence
    direct,                 \* the submission each caller is in
    origin,                 \* history: who stored app.state, and its sequence
    overtaken,              \* history: callers during whose submission another
                            \* caller's state was applied
    went_back               \* history: an increment stored a number below the
                            \* counter, because its load was out of date

vars == <<use, app, next_direct_sequence, direct, origin, overtaken, went_back>>
handle_vars == <<next_direct_sequence, direct, overtaken, went_back>>

\* A caller outside swbt_control_submit_state, with its last answer. A caller
\* inside has the state it submits and, as value, its copy of the counter.
Answered(result) == [pc |-> "idle", state |-> Neutral, value |-> 0, result |-> result]
Idle == Answered("none")
Nobody == [client |-> -1, sequence |-> 0]

\* swbt_control_map_app_result: a stale update is reported as a success.
map_app_result(result) == IF result = "STALE_SEQUENCE" THEN "OK" ELSE result

-----------------------------------------------------------------------------
Init ==
    /\ use \in {"daemon", "handle"}
    /\ app = domain_init
    /\ next_direct_sequence = 0
    /\ direct = [t \in Callers |-> Idle]
    /\ origin = Nobody
    /\ overtaken = {}
    /\ went_back = FALSE

\* The history after a revoke: nobody's, once nobody owns the controller.
OriginAfterRevoke == IF app'.lease.has_owner THEN origin ELSE Nobody

acquire_client(client_id) ==
    /\ use = "daemon"
    /\ app' = domain_acquire(app, client_id).app
    /\ UNCHANGED <<use, origin, handle_vars>>

release_client(client_id) ==
    /\ use = "daemon"
    /\ app' = domain_revoke(app, "RELEASE", client_id).app
    /\ origin' = OriginAfterRevoke
    /\ UNCHANGED <<use, handle_vars>>

disconnect_client(client_id) ==
    /\ use = "daemon"
    /\ app' = domain_revoke(app, "DISCONNECT", client_id).app
    /\ origin' = OriginAfterRevoke
    /\ UNCHANGED <<use, handle_vars>>

heartbeat_timeout_client(client_id) ==
    /\ use = "daemon"
    /\ app' = domain_revoke(app, "HEARTBEAT_TIMEOUT", client_id).app
    /\ origin' = OriginAfterRevoke
    /\ UNCHANGED <<use, handle_vars>>

shutdown ==
    /\ use = "daemon"
    /\ app' = domain_revoke(app, "SHUTDOWN", 0).app
    /\ origin' = OriginAfterRevoke
    /\ UNCHANGED <<use, handle_vars>>

\* An IPC client names an owner_id that is not its own.
record_rejected ==
    /\ use = "daemon"
    /\ app.accepted + app.rejected < MaxUpdates
    /\ app' = record_state_update_rejected(app)
    /\ UNCHANGED <<use, origin, handle_vars>>

submit_client_state(client_id, state, sequence) ==
    /\ use = "daemon"
    /\ app.accepted + app.rejected < MaxUpdates
    /\ LET set == domain_set_state(app, client_id, state, sequence)
       IN  /\ app' = set.app
           /\ origin' = IF set.result = "OK"
                        THEN [client |-> client_id, sequence |-> sequence]
                        ELSE origin
    /\ UNCHANGED <<use, handle_vars>>

Submitting == {t \in Callers : direct[t].pc # "idle"}

\* swbt_control_submit_state up to the first unlock: acquire as the direct
\* client, and give up when another client owns the controller.
submit_state_acquire(t, state) ==
    /\ use = "handle"
    /\ direct[t].pc = "idle"
    /\ app.accepted + app.rejected + Cardinality(Submitting) < MaxUpdates
    /\ LET acquired == domain_acquire(app, DirectClient)
       IN  /\ app' = acquired.app
           /\ direct' = [direct EXCEPT ![t] =
                 IF acquired.result = "OK"
                 THEN [pc |-> "acquired", state |-> state, value |-> 0, result |-> "none"]
                 ELSE Answered(acquired.result)]
    /\ overtaken' = overtaken \ {t}
    /\ UNCHANGED <<use, next_direct_sequence, origin, went_back>>

\* next_direct_sequence += 1u, outside the lock: the load ...
submit_state_load(t) ==
    /\ direct[t].pc = "acquired"
    /\ direct' = [direct EXCEPT ![t].pc = "loaded",
                                ![t].value = next_direct_sequence]
    /\ UNCHANGED <<use, app, next_direct_sequence, origin, overtaken, went_back>>

\* Mutant: the direct sequence counter is too narrow and wraps to 0.
submit_state_store_wraps(t) ==
    /\ direct[t].pc = "loaded"
    /\ next_direct_sequence' = (direct[t].value + 1) % 2
    /\ direct' = [direct EXCEPT ![t].pc = "stored",
                                ![t].value = next_direct_sequence']
    /\ went_back' = (went_back \/ direct[t].value + 1 < next_direct_sequence)
    /\ UNCHANGED <<use, app, origin, overtaken>>

\* ... and the store, which undoes what others counted since the load.
submit_state_store(t) ==
    /\ direct[t].pc = "loaded"
    /\ next_direct_sequence' = direct[t].value + 1
    /\ direct' = [direct EXCEPT ![t].pc = "stored",
                                ![t].value = direct[t].value + 1]
    /\ went_back' = (went_back \/ direct[t].value + 1 < next_direct_sequence)
    /\ UNCHANGED <<use, app, origin, overtaken>>

\* The argument of set_state: the value just stored, or the counter read once
\* more. The unlocked access is a data race, and the build may do either.
submit_state_pass(t) ==
    /\ direct[t].pc = "stored"
    /\ \E value \in {direct[t].value, next_direct_sequence} :
          direct' = [direct EXCEPT ![t].pc = "passed", ![t].value = value]
    /\ UNCHANGED <<use, app, next_direct_sequence, origin, overtaken, went_back>>

\* The second lock section and the answer.
submit_state_set(t) ==
    /\ direct[t].pc = "passed"
    /\ app.accepted + app.rejected < MaxUpdates
    /\ LET set == domain_set_state(app, DirectClient, direct[t].state, direct[t].value)
       IN  /\ app' = set.app
           /\ direct' = [direct EXCEPT ![t] = Answered(map_app_result(set.result))]
           /\ origin' = IF set.result = "OK"
                        THEN [client |-> DirectClient, sequence |-> direct[t].value]
                        ELSE origin
           /\ overtaken' = IF set.result = "OK"
                           THEN overtaken \cup (Submitting \ {t})
                           ELSE overtaken
    /\ UNCHANGED <<use, next_direct_sequence, went_back>>

\* swbt_close and a new swbt_open: a fresh domain and a fresh control. No call
\* on the old handle may be in progress.
reopen ==
    /\ use = "handle"
    /\ Submitting = {}
    /\ app' = domain_init
    /\ next_direct_sequence' = 0
    /\ direct' = [t \in Callers |-> Idle]
    /\ origin' = Nobody
    /\ overtaken' = {}
    /\ went_back' = FALSE
    /\ UNCHANGED use

Next ==
    \/ \E c \in Clients :
          \/ acquire_client(c)
          \/ release_client(c)
          \/ disconnect_client(c)
          \/ heartbeat_timeout_client(c)
          \/ \E s \in States, q \in Sequences : submit_client_state(c, s, q)
    \/ record_rejected
    \/ shutdown
    \/ \E t \in Callers :
          \/ \E s \in States : submit_state_acquire(t, s)
          \/ submit_state_load(t)
          \/ submit_state_store(t)
          \/ submit_state_pass(t)
          \/ submit_state_set(t)
    \/ reopen

Spec == Init /\ [][Next]_vars

-----------------------------------------------------------------------------
Direct ==
    [pc     : {"idle", "acquired", "loaded", "stored", "passed"},
     state  : States,
     value  : Nat,
     result : {"none", "OK", "OWNER_BUSY", "NOT_OWNER"}]

TypeOK ==
    /\ use \in {"daemon", "handle"}
    /\ app \in DomainValue
    /\ app.accepted + app.rejected <= MaxUpdates
    /\ next_direct_sequence \in Nat
    /\ direct \in [Callers -> Direct]
    /\ origin \in [client : Clients \cup {DirectClient, -1}, sequence : Nat]
    /\ overtaken \subseteq Callers
    /\ went_back \in BOOLEAN

\* Whatever calls interleave, the controller is neutral while nobody owns it
\* (domain.c: every path that clears the lease also applies neutral).
NeutralWhenUnowned == UnownedIsNeutral(app)

\* The input in force was stored by the client that owns the controller now:
\* no owner inherits, or has its input replaced by, another client's state.
\* last_sequence is the number that came with it (daemon-ipc-v1.md: last_seq
\* is the seq of the latest state).
InputIsOwners ==
    /\ app.state # Neutral => /\ app.lease.has_owner
                              /\ origin.client = app.lease.owner_client_id
    /\ app.lease.last_sequence = origin.sequence

\* While one client keeps the lease its last_sequence never goes back, a
\* repeated acquire included (lease.c leaves last_sequence alone there).
SequenceNeverGoesBack ==
    [][ (/\ app.lease.has_owner
         /\ app'.lease.has_owner
         /\ app'.lease.owner_client_id = app.lease.owner_client_id)
        => app'.lease.last_sequence >= app.lease.last_sequence ]_vars

\* swbt_submit_state answers OK although its state was dropped (control.c maps
\* a stale update to OK) only when another thread's state was applied during
\* the call, or after two increments of next_direct_sequence (control.c:127)
\* have overlapped so badly that the counter went back. Threads that take
\* turns on a handle never lose a submission.
DirectOkMeansApplied ==
    [][ \A t \in Callers :
          (/\ direct[t].pc = "passed"
           /\ direct'[t].pc = "idle"
           /\ direct'[t].result = "OK"
           /\ t \notin overtaken
           /\ ~went_back)
          => /\ app'.state = direct[t].state
             /\ app'.lease.owner_client_id = DirectClient ]_vars

\* The abstract controller that this module implements.
Lease_ == INSTANCE ControllerLease WITH
    Clients  <- Clients \cup {DirectClient},
    NoClient <- -1,
    driver   <- IF app.lease.has_owner THEN app.lease.owner_client_id ELSE -1,
    input    <- app.state

\* Control implements ControllerLease: one driver at a time, only its updates
\* change the input, and losing the lease releases the input in one step.
ImplementsControllerLease == Lease_!Spec
=============================================================================
