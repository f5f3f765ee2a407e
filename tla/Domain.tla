------------------------------- MODULE Domain -------------------------------
(***************************************************************************)
(* The controller ownership core of the daemon: swbt/domain/lease.c and    *)
(* the part of swbt/domain/domain.c that guards the controller state.      *)
(*                                                                         *)
(* Every public operation of domain.c takes the domain's spin lock, works  *)
(* on the whole structure and releases the lock, so each one is a single   *)
(* atomic function from a domain value to a result and a new domain value. *)
(* The modules that own a domain (Control, IpcRunner, Production) apply    *)
(* these functions in their actions.                                       *)
(*                                                                         *)
(* A controller state (buttons, sticks, IMU) is an opaque member of States *)
(* and swbt_state_neutral() is Neutral. A client id is a natural number;   *)
(* 0 is what the code stores when nobody owns the controller.              *)
(***************************************************************************)
EXTENDS Naturals

CONSTANTS
    States,     \* controller states
    Neutral     \* swbt_state_neutral()

ASSUME NeutralAssumption == Neutral \in States

-----------------------------------------------------------------------------
(* lease.c *)

Lease == [has_owner : BOOLEAN, owner_client_id : Nat, last_sequence : Nat]

lease_init ==
    [has_owner |-> FALSE, owner_client_id |-> 0, last_sequence |-> 0]

lease_held_by(lease, client_id) ==
    lease.has_owner /\ lease.owner_client_id = client_id

\* Mutant: the busy check is dropped, so a second client takes the lease over.
lease_acquire_steals(lease, client_id) ==
    [result |-> "OK",
     lease  |-> [lease EXCEPT !.has_owner = TRUE, !.owner_client_id = client_id]]

\* Mutant: a repeated acquire by the owner restarts its sequence numbers.
lease_acquire_restarts(lease, client_id) ==
    IF lease.has_owner /\ lease.owner_client_id # client_id
    THEN [result |-> "OWNER_BUSY", lease |-> lease]
    ELSE [result |-> "OK",
          lease  |-> [has_owner |-> TRUE, owner_client_id |-> client_id,
                      last_sequence |-> 0]]

\* Acquiring again as the owner succeeds and keeps last_sequence.
lease_acquire(lease, client_id) ==
    IF lease.has_owner /\ lease.owner_client_id # client_id
    THEN [result |-> "OWNER_BUSY", lease |-> lease]
    ELSE [result |-> "OK",
          lease  |-> [has_owner |-> TRUE, owner_client_id |-> client_id,
                      last_sequence |-> lease.last_sequence]]

lease_accept_sequence(lease, sequence) ==
    [has_owner |-> lease.has_owner, owner_client_id |-> lease.owner_client_id,
     last_sequence |-> sequence]

\* Mutant: the next owner inherits the last owner's sequence number.
lease_revoke_keeps_sequence(lease) ==
    [has_owner |-> FALSE, owner_client_id |-> 0, last_sequence |-> lease.last_sequence]

lease_revoke(lease) == lease_init

-----------------------------------------------------------------------------
(* domain.c. accepted and rejected are the two IPC counters of             *)
(* support/metrics.c that set_state maintains.                             *)

DomainValue ==
    [lease : Lease, state : States, accepted : Nat, rejected : Nat]

domain_init ==
    [lease |-> lease_init, state |-> Neutral, accepted |-> 0, rejected |-> 0]

apply_neutral(app) == [app EXCEPT !.state = Neutral]

\* Mutant: a rejection is counted twice, in the domain and in its caller.
record_rejected_twice(app) == [app EXCEPT !.rejected = @ + 2]

record_state_update_rejected(app) == [app EXCEPT !.rejected = @ + 1]

domain_acquire(app, client_id) ==
    LET acquired == lease_acquire(app.lease, client_id)
    IN  [result |-> acquired.result,
         app    |-> [app EXCEPT !.lease = acquired.lease]]

\* Mutant: the owner check is dropped.
domain_set_state_from_anyone(app, client_id, state, sequence) ==
    IF sequence < app.lease.last_sequence
    THEN [result |-> "STALE_SEQUENCE", app |-> record_state_update_rejected(app)]
    ELSE [result |-> "OK",
          app    |-> [lease    |-> lease_accept_sequence(app.lease, sequence),
                      state    |-> state,
                      accepted |-> app.accepted + 1,
                      rejected |-> app.rejected]]

\* Only the owner's update is applied, and only when its sequence number is
\* not below the last one applied; an equal number is applied again.
domain_set_state(app, client_id, state, sequence) ==
    IF ~lease_held_by(app.lease, client_id)
    THEN [result |-> "NOT_OWNER", app |-> record_state_update_rejected(app)]
    ELSE IF sequence < app.lease.last_sequence
    THEN [result |-> "STALE_SEQUENCE", app |-> record_state_update_rejected(app)]
    ELSE [result |-> "OK",
          app    |-> [lease    |-> lease_accept_sequence(app.lease, sequence),
                      state    |-> state,
                      accepted |-> app.accepted + 1,
                      rejected |-> app.rejected]]

revoke_all(app) == apply_neutral([app EXCEPT !.lease = lease_revoke(app.lease)])

RevokeReasons == {"RELEASE", "DISCONNECT", "HEARTBEAT_TIMEOUT", "SHUTDOWN"}

\* Mutant: a revoke clears the lease but leaves the last input pressed.
domain_revoke_keeps_state(app, reason, client_id) ==
    IF reason = "SHUTDOWN" \/ lease_held_by(app.lease, client_id)
    THEN [result |-> "OK",
          app    |-> [app EXCEPT !.lease = lease_revoke(app.lease)]]
    ELSE [result |-> IF reason = "RELEASE" THEN "NOT_OWNER" ELSE "OK",
          app    |-> app]

\* A release by somebody else is refused; a disconnect or a timeout of
\* somebody else succeeds and changes nothing; a shutdown revokes any owner.
domain_revoke(app, reason, client_id) ==
    IF reason = "SHUTDOWN" \/ lease_held_by(app.lease, client_id)
    THEN [result |-> "OK", app |-> revoke_all(app)]
    ELSE [result |-> IF reason = "RELEASE" THEN "NOT_OWNER" ELSE "OK",
          app    |-> app]

domain_read_controller_state(app) == app.state

-----------------------------------------------------------------------------
(* What every domain value the operations build satisfies.                 *)

\* The fail-safe of the daemon: nobody owns the controller only when it is
\* neutral, and then the sequence numbers start again from 0.
UnownedIsNeutral(app) ==
    ~app.lease.has_owner =>
        /\ app.state = Neutral
        /\ app.lease.last_sequence = 0
=============================================================================
