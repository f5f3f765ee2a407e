---------------------------- MODULE ControlProofs ----------------------------
(***************************************************************************)
(* Proofs about Control, for any set of clients, states and sequence       *)
(* numbers and any bounds.                                                 *)
(***************************************************************************)
EXTENDS Control, DomainProofs, TLAPS

-----------------------------------------------------------------------------
(* The inductive invariant. AppInv is about the domain alone. HandleInv    *)
(* adds what keeps a submission on a handle from being stale: as long as   *)
(* the counter has not gone back, it and every copy a caller holds are at  *)
(* least the number applied last, unless the caller was overtaken.         *)

AppInv ==
    /\ app \in DomainValue
    /\ app.accepted + app.rejected <= MaxUpdates
    /\ origin \in [client : Clients \cup {DirectClient, -1}, sequence : Nat]
    /\ NeutralWhenUnowned
    /\ InputIsOwners

\* The number the next direct update must not be below.
Applied == IF lease_held_by(app.lease, DirectClient)
           THEN app.lease.last_sequence ELSE 0

CopyHeld(t) == direct[t].pc \in {"loaded", "stored", "passed"}

CounterAhead ==
    /\ Applied <= next_direct_sequence
    /\ \A t \in Callers : CopyHeld(t) =>
          /\ direct[t].value <= next_direct_sequence
          /\ t \notin overtaken => Applied <= direct[t].value

HandleInv ==
    /\ use \in {"daemon", "handle"}
    /\ next_direct_sequence \in Nat
    /\ direct \in [Callers -> Direct]
    /\ overtaken \subseteq Callers
    /\ went_back \in BOOLEAN
    /\ ~went_back => CounterAhead

Inv == AppInv /\ HandleInv

\* The numbers compared by CounterAhead are naturals.
LEMMA AppliedIsNat == ASSUME app \in DomainValue PROVE Applied \in Nat
BY DEF Applied, DomainValue, Lease

\* An idle caller's record is well formed.
LEMMA IdleIsDirect == Idle \in Direct
BY NeutralAssumption DEF Idle, Answered, Direct

\* A fresh control over a fresh domain (swbt_control_init) satisfies the
\* invariant.
LEMMA FreshInv ==
    ASSUME use \in {"daemon", "handle"},
           app = domain_init,
           next_direct_sequence = 0,
           direct = [t \in Callers |-> Idle],
           origin = Nobody,
           overtaken = {},
           went_back = FALSE
    PROVE  Inv
<1>1. /\ app \in DomainValue
      /\ app.lease.has_owner = FALSE
      /\ app.lease.last_sequence = 0
      /\ app.state = Neutral
      /\ app.accepted = 0 /\ app.rejected = 0
  BY InitFacts DEF domain_init, lease_init
<1>2. app.accepted + app.rejected <= MaxUpdates
  BY <1>1, ControlAssumption
<1>3. NeutralWhenUnowned
  BY <1>1 DEF NeutralWhenUnowned, UnownedIsNeutral
<1>4. InputIsOwners
  BY <1>1 DEF InputIsOwners, Nobody
<1>5. origin \in [client : Clients \cup {DirectClient, -1}, sequence : Nat]
  BY DEF Nobody
<1>6. direct \in [Callers -> Direct]
  BY IdleIsDirect
<1>7. CounterAhead
  <2>1. Applied = 0
    BY <1>1 DEF Applied, lease_held_by
  <2>2. \A t \in Callers : ~CopyHeld(t)
    BY DEF CopyHeld, Idle, Answered
  <2> QED BY <2>1, <2>2 DEF CounterAhead
<1> QED BY <1>1, <1>2, <1>3, <1>4, <1>5, <1>6, <1>7 DEF Inv, AppInv, HandleInv

\* The initial states satisfy the invariant.
LEMMA InitInv == Init => Inv
BY FreshInv DEF Init

\* A swbt_domain_acquire by any client keeps the invariant: a new owner starts
\* with the neutral state and sequence 0.
LEMMA AcquireKeepsInv ==
    ASSUME AppInv, NEW c \in Clients \cup {DirectClient},
           app' = domain_acquire(app, c).app,
           UNCHANGED origin
    PROVE  AppInv' /\ Applied' <= Applied
<1>1. c \in Nat
  BY ControlAssumption
<1>2. app \in DomainValue
  BY DEF AppInv
<1>3. app' \in DomainValue
  BY <1>1, <1>2, AcquireFacts
<1>4. CASE app' = app
  BY <1>2, <1>4, AppliedIsNat DEF AppInv, NeutralWhenUnowned, InputIsOwners, Applied
<1>5. CASE /\ app.lease.has_owner => app.lease.owner_client_id = c
           /\ app' = [app EXCEPT !.lease =
                        [has_owner |-> TRUE, owner_client_id |-> c,
                         last_sequence |-> app.lease.last_sequence]]
  <2>1. /\ app'.lease.has_owner = TRUE
        /\ app'.lease.owner_client_id = c
        /\ app'.lease.last_sequence = app.lease.last_sequence
        /\ app'.state = app.state
        /\ app'.accepted = app.accepted
        /\ app'.rejected = app.rejected
    BY <1>2, <1>5 DEF DomainValue
  <2>2. NeutralWhenUnowned'
    BY <2>1 DEF NeutralWhenUnowned, UnownedIsNeutral
  <2>3. InputIsOwners'
    BY <1>5, <2>1 DEF AppInv, InputIsOwners
  <2>4. Applied' = Applied
    <3>1. CASE app.lease.has_owner
      BY <1>5, <2>1, <3>1 DEF Applied, lease_held_by
    <3>2. CASE ~app.lease.has_owner
      <4>1. app.lease.last_sequence = 0
        BY <3>2 DEF AppInv, NeutralWhenUnowned, UnownedIsNeutral
      <4> QED BY <4>1, <2>1, <3>2 DEF Applied, lease_held_by
    <3> QED BY <3>1, <3>2
  <2>5. Applied' <= Applied
    BY <1>2, <2>4, AppliedIsNat
  <2> QED BY <1>3, <2>1, <2>2, <2>3, <2>5 DEF AppInv
<1> QED BY <1>1, <1>2, <1>4, <1>5, AcquireFacts

\* A swbt_domain_revoke for any reason keeps the invariant: it clears owner,
\* state and sequence together or changes nothing.
LEMMA RevokeKeepsInv ==
    ASSUME AppInv, NEW c \in Nat, NEW reason \in RevokeReasons,
           app' = domain_revoke(app, reason, c).app,
           origin' = OriginAfterRevoke
    PROVE  AppInv' /\ Applied' <= Applied
<1>1. app \in DomainValue
  BY DEF AppInv
<1>2. /\ app' \in DomainValue
      /\ app'.accepted = app.accepted
      /\ app'.rejected = app.rejected
      /\ app' = app \/ (app'.lease = lease_init /\ app'.state = Neutral)
  BY <1>1, RevokeFacts
<1>3. origin' \in [client : Clients \cup {DirectClient, -1}, sequence : Nat]
  BY DEF AppInv, OriginAfterRevoke, Nobody
<1>4. CASE app' = app /\ app.lease.has_owner
  <2>1. origin' = origin
    BY <1>4 DEF OriginAfterRevoke
  <2> QED BY <1>1, <1>4, <2>1, AppliedIsNat
          DEF AppInv, NeutralWhenUnowned, InputIsOwners, Applied
<1>5. CASE /\ ~app'.lease.has_owner
           /\ app'.lease.last_sequence = 0
           /\ app'.state = Neutral
  <2>1. origin' = Nobody
    BY <1>5 DEF OriginAfterRevoke
  <2>2. NeutralWhenUnowned'
    BY <1>5 DEF NeutralWhenUnowned, UnownedIsNeutral
  <2>3. InputIsOwners'
    BY <1>5, <2>1 DEF InputIsOwners, Nobody
  <2>4. Applied' <= Applied
    BY <1>1, <1>5, AppliedIsNat DEF Applied, lease_held_by
  <2> QED BY <1>2, <1>3, <2>2, <2>3, <2>4 DEF AppInv
<1>6. CASE app' = app /\ ~app.lease.has_owner
  BY <1>5, <1>6 DEF AppInv, NeutralWhenUnowned, UnownedIsNeutral
<1>7. CASE app'.lease = lease_init /\ app'.state = Neutral
  BY <1>5, <1>7 DEF lease_init
<1> QED BY <1>2, <1>4, <1>6, <1>7

\* A swbt_domain_set_state by any client keeps the invariant; only the direct
\* client's own update moves the number applied for it.
LEMMA SetStateKeepsInv ==
    ASSUME AppInv, NEW c \in Clients \cup {DirectClient},
           NEW s \in States, NEW q \in Nat,
           app.accepted + app.rejected < MaxUpdates,
           app' = domain_set_state(app, c, s, q).app,
           origin' = IF domain_set_state(app, c, s, q).result = "OK"
                     THEN [client |-> c, sequence |-> q] ELSE origin
    PROVE  /\ AppInv'
           /\ domain_set_state(app, c, s, q).result # "OK" => Applied' = Applied
           /\ Applied' = Applied \/ (c = DirectClient /\ Applied' = q)
<1> DEFINE r == domain_set_state(app, c, s, q)
<1>1. app \in DomainValue /\ c \in Nat
  BY ControlAssumption DEF AppInv
<1>2. /\ app' \in DomainValue
      /\ app'.accepted + app'.rejected = app.accepted + app.rejected + 1
      /\ app'.lease.has_owner = app.lease.has_owner
      /\ app'.lease.owner_client_id = app.lease.owner_client_id
  BY <1>1, SetStateFacts
<1>3. app'.accepted + app'.rejected <= MaxUpdates
  BY <1>1, <1>2, ControlAssumption DEF DomainValue
<1>3a. PICK before, after, result : /\ before = app /\ after = app' /\ result = r.result
                                    /\ after = r.app
  OBVIOUS
<1>3b. \/ /\ result = "OK" /\ before.lease.has_owner /\ before.lease.owner_client_id = c
          /\ after.state = s /\ after.lease.last_sequence = q
       \/ /\ result # "OK" /\ after.state = before.state
          /\ after.lease.last_sequence = before.lease.last_sequence
  BY <1>1, <1>3a, SetStateFacts
<1>4. CASE r.result = "OK"
  <2>1. /\ app.lease.has_owner
        /\ app.lease.owner_client_id = c
        /\ app'.state = s
        /\ app'.lease.last_sequence = q
    BY <1>3a, <1>3b, <1>4
  <2>2. origin' = [client |-> c, sequence |-> q]
    BY <1>4
  <2>3. NeutralWhenUnowned'
    BY <1>2, <2>1 DEF NeutralWhenUnowned, UnownedIsNeutral
  <2>4. InputIsOwners'
    BY <1>2, <2>1, <2>2 DEF InputIsOwners
  <2>5. Applied' = Applied \/ (c = DirectClient /\ Applied' = q)
    BY <1>2, <2>1 DEF Applied, lease_held_by
  <2>6. origin' \in [client : Clients \cup {DirectClient, -1}, sequence : Nat]
    BY <2>2
  <2> QED BY <1>2, <1>3, <1>4, <2>3, <2>4, <2>5, <2>6 DEF AppInv
<1>5. CASE r.result # "OK"
  <2>1. /\ app'.state = app.state
        /\ app'.lease.last_sequence = app.lease.last_sequence
    BY <1>3a, <1>3b, <1>5
  <2>2. origin' = origin
    BY <1>5
  <2>3. NeutralWhenUnowned'
    BY <1>2, <2>1 DEF AppInv, NeutralWhenUnowned, UnownedIsNeutral
  <2>4. InputIsOwners'
    BY <1>2, <2>1, <2>2 DEF AppInv, InputIsOwners
  <2>5. Applied' = Applied
    BY <1>2, <2>1 DEF Applied, lease_held_by
  <2> QED BY <1>2, <1>3, <2>2, <2>3, <2>4, <2>5 DEF AppInv
<1> QED BY <1>4, <1>5

\* A step that leaves the callers alone and raises nothing keeps HandleInv.
LEMMA HandleKept ==
    ASSUME Inv, AppInv', Applied' <= Applied, UNCHANGED <<use, handle_vars>>
    PROVE  Inv'
<1>1. Applied \in Nat /\ Applied' \in Nat
  BY AppliedIsNat DEF Inv, AppInv, Applied, DomainValue, Lease
<1>2. /\ next_direct_sequence' = next_direct_sequence
      /\ direct' = direct /\ overtaken' = overtaken /\ went_back' = went_back
      /\ use' = use
  BY DEF handle_vars
<1>3. ASSUME CounterAhead PROVE CounterAhead'
  <2>1. Applied' <= next_direct_sequence
    BY <1>1, <1>3 DEF CounterAhead, Inv, HandleInv
  <2>2. ASSUME NEW t \in Callers, CopyHeld(t)
        PROVE  /\ direct[t].value <= next_direct_sequence
               /\ t \notin overtaken => Applied' <= direct[t].value
    <3>1. direct[t].value \in Nat
      BY DEF Inv, HandleInv, Direct
    <3> QED BY <1>1, <1>3, <2>2, <3>1 DEF CounterAhead
  <2> QED BY <1>2, <2>1, <2>2 DEF CounterAhead, CopyHeld
<1> QED BY <1>2, <1>3 DEF Inv, HandleInv

\* The acquire of a submission keeps the invariant: the caller holds no copy
\* of the counter yet.
LEMMA SubmitAcquireKeepsInv ==
    ASSUME Inv, NEW t \in Callers, NEW s \in States, submit_state_acquire(t, s)
    PROVE  Inv'
<1> DEFINE d == direct'[t]
<1>1. AppInv' /\ Applied' <= Applied
  BY AcquireKeepsInv DEF submit_state_acquire, Inv
<1>2. domain_acquire(app, DirectClient).result \in {"OK", "OWNER_BUSY"}
  BY AcquireFacts, ControlAssumption DEF Inv, AppInv
<1>3. d \in Direct /\ d.pc \in {"idle", "acquired"}
  BY <1>2, NeutralAssumption DEF submit_state_acquire, Inv, HandleInv, Answered, Direct
<1>4. /\ direct' = [direct EXCEPT ![t] = d]
      /\ overtaken' = overtaken \ {t}
      /\ UNCHANGED <<use, next_direct_sequence, went_back>>
  BY DEF submit_state_acquire, Inv, HandleInv
<1> HIDE DEF d
<1>5. direct' \in [Callers -> Direct]
  BY <1>3, <1>4 DEF Inv, HandleInv
<1>6. Applied \in Nat /\ Applied' \in Nat
  BY <1>1, AppliedIsNat DEF Inv, AppInv, Applied, DomainValue, Lease
<1>7. ASSUME CounterAhead PROVE CounterAhead'
  <2>1. Applied' <= next_direct_sequence'
    BY <1>1, <1>4, <1>6, <1>7 DEF CounterAhead, Inv, HandleInv
  <2>2. ASSUME NEW u \in Callers, CopyHeld(u)'
        PROVE  /\ direct'[u].value <= next_direct_sequence'
               /\ u \notin overtaken' => Applied' <= direct'[u].value
    <3>1. u # t /\ direct'[u] = direct[u]
      BY <1>3, <1>4, <2>2 DEF CopyHeld, Inv, HandleInv
    <3>2. CopyHeld(u)
      BY <2>2, <3>1 DEF CopyHeld
    <3>3. direct[u].value \in Nat
      BY DEF Inv, HandleInv, Direct
    <3> QED BY <1>1, <1>4, <1>6, <1>7, <3>1, <3>2, <3>3 DEF CounterAhead
  <2> QED BY <2>1, <2>2 DEF CounterAhead
<1> QED BY <1>1, <1>4, <1>5, <1>7 DEF Inv, HandleInv

\* The load, the store and the passing of the counter keep the invariant: they
\* leave the domain alone and move the caller's own copy, upwards unless the
\* counter goes back.
LEMMA CounterStepKeepsInv ==
    ASSUME Inv, NEW t \in Callers,
           submit_state_load(t) \/ submit_state_store(t) \/ submit_state_pass(t)
    PROVE  Inv'
<1> DEFINE d == direct'[t]
<1>1. app' = app /\ origin' = origin /\ use' = use /\ overtaken' = overtaken
  BY DEF submit_state_load, submit_state_store, submit_state_pass
<1>2. AppInv' /\ Applied' = Applied
  BY <1>1 DEF Inv, AppInv, NeutralWhenUnowned, InputIsOwners, Applied
<1>3. direct[t] \in Direct /\ next_direct_sequence \in Nat
  BY DEF Inv, HandleInv
<1>4. /\ direct' = [direct EXCEPT ![t] = d]
      /\ d \in Direct
      /\ next_direct_sequence' \in Nat
      /\ went_back' \in BOOLEAN
  BY <1>3 DEF submit_state_load, submit_state_store, submit_state_pass,
              Inv, HandleInv, Direct
<1>5. ASSUME ~went_back'
      PROVE  /\ ~went_back
             /\ next_direct_sequence <= next_direct_sequence'
             /\ d.value <= next_direct_sequence'
             /\ \/ d.value = next_direct_sequence
                \/ CopyHeld(t) /\ direct[t].value <= d.value
  <2>1. CASE submit_state_load(t)
    BY <1>3, <1>5, <2>1 DEF submit_state_load, Inv, HandleInv, Direct
  <2>2. CASE submit_state_store(t)
    BY <1>3, <1>5, <2>2 DEF submit_state_store, Inv, HandleInv, Direct, CopyHeld
  <2>3. CASE submit_state_pass(t)
    <3>1. direct[t].value <= next_direct_sequence /\ CopyHeld(t) /\ ~went_back
      BY <1>5, <2>3 DEF submit_state_pass, Inv, HandleInv, CounterAhead, CopyHeld
    <3> QED BY <1>3, <2>3, <3>1 DEF submit_state_pass, Inv, HandleInv, Direct
  <2> QED BY <2>1, <2>2, <2>3
<1> HIDE DEF d
<1>6. ASSUME ~went_back' PROVE CounterAhead'
  <2>0. CounterAhead
    BY <1>5, <1>6 DEF Inv, HandleInv
  <2>1. Applied \in Nat /\ d.value \in Nat /\ direct[t].value \in Nat
    BY <1>3, <1>4, AppliedIsNat DEF Inv, AppInv, Direct
  <2>2. Applied <= next_direct_sequence'
    BY <1>3, <1>4, <1>5, <1>6, <2>0, <2>1 DEF CounterAhead
  <2>3. ASSUME NEW u \in Callers, CopyHeld(u)'
        PROVE  /\ direct'[u].value <= next_direct_sequence'
               /\ u \notin overtaken => Applied <= direct'[u].value
    <3>1. CASE u = t
      <4>1. direct'[u] = d
        BY <1>4, <3>1 DEF Inv, HandleInv
      <4>2. t \notin overtaken => Applied <= d.value
        BY <1>3, <1>5, <1>6, <2>0, <2>1 DEF CounterAhead
      <4> QED BY <1>5, <1>6, <3>1, <4>1, <4>2
    <3>2. CASE u # t
      <4>1. direct'[u] = direct[u] /\ direct[u].value \in Nat
        BY <1>4, <3>2 DEF Inv, HandleInv, Direct
      <4>2. CopyHeld(u)
        BY <2>3, <4>1 DEF CopyHeld
      <4> QED BY <1>3, <1>4, <1>5, <1>6, <2>0, <4>1, <4>2 DEF CounterAhead
    <3> QED BY <3>1, <3>2
  <2> QED BY <1>1, <1>2, <2>2, <2>3 DEF CounterAhead
<1>7. direct' \in [Callers -> Direct]
  BY <1>4 DEF Inv, HandleInv
<1> QED BY <1>1, <1>2, <1>4, <1>6, <1>7 DEF Inv, HandleInv

\* The update of a submission keeps the invariant: it overtakes every other
\* caller that is inside, so their copies need not be ahead any more.
LEMMA SubmitSetKeepsInv ==
    ASSUME Inv, NEW t \in Callers, submit_state_set(t)
    PROVE  Inv'
<1> DEFINE q == direct[t].value
           r == domain_set_state(app, DirectClient, direct[t].state, q)
           d == direct'[t]
<1>1. direct[t].state \in States /\ q \in Nat /\ DirectClient \in Clients \cup {DirectClient}
  BY DEF Inv, HandleInv, Direct
<1>2. /\ app.accepted + app.rejected < MaxUpdates
      /\ app' = r.app
      /\ origin' = IF r.result = "OK"
                   THEN [client |-> DirectClient, sequence |-> q] ELSE origin
      /\ overtaken' = IF r.result = "OK" THEN overtaken \cup (Submitting \ {t})
                      ELSE overtaken
      /\ direct' = [direct EXCEPT ![t] = Answered(map_app_result(r.result))]
      /\ UNCHANGED <<use, next_direct_sequence, went_back>>
      /\ direct[t].pc = "passed"
  BY DEF submit_state_set
<1>3. /\ AppInv'
      /\ r.result # "OK" => Applied' = Applied
      /\ Applied' = Applied \/ Applied' = q
  <2> HIDE DEF q
  <2> QED BY <1>1, <1>2, SetStateKeepsInv DEF Inv
<1>4. r.result \in {"OK", "NOT_OWNER", "STALE_SEQUENCE"}
  <2> HIDE DEF q
  <2> QED BY <1>1, SetStateFacts, ControlAssumption DEF Inv, AppInv
<1>5. d \in Direct /\ d.pc = "idle" /\ direct' = [direct EXCEPT ![t] = d]
  BY <1>2, <1>4, NeutralAssumption
     DEF Inv, HandleInv, Direct, Answered, map_app_result
<1> HIDE DEF d
<1>6. direct' \in [Callers -> Direct]
  BY <1>5 DEF Inv, HandleInv
<1>7. overtaken' \subseteq Callers
  BY <1>2 DEF Inv, HandleInv, Submitting
<1>8. ASSUME CounterAhead PROVE CounterAhead'
  <2>1. CopyHeld(t)
    BY <1>2 DEF CopyHeld
  <2>2. Applied' <= next_direct_sequence'
    BY <1>2, <1>3, <1>8, <2>1 DEF CounterAhead
  <2>3. ASSUME NEW u \in Callers, CopyHeld(u)'
        PROVE  /\ direct'[u].value <= next_direct_sequence'
               /\ u \notin overtaken' => Applied' <= direct'[u].value
    <3>1. u # t /\ direct'[u] = direct[u]
      BY <1>5, <2>3 DEF CopyHeld, Inv, HandleInv
    <3>2. CopyHeld(u) /\ u \in Submitting
      BY <2>3, <3>1 DEF CopyHeld, Submitting
    <3>3. u \notin overtaken' => r.result # "OK" /\ u \notin overtaken
      BY <1>2, <3>1, <3>2
    <3> QED BY <1>2, <1>3, <1>8, <3>1, <3>2, <3>3 DEF CounterAhead
  <2> QED BY <2>2, <2>3 DEF CounterAhead
<1> QED BY <1>2, <1>3, <1>6, <1>7, <1>8 DEF Inv, HandleInv

\* Every operation of control.c keeps the invariant.
LEMMA NextInv == Inv /\ [Next]_vars => Inv'
<1> SUFFICES ASSUME Inv, [Next]_vars PROVE Inv'
  OBVIOUS
<1>0. AppInv
  BY DEF Inv
<1>1. ASSUME NEW c \in Clients, acquire_client(c) PROVE Inv'
  BY <1>0, <1>1, AcquireKeepsInv, HandleKept DEF acquire_client
<1>2. ASSUME NEW c \in Clients, release_client(c) PROVE Inv'
  BY <1>0, <1>2, RevokeKeepsInv, HandleKept, ControlAssumption
     DEF release_client, RevokeReasons
<1>3. ASSUME NEW c \in Clients, disconnect_client(c) PROVE Inv'
  BY <1>0, <1>3, RevokeKeepsInv, HandleKept, ControlAssumption
     DEF disconnect_client, RevokeReasons
<1>4. ASSUME NEW c \in Clients, heartbeat_timeout_client(c) PROVE Inv'
  BY <1>0, <1>4, RevokeKeepsInv, HandleKept, ControlAssumption
     DEF heartbeat_timeout_client, RevokeReasons
<1>5. ASSUME NEW c \in Clients, NEW s \in States, NEW q \in Sequences,
             submit_client_state(c, s, q)
      PROVE  Inv'
  <2>1. q \in Nat /\ c \in Clients \cup {DirectClient} /\ c # DirectClient
    BY ControlAssumption
  <2>2. /\ app.accepted + app.rejected < MaxUpdates
        /\ app' = domain_set_state(app, c, s, q).app
        /\ origin' = IF domain_set_state(app, c, s, q).result = "OK"
                     THEN [client |-> c, sequence |-> q] ELSE origin
        /\ UNCHANGED <<use, handle_vars>>
    BY <1>5 DEF submit_client_state
  <2>3. AppInv' /\ Applied' = Applied
    BY <1>0, <2>1, <2>2, SetStateKeepsInv
  <2>4. Applied' <= Applied
    BY <1>0, <2>3, AppliedIsNat DEF AppInv
  <2> QED BY <2>2, <2>3, <2>4, HandleKept
<1>6. CASE record_rejected
  <2>1. /\ app' = [app EXCEPT !.rejected = @ + 1]
        /\ app.accepted + app.rejected < MaxUpdates
        /\ UNCHANGED <<use, origin, handle_vars>>
    BY <1>6 DEF record_rejected, record_state_update_rejected
  <2>2. app \in DomainValue
    BY <1>0 DEF AppInv
  <2>3. /\ app' \in DomainValue
        /\ app'.lease = app.lease
        /\ app'.state = app.state
        /\ app'.accepted + app'.rejected <= MaxUpdates
    BY <2>1, <2>2, ControlAssumption DEF DomainValue
  <2>4. AppInv'
    BY <1>0, <2>1, <2>3 DEF AppInv, NeutralWhenUnowned, UnownedIsNeutral, InputIsOwners
  <2>5. Applied' <= Applied
    BY <2>2, <2>3, AppliedIsNat DEF Applied
  <2> QED BY <2>1, <2>4, <2>5, HandleKept
<1>7. CASE shutdown
  BY <1>0, <1>7, RevokeKeepsInv, HandleKept DEF shutdown, RevokeReasons
<1>8. ASSUME NEW t \in Callers, NEW s \in States, submit_state_acquire(t, s)
      PROVE  Inv'
  BY <1>8, SubmitAcquireKeepsInv
<1>9. ASSUME NEW t \in Callers,
             submit_state_load(t) \/ submit_state_store(t) \/ submit_state_pass(t)
      PROVE  Inv'
  BY <1>9, CounterStepKeepsInv
<1>10. ASSUME NEW t \in Callers, submit_state_set(t) PROVE Inv'
  BY <1>10, SubmitSetKeepsInv
<1>11. CASE reopen
  <2>1. /\ (use \in {"daemon", "handle"})'
        /\ (app = domain_init)'
        /\ (next_direct_sequence = 0)'
        /\ (direct = [t \in Callers |-> Idle])'
        /\ (origin = Nobody)'
        /\ (overtaken = {})'
        /\ (went_back = FALSE)'
    BY <1>11 DEF reopen, Inv, HandleInv
  <2>2. (use \in {"daemon", "handle"} /\ app = domain_init
         /\ next_direct_sequence = 0 /\ direct = [t \in Callers |-> Idle]
         /\ origin = Nobody /\ overtaken = {} /\ went_back = FALSE => Inv)'
    BY FreshInv, PTL
  <2> QED BY <2>1, <2>2
<1>12. CASE UNCHANGED vars
  BY <1>12 DEF vars, Inv, AppInv, HandleInv, NeutralWhenUnowned, InputIsOwners,
               CounterAhead, CopyHeld, Applied
<1> QED BY <1>1, <1>2, <1>3, <1>4, <1>5, <1>6, <1>7, <1>8, <1>9, <1>10, <1>11,
           <1>12 DEF Next

\* The inductive invariant holds in every reachable state.
THEOREM Invariance == Spec => []Inv
BY InitInv, NextInv, PTL DEF Spec

\* Type correctness of Control, with the bound on the two IPC counters.
THEOREM TypeCorrect == Spec => []TypeOK
<1>1. Inv => TypeOK
  BY DEF Inv, AppInv, HandleInv, TypeOK
<1> QED BY <1>1, Invariance, PTL

\* The fail-safe: in every reachable state of control.c the controller is
\* neutral, and the sequence numbers restart, when nobody owns it.
THEOREM AlwaysNeutralWhenUnowned == Spec => []NeutralWhenUnowned
<1>1. Inv => NeutralWhenUnowned
  BY DEF Inv, AppInv
<1> QED BY <1>1, Invariance, PTL

\* The input in force always comes from the current owner.
THEOREM AlwaysInputIsOwners == Spec => []InputIsOwners
<1>1. Inv => InputIsOwners
  BY DEF Inv, AppInv
<1> QED BY <1>1, Invariance, PTL

-----------------------------------------------------------------------------
(* Action properties and refinement: what each operation does to the lease *)
(* and to the state, read off the facts about the domain operations.       *)

\* Every step acquires, updates or revokes as one of the domain operations
\* says, or leaves lease and state alone.
LeaseStep ==
    \/ app'.lease = app.lease /\ app'.state = app.state
    \/ /\ \E c \in Clients \cup {DirectClient} :
             /\ app.lease.has_owner => app.lease.owner_client_id = c
             /\ app'.lease = [has_owner |-> TRUE, owner_client_id |-> c,
                              last_sequence |-> app.lease.last_sequence]
       /\ app'.state = app.state
    \/ /\ app.lease.has_owner
       /\ app'.lease.has_owner = TRUE
       /\ app'.lease.owner_client_id = app.lease.owner_client_id
       /\ app'.lease.last_sequence >= app.lease.last_sequence
       /\ app'.state \in States
    \/ app'.lease = lease_init /\ app'.state = Neutral

\* The shape of a step that acquires.
LEMMA AcquireStep ==
    ASSUME AppInv, NEW c \in Clients \cup {DirectClient},
           app' = domain_acquire(app, c).app
    PROVE  LeaseStep
<1>1. app \in DomainValue /\ c \in Nat
  BY ControlAssumption DEF AppInv
<1>2. CASE app' = app
  BY <1>2 DEF LeaseStep
<1>3. CASE /\ app.lease.has_owner => app.lease.owner_client_id = c
           /\ app' = [app EXCEPT !.lease =
                        [has_owner |-> TRUE, owner_client_id |-> c,
                         last_sequence |-> app.lease.last_sequence]]
  <2>1. /\ app'.lease = [has_owner |-> TRUE, owner_client_id |-> c,
                         last_sequence |-> app.lease.last_sequence]
        /\ app'.state = app.state
    BY <1>1, <1>3 DEF DomainValue
  <2> QED BY <1>3, <2>1 DEF LeaseStep
<1> QED BY <1>1, <1>2, <1>3, AcquireFacts

\* The shape of a step that revokes.
LEMMA RevokeStep ==
    ASSUME AppInv, NEW c \in Nat, NEW reason \in RevokeReasons,
           app' = domain_revoke(app, reason, c).app
    PROVE  LeaseStep
<1>1. app' = app \/ (app'.lease = lease_init /\ app'.state = Neutral)
  BY RevokeFacts DEF AppInv
<1> QED BY <1>1 DEF LeaseStep

\* The shape of a step that sets a state.
LEMMA SetStateStep ==
    ASSUME AppInv, NEW c \in Nat, NEW s \in States, NEW q \in Nat,
           app' = domain_set_state(app, c, s, q).app
    PROVE  LeaseStep
<1> DEFINE r == domain_set_state(app, c, s, q)
<1>1. app \in DomainValue
  BY DEF AppInv
<1>2. /\ app' \in DomainValue
      /\ app'.lease.has_owner = app.lease.has_owner
      /\ app'.lease.owner_client_id = app.lease.owner_client_id
  BY <1>1, SetStateFacts
<1>3. CASE r.result = "OK"
  <2>1. /\ app.lease.has_owner
        /\ app.lease.last_sequence <= q
        /\ app'.state = s
        /\ app'.lease.last_sequence = q
    BY <1>1, <1>3, SetStateFacts
  <2>2. app'.lease.has_owner = TRUE
    BY <1>1, <1>2, <2>1 DEF DomainValue, Lease
  <2>3. app'.lease.last_sequence >= app.lease.last_sequence
    BY <1>1, <2>1 DEF DomainValue, Lease
  <2> QED BY <1>2, <2>1, <2>2, <2>3 DEF LeaseStep
<1>4. CASE r.result # "OK"
  <2>1. /\ app'.state = app.state
        /\ app'.lease.last_sequence = app.lease.last_sequence
    BY <1>1, <1>4, SetStateFacts
  <2>2. app'.lease = app.lease
    BY <1>1, <1>2, <2>1 DEF DomainValue, Lease
  <2> QED BY <2>1, <2>2 DEF LeaseStep
<1> QED BY <1>3, <1>4

\* Every step of control.c has one of those shapes.
LEMMA EveryLeaseStep == Inv /\ [Next]_vars => LeaseStep
<1> SUFFICES ASSUME Inv, [Next]_vars PROVE LeaseStep
  OBVIOUS
<1> USE DEF Inv
<1>1. ASSUME NEW c \in Clients, acquire_client(c) PROVE LeaseStep
  BY <1>1, AcquireStep DEF acquire_client
<1>2. ASSUME NEW c \in Clients,
             release_client(c) \/ disconnect_client(c) \/ heartbeat_timeout_client(c)
      PROVE  LeaseStep
  <2>1. PICK reason \in RevokeReasons : app' = domain_revoke(app, reason, c).app
    BY <1>2 DEF release_client, disconnect_client, heartbeat_timeout_client,
                RevokeReasons
  <2> QED BY <2>1, RevokeStep, ControlAssumption
<1>3. ASSUME NEW c \in Clients, NEW s \in States, NEW q \in Sequences,
             submit_client_state(c, s, q)
      PROVE  LeaseStep
  BY <1>3, SetStateStep, ControlAssumption DEF submit_client_state
<1>4. CASE record_rejected
  <2>1. app' = [app EXCEPT !.rejected = @ + 1] /\ app \in DomainValue
    BY <1>4 DEF record_rejected, record_state_update_rejected, AppInv
  <2>2. app'.lease = app.lease /\ app'.state = app.state
    BY <2>1 DEF DomainValue
  <2> QED BY <2>2 DEF LeaseStep
<1>5. CASE shutdown
  BY <1>5, RevokeStep DEF shutdown, RevokeReasons
<1>6. ASSUME NEW t \in Callers, NEW s \in States, submit_state_acquire(t, s)
      PROVE  LeaseStep
  BY <1>6, AcquireStep DEF submit_state_acquire
<1>7. ASSUME NEW t \in Callers,
             submit_state_load(t) \/ submit_state_store(t) \/ submit_state_pass(t)
      PROVE  LeaseStep
  BY <1>7 DEF submit_state_load, submit_state_store, submit_state_pass, LeaseStep
<1>8. ASSUME NEW t \in Callers, submit_state_set(t) PROVE LeaseStep
  <2>1. direct[t].state \in States /\ direct[t].value \in Nat
    BY DEF HandleInv, Direct
  <2>2. app' = domain_set_state(app, DirectClient, direct[t].state, direct[t].value).app
    BY <1>8 DEF submit_state_set
  <2> QED BY <2>1, <2>2, SetStateStep, ControlAssumption
<1>9. CASE reopen
  BY <1>9, InitFacts DEF reopen, LeaseStep
<1>10. CASE UNCHANGED vars
  BY <1>10 DEF vars, LeaseStep
<1> QED BY <1>1, <1>2, <1>3, <1>4, <1>5, <1>6, <1>7, <1>8, <1>9, <1>10 DEF Next

\* While a client keeps the lease, the sequence number it is held to never
\* goes back.
THEOREM SequencesOnlyGrow == Spec => SequenceNeverGoesBack
<1> DEFINE P == (/\ app.lease.has_owner
                 /\ app'.lease.has_owner
                 /\ app'.lease.owner_client_id = app.lease.owner_client_id)
                => app'.lease.last_sequence >= app.lease.last_sequence
<1>1. Inv /\ [Next]_vars => P
  <2> SUFFICES ASSUME Inv, LeaseStep, app.lease.has_owner, app'.lease.has_owner
               PROVE  app'.lease.last_sequence >= app.lease.last_sequence
    BY EveryLeaseStep
  <2>1. app.lease \in Lease
    BY DEF Inv, AppInv, DomainValue
  <2>2. app'.lease # lease_init
    BY DEF lease_init
  <2>3. CASE app'.lease.last_sequence = app.lease.last_sequence
    BY <2>1, <2>3 DEF Lease
  <2>4. \/ app'.lease.last_sequence = app.lease.last_sequence
        \/ app'.lease.last_sequence >= app.lease.last_sequence
    <3>1. ASSUME NEW c, app'.lease = [has_owner |-> TRUE, owner_client_id |-> c,
                                      last_sequence |-> app.lease.last_sequence]
          PROVE  app'.lease.last_sequence = app.lease.last_sequence
      BY <3>1
    <3> QED BY <2>2, <3>1 DEF LeaseStep
  <2> QED BY <2>3, <2>4
<1> QED BY <1>1, Invariance, PTL DEF Spec, SequenceNeverGoesBack

\* For any number of threads on a handle, an OK answer of swbt_submit_state
\* is an applied update, unless another thread's state was applied during the
\* call or an out-of-date increment has put the counter back: until then every
\* copy of the counter is ahead of the number applied last, so the stale
\* update that control.c reports as OK cannot happen.
THEOREM DirectOkIsApplied == Spec => DirectOkMeansApplied
<1> DEFINE P == \A t \in Callers :
                  (/\ direct[t].pc = "passed"
                   /\ direct'[t].pc = "idle"
                   /\ direct'[t].result = "OK"
                   /\ t \notin overtaken
                   /\ ~went_back)
                  => /\ app'.state = direct[t].state
                     /\ app'.lease.owner_client_id = DirectClient
<1>1. Inv /\ [Next]_vars => P
  <2> SUFFICES ASSUME Inv, [Next]_vars, NEW t \in Callers,
                      direct[t].pc = "passed", direct'[t].pc = "idle",
                      direct'[t].result = "OK", t \notin overtaken, ~went_back
               PROVE  /\ app'.state = direct[t].state
                      /\ app'.lease.owner_client_id = DirectClient
    OBVIOUS
  <2>1. direct'[t] # direct[t]
    OBVIOUS
  <2>2. submit_state_set(t)
    <3>1. direct \in [Callers -> Direct]
      BY DEF Inv, HandleInv
    <3>2. ASSUME NEW u \in Callers, NEW s \in States, submit_state_acquire(u, s)
          PROVE  FALSE
      BY <2>1, <3>1, <3>2 DEF submit_state_acquire
    <3>3. ASSUME NEW u \in Callers,
                 submit_state_load(u) \/ submit_state_store(u) \/ submit_state_pass(u)
          PROVE  FALSE
      BY <2>1, <3>1, <3>3
         DEF submit_state_load, submit_state_store, submit_state_pass
    <3>4. ASSUME NEW u \in Callers, u # t, submit_state_set(u) PROVE FALSE
      BY <2>1, <3>1, <3>4 DEF submit_state_set
    <3>5. ~reopen
      BY DEF reopen, Submitting
    <3>6. direct' # direct
      BY <2>1
    <3> QED BY <3>2, <3>3, <3>4, <3>5, <3>6
            DEF Next, vars, handle_vars, acquire_client, release_client,
                disconnect_client, heartbeat_timeout_client, submit_client_state,
                record_rejected, shutdown
  <2> DEFINE q == direct[t].value
             r == domain_set_state(app, DirectClient, direct[t].state, q)
  <2>3. /\ app' = r.app
        /\ direct'[t].result = map_app_result(r.result)
    BY <2>2 DEF submit_state_set, Inv, HandleInv, Answered
  <2>4. direct[t].state \in States /\ q \in Nat /\ DirectClient \in Nat
    BY ControlAssumption DEF Inv, HandleInv, Direct
  <2>5. app \in DomainValue
    BY DEF Inv, AppInv
  <2>6. lease_held_by(app.lease, DirectClient) => ~(q < app.lease.last_sequence)
    <3>1. app.lease.last_sequence \in Nat
      BY <2>5 DEF DomainValue, Lease
    <3>2. Applied <= q
      BY DEF Inv, HandleInv, CounterAhead, CopyHeld
    <3> QED BY <2>4, <3>1, <3>2 DEF Applied
  <2> HIDE DEF q
  <2>7. r.result # "STALE_SEQUENCE"
    <3> SUFFICES ASSUME r.result = "STALE_SEQUENCE" PROVE FALSE
      OBVIOUS
    <3>1. /\ app.lease.has_owner
          /\ app.lease.owner_client_id = DirectClient
          /\ q < app.lease.last_sequence
      BY <2>4, <2>5, SetStateFacts
    <3> QED BY <3>1, <2>6 DEF lease_held_by
  <2>8. r.result = "OK"
    BY <2>3, <2>7 DEF map_app_result
  <2>9. r.app.state = direct[t].state /\ r.app.lease.owner_client_id = DirectClient
    <3>1. PICK before, state : before = app /\ state = direct[t].state
      OBVIOUS
    <3>2. /\ before \in DomainValue /\ state \in States
          /\ domain_set_state(before, DirectClient, state, q).result = "OK"
      BY <2>4, <2>5, <2>8, <3>1
    <3>3. /\ domain_set_state(before, DirectClient, state, q).app.state = state
          /\ before.lease.owner_client_id = DirectClient
          /\ domain_set_state(before, DirectClient, state, q).app.lease.owner_client_id
               = before.lease.owner_client_id
      BY <2>4, <3>2, SetStateFacts
    <3> QED BY <3>1, <3>3
  <2> QED BY <2>3, <2>9
<1> QED BY <1>1, Invariance, PTL DEF Spec, DirectOkMeansApplied

\* Control implements ControllerLease: every operation of control.c is a
\* grant, an applied input, a withdrawal or invisible.
THEOREM RefinesControllerLease == Spec => ImplementsControllerLease
<1>1. Init => Lease_!Init
  BY DEF Init, domain_init, lease_init, Lease_!Init
<1>2. Inv /\ [Next]_vars => [Lease_!Next]_(Lease_!vars)
  <2> SUFFICES ASSUME Inv, LeaseStep PROVE [Lease_!Next]_(Lease_!vars)
    BY EveryLeaseStep
  <2> DEFINE driver == IF app.lease.has_owner THEN app.lease.owner_client_id ELSE -1
  <2>1. app.lease.has_owner => driver \in Nat
    BY DEF Inv, AppInv, DomainValue, Lease
  <2>2. ~app.lease.has_owner => app.state = Neutral
    BY DEF Inv, AppInv, NeutralWhenUnowned, UnownedIsNeutral
  <2>3. CASE app'.lease = app.lease /\ app'.state = app.state
    BY <2>3 DEF Lease_!vars
  <2>4. ASSUME NEW c \in Clients \cup {DirectClient},
               app.lease.has_owner => app.lease.owner_client_id = c,
               app'.lease = [has_owner |-> TRUE, owner_client_id |-> c,
                             last_sequence |-> app.lease.last_sequence],
               app'.state = app.state
        PROVE  [Lease_!Next]_(Lease_!vars)
    <3>1. app'.lease.has_owner /\ app'.lease.owner_client_id = c
      BY <2>4
    <3>2. CASE app.lease.has_owner
      BY <2>4, <3>1, <3>2 DEF Lease_!vars
    <3>3. CASE ~app.lease.has_owner
      <4>1. Lease_!Grant(c)
        BY <2>4, <3>1, <3>3 DEF Lease_!Grant
      <4> QED BY <4>1 DEF Lease_!Next
    <3> QED BY <3>2, <3>3
  <2>5. CASE /\ app.lease.has_owner
             /\ app'.lease.has_owner = TRUE
             /\ app'.lease.owner_client_id = app.lease.owner_client_id
             /\ app'.state \in States
    <3>1. driver # -1
      BY <2>1, <2>5
    <3>2. Lease_!Apply(app'.state)
      BY <2>5, <3>1 DEF Lease_!Apply
    <3> QED BY <2>5, <3>2 DEF Lease_!Next
  <2>6. CASE app'.lease = lease_init /\ app'.state = Neutral
    <3>1. ~app'.lease.has_owner
      BY <2>6 DEF lease_init
    <3>2. CASE app.lease.has_owner
      <4>1. driver # -1
        BY <2>1, <3>2
      <4>2. Lease_!Withdraw
        BY <2>6, <3>1, <4>1 DEF Lease_!Withdraw
      <4> QED BY <4>2 DEF Lease_!Next
    <3>3. CASE ~app.lease.has_owner
      BY <2>2, <2>6, <3>1, <3>3 DEF Lease_!vars
    <3> QED BY <3>2, <3>3
  <2> QED BY <2>3, <2>4, <2>5, <2>6 DEF LeaseStep
<1> QED BY <1>1, <1>2, Invariance, PTL
        DEF Spec, ImplementsControllerLease, Lease_!Spec
=============================================================================
