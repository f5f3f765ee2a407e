---------------------------- MODULE DomainProofs -----------------------------
(***************************************************************************)
(* What the operations of Domain return, for any domain value: the facts   *)
(* that the proofs about Control, IpcRunner, Production and Session need   *)
(* in place of the definitions.                                            *)
(***************************************************************************)
EXTENDS Domain, TLAPS

\* swbt_domain_init is a domain value: nobody owns it and it is neutral.
LEMMA InitFacts ==
    /\ domain_init \in DomainValue
    /\ domain_init.lease = lease_init
    /\ domain_init.state = Neutral
    /\ domain_init.accepted = 0
    /\ domain_init.rejected = 0
    /\ ~lease_init.has_owner
    /\ lease_init.last_sequence = 0
<1>1. lease_init \in Lease
  BY DEF lease_init, Lease
<1>2. domain_init \in DomainValue
  BY <1>1, NeutralAssumption DEF domain_init, DomainValue
<1> QED BY <1>2 DEF domain_init, lease_init

\* swbt_domain_acquire touches the lease only: the owner stays or becomes the
\* caller, and state, sequence and counters are kept.
LEMMA AcquireFacts ==
    ASSUME NEW d \in DomainValue, NEW c \in Nat
    PROVE  /\ domain_acquire(d, c).app \in DomainValue
           /\ \/ /\ d.lease.has_owner
                 /\ d.lease.owner_client_id # c
                 /\ domain_acquire(d, c).app = d
                 /\ domain_acquire(d, c).result = "OWNER_BUSY"
              \/ /\ domain_acquire(d, c).result = "OK"
                 /\ d.lease.has_owner => d.lease.owner_client_id = c
                 /\ domain_acquire(d, c).app =
                      [d EXCEPT !.lease = [has_owner |-> TRUE,
                                           owner_client_id |-> c,
                                           last_sequence |-> d.lease.last_sequence]]
<1>1. d.lease \in Lease
  BY DEF DomainValue
<1>2. CASE d.lease.has_owner /\ d.lease.owner_client_id # c
  <2>1. /\ domain_acquire(d, c).app = [d EXCEPT !.lease = d.lease]
        /\ domain_acquire(d, c).result = "OWNER_BUSY"
    BY <1>2 DEF domain_acquire, lease_acquire
  <2>2. [d EXCEPT !.lease = d.lease] = d
    BY DEF DomainValue
  <2> QED BY <1>2, <2>1, <2>2
<1>3. CASE ~(d.lease.has_owner /\ d.lease.owner_client_id # c)
  <2> DEFINE l == [has_owner |-> TRUE, owner_client_id |-> c,
                   last_sequence |-> d.lease.last_sequence]
  <2>2. /\ domain_acquire(d, c).app = [d EXCEPT !.lease = l]
        /\ domain_acquire(d, c).result = "OK"
    BY <1>3 DEF domain_acquire, lease_acquire
  <2>3. l \in Lease
    BY <1>1 DEF Lease
  <2>4. [d EXCEPT !.lease = l] \in DomainValue
    BY <2>3 DEF DomainValue
  <2> QED BY <1>3, <2>2, <2>4
<1> QED BY <1>2, <1>3

\* swbt_domain_set_state either rejects and changes nothing but a counter, or
\* is the owner's update with a sequence number that is not stale.
LEMMA SetStateFacts ==
    ASSUME NEW d \in DomainValue, NEW c \in Nat,
           NEW s \in States, NEW q \in Nat
    PROVE  LET r == domain_set_state(d, c, s, q) IN
           /\ r.app \in DomainValue
           /\ r.app.accepted + r.app.rejected = d.accepted + d.rejected + 1
           /\ r.app.lease.has_owner = d.lease.has_owner
           /\ r.app.lease.owner_client_id = d.lease.owner_client_id
           /\ \/ /\ r.result = "OK"
                 /\ d.lease.has_owner
                 /\ d.lease.owner_client_id = c
                 /\ d.lease.last_sequence <= q
                 /\ r.app.state = s
                 /\ r.app.lease.last_sequence = q
              \/ /\ r.result = "STALE_SEQUENCE"
                 /\ d.lease.has_owner
                 /\ d.lease.owner_client_id = c
                 /\ q < d.lease.last_sequence
                 /\ r.app.state = d.state
                 /\ r.app.lease.last_sequence = d.lease.last_sequence
              \/ /\ r.result = "NOT_OWNER"
                 /\ r.app.state = d.state
                 /\ r.app.lease.last_sequence = d.lease.last_sequence
<1> DEFINE r == domain_set_state(d, c, s, q)
<1>1. d.lease \in Lease
  BY DEF DomainValue
<1>2. CASE ~lease_held_by(d.lease, c)
  <2>1. r.result = "NOT_OWNER" /\ r.app = [d EXCEPT !.rejected = @ + 1]
    BY <1>2 DEF domain_set_state, record_state_update_rejected
  <2>2. r.app \in DomainValue
    BY <2>1 DEF DomainValue
  <2> QED BY <2>1, <2>2 DEF DomainValue
<1>3. CASE lease_held_by(d.lease, c) /\ q < d.lease.last_sequence
  <2>1. r.result = "STALE_SEQUENCE" /\ r.app = [d EXCEPT !.rejected = @ + 1]
    BY <1>3 DEF domain_set_state, record_state_update_rejected
  <2>2. d.lease.has_owner /\ d.lease.owner_client_id = c
    BY <1>3 DEF lease_held_by
  <2>3. /\ r.app \in DomainValue
        /\ r.app.lease = d.lease
        /\ r.app.state = d.state
        /\ r.app.accepted + r.app.rejected = d.accepted + d.rejected + 1
    BY <2>1 DEF DomainValue
  <2> QED BY <1>3, <2>1, <2>2, <2>3
<1>4. CASE lease_held_by(d.lease, c) /\ ~(q < d.lease.last_sequence)
  <2> DEFINE l == [has_owner |-> d.lease.has_owner,
                   owner_client_id |-> d.lease.owner_client_id,
                   last_sequence |-> q]
  <2>1. l \in Lease
    BY <1>1 DEF Lease
  <2>2. r.result = "OK" /\ r.app = [lease |-> l, state |-> s,
                                    accepted |-> d.accepted + 1,
                                    rejected |-> d.rejected]
    BY <1>4 DEF domain_set_state, lease_accept_sequence
  <2>3. d.lease.has_owner /\ d.lease.owner_client_id = c
    BY <1>4 DEF lease_held_by
  <2>4. d.lease.last_sequence <= q
    BY <1>1, <1>4 DEF Lease
  <2>5. /\ r.app \in DomainValue
        /\ r.app.accepted + r.app.rejected = d.accepted + d.rejected + 1
    BY <2>1, <2>2 DEF DomainValue
  <2>6. r.app.lease = l /\ r.app.state = s
    BY <2>2
  <2>7. /\ r.app.lease.has_owner = d.lease.has_owner
        /\ r.app.lease.owner_client_id = d.lease.owner_client_id
        /\ r.app.lease.last_sequence = q
    BY <2>6
  <2> QED BY <2>2, <2>3, <2>4, <2>5, <2>6, <2>7
<1> QED BY <1>2, <1>3, <1>4

\* swbt_domain_revoke leaves the domain alone or ends in the unowned, neutral
\* state; only the counters survive.
LEMMA RevokeFacts ==
    ASSUME NEW d \in DomainValue, NEW c \in Nat, NEW reason \in RevokeReasons
    PROVE  LET r == domain_revoke(d, reason, c) IN
           /\ r.app \in DomainValue
           /\ r.app.accepted = d.accepted
           /\ r.app.rejected = d.rejected
           /\ \/ r.app = d /\ reason # "SHUTDOWN" /\ ~lease_held_by(d.lease, c)
              \/ r.app.lease = lease_init /\ r.app.state = Neutral
<1> DEFINE r == domain_revoke(d, reason, c)
<1>1. lease_init \in Lease
  BY DEF lease_init, Lease
<1>2. CASE r.app = d /\ reason # "SHUTDOWN" /\ ~lease_held_by(d.lease, c)
  BY <1>2
<1>3. CASE r.app = revoke_all(d)
  <2>1. r.app = [d EXCEPT !.lease = lease_init, !.state = Neutral]
    BY <1>3 DEF revoke_all, apply_neutral, lease_revoke
  <2>2. r.app \in DomainValue
    BY <1>1, <2>1, NeutralAssumption DEF DomainValue
  <2> QED BY <2>1, <2>2 DEF DomainValue
<1> QED BY <1>2, <1>3 DEF domain_revoke

=============================================================================
