--------------------------- MODULE IpcRunnerProofs ---------------------------
(***************************************************************************)
(* Proofs about IpcRunner, for any number of connections, any line length, *)
(* any timeout and any commands.                                           *)
(***************************************************************************)
EXTENDS IpcRunner, DomainProofs, FiniteSetTheorems, SequenceTheorems, TLAPS

-----------------------------------------------------------------------------
(* The stream of a connection.                                             *)

\* What a newline carries is a command with arguments of the right kind.
LEMMA PieceFacts ==
    ASSUME NEW piece \in Pieces
    PROVE  /\ piece.op = "release" => piece.owner_id \in ClientIds
           /\ piece.op = "set_state" => /\ piece.owner_id \in ClientIds
                                        /\ piece.state \in States
                                        /\ piece.sequence \in Nat
BY IpcRunnerAssumption DEF Pieces, Byte, Eof, Other, Acquire, Release, SetState

\* swbt_ipc_read_line stops somewhere: at the first piece that is no byte of a
\* line, or when there is nothing more to read. The least such place exists
\* because strict inclusion of finite sets is well founded.
LEMMA LeadingBytesFacts ==
    ASSUME inbox \in Seq(Pieces)
    PROVE  /\ LeadingBytes \in 0 .. Len(inbox)
           /\ \A i \in 1 .. LeadingBytes : inbox[i] = Byte
           /\ LeadingBytes = Len(inbox) \/ inbox[LeadingBytes + 1] # Byte
<1> DEFINE Stops == {n \in 0 .. Len(inbox) : n = Len(inbox) \/ inbox[n + 1] # Byte}
           Before == {1 .. n : n \in Stops}
<1>1. Len(inbox) \in Nat
  BY LenProperties
<1>2. Before \subseteq FiniteSubsetsOf(Nat)
  <2> SUFFICES ASSUME NEW n \in Stops PROVE 1 .. n \in FiniteSubsetsOf(Nat)
    OBVIOUS
  <2>1. IsFiniteSet(1 .. n)
    BY <1>1, FS_Interval
  <2> QED BY <1>1, <2>1 DEF FiniteSubsetsOf
<1>3. 1 .. Len(inbox) \in Before
  BY <1>1
<1>4. PICK B \in Before :
         \A C \in Before : <<C, B>> \notin StrictSubsetOrdering(Nat)
  <2> HIDE DEF Before
  <2> QED BY <1>2, <1>3, WFMin, FS_StrictSubsetOrderingWellFounded
<1>5. PICK n \in Stops : B = 1 .. n
  OBVIOUS
<1>6. \A i \in 1 .. n : inbox[i] = Byte
  <2> SUFFICES ASSUME NEW i \in 1 .. n, inbox[i] # Byte PROVE FALSE
    OBVIOUS
  <2>1. i - 1 \in Stops
    BY <1>1
  <2>2. 1 .. i - 1 \in Before
    BY <2>1
  <2>3. 1 .. i - 1 \subseteq B /\ 1 .. i - 1 # B
    BY <1>1, <1>5
  <2>4. <<1 .. i - 1, B>> \in StrictSubsetOrdering(Nat)
    BY <1>1, <1>5, <2>3 DEF StrictSubsetOrdering
  <2> QED BY <1>4, <2>2, <2>4
<1>7. \E m \in 0 .. Len(inbox) :
         /\ \A i \in 1 .. m : inbox[i] = Byte
         /\ m = Len(inbox) \/ inbox[m + 1] # Byte
  BY <1>6
<1> QED BY <1>7 DEF LeadingBytes

\* The set_state commands of a stream are finitely many.
LEMMA UpdatesFinite ==
    ASSUME NEW s \in Seq(Pieces)
    PROVE  IsFiniteSet(Updates(s)) /\ Cardinality(Updates(s)) \in Nat
<1>1. Len(s) \in Nat
  BY LenProperties
<1>2. IsFiniteSet(1 .. Len(s))
  BY <1>1, FS_Interval
<1>3. Updates(s) \in SUBSET (1 .. Len(s))
  BY DEF Updates
<1>4. IsFiniteSet(Updates(s))
  BY <1>2, <1>3, FS_Subset
<1> QED BY <1>4, FS_CardinalityType

\* A stream with nothing in it has no set_state.
LEMMA NoUpdates == Cardinality(Updates(<<>>)) = 0
<1>1. Updates(<<>>) = {}
  BY EmptySeq DEF Updates
<1> QED BY <1>1, FS_EmptySet

\* A piece that joins the stream adds at most itself.
LEMMA UpdatesOfAppend ==
    ASSUME NEW s \in Seq(Pieces), NEW piece \in Pieces
    PROVE  Cardinality(Updates(Append(s, piece))) =
             Cardinality(Updates(s)) + (IF piece.op = "set_state" THEN 1 ELSE 0)
<1> DEFINE n == Len(s)
<1>1. n \in Nat
  BY LenProperties
<1>2. n + 1 \notin Updates(s)
  BY <1>1 DEF Updates
<1>3. CASE piece.op = "set_state"
  <2>1. Updates(Append(s, piece)) = Updates(s) \cup {n + 1}
    BY <1>1, <1>3 DEF Updates
  <2> QED BY <1>2, <1>3, <2>1, UpdatesFinite, FS_AddElement
<1>4. CASE piece.op # "set_state"
  <2>1. Updates(Append(s, piece)) = Updates(s)
    BY <1>1, <1>4 DEF Updates
  <2> QED BY <1>4, <2>1, UpdatesFinite
<1> QED BY <1>3, <1>4

\* A line that is read leaves with what came before it.
LEMMA UpdatesOfRest ==
    ASSUME NEW s \in Seq(Pieces), NEW k \in 1 .. Len(s)
    PROVE  LET rest == SubSeq(s, k + 1, Len(s)) IN
           /\ rest \in Seq(Pieces)
           /\ Cardinality(Updates(rest)) + (IF s[k].op = "set_state" THEN 1 ELSE 0)
                <= Cardinality(Updates(s))
<1> DEFINE n == Len(s)
           rest == SubSeq(s, k + 1, n)
           f == [i \in Updates(rest) |-> i + k]
<1>1. n \in Nat /\ \A i \in 1 .. n : s[i] \in Pieces
  BY LenProperties
<1>2. /\ rest \in Seq(Pieces)
      /\ Len(rest) = n - k
      /\ \A i \in 1 .. n - k : rest[i] = s[k + i]
  <2>1. \A i \in k + 1 .. n : s[i] \in Pieces
    BY <1>1
  <2>2. k + 1 \in Int /\ n \in Int
    BY <1>1
  <2>3. /\ rest \in Seq(Pieces)
        /\ Len(rest) = IF k + 1 <= n THEN n - (k + 1) + 1 ELSE 0
        /\ \A i \in 1 .. n - (k + 1) + 1 : rest[i] = s[k + 1 + i - 1]
    BY <2>1, <2>2, SubSeqProperties
  <2> QED BY <1>1, <2>3
<1>3. \A i \in Updates(rest) : i \in 1 .. n - k /\ i + k \in Updates(s) \ {k}
  BY <1>1, <1>2 DEF Updates
<1>4. f \in Injection(Updates(rest), Updates(s) \ {k})
  BY <1>3 DEF Injection, IsInjective
<1>5. /\ IsFiniteSet(Updates(s) \ {k})
      /\ Cardinality(Updates(s) \ {k}) =
           IF k \in Updates(s) THEN Cardinality(Updates(s)) - 1
                               ELSE Cardinality(Updates(s))
  BY UpdatesFinite, FS_RemoveElement
<1>6. Cardinality(Updates(rest)) <= Cardinality(Updates(s) \ {k})
  <2> HIDE DEF f
  <2> QED BY <1>4, <1>5, FS_Injection
<1>7. k \in Updates(s) <=> s[k].op = "set_state"
  BY DEF Updates
<1>8. Cardinality(Updates(rest)) \in Nat /\ Cardinality(Updates(s)) \in Nat
  BY <1>2, UpdatesFinite
<1> QED BY <1>2, <1>5, <1>6, <1>7, <1>8

-----------------------------------------------------------------------------
(* The inductive invariant.                                                *)

IInv ==
    /\ TypeOK
    /\ OwnerIsConnected
    /\ EveryUpdateIsCounted
    /\ UnownedIsNeutral(app)
    /\ has_connection => running /\ client_id \in ClientIds
    /\ waiting => next_client_id <= MaxClients
    /\ UpdatesSent <= MaxUpdates

\* Before the runner is started there is no owner, no client and no line.
LEMMA InitIInv == Init => IInv
<1> SUFFICES ASSUME Init PROVE IInv
  OBVIOUS
<1> USE IpcRunnerAssumption DEF Init
<1>1. inbox \in Seq(Pieces) /\ Len(inbox) = 0
  BY EmptySeq
<1>2. TypeOK
  <2>1. app \in DomainValue
    BY InitFacts
  <2>2. /\ client_id \in 0 .. MaxClients
        /\ line_length \in 0 .. LineMax
        /\ ClockOK
        /\ next_client_id \in 1 .. MaxClients + 1
        /\ served \in 0 .. MaxUpdates
    BY DEF ClockOK
  <2> QED BY <1>1, <2>1, <2>2 DEF TypeOK
<1>3. OwnerIsConnected /\ UnownedIsNeutral(app)
  BY InitFacts DEF OwnerIsConnected, UnownedIsNeutral
<1>4. EveryUpdateIsCounted
  BY InitFacts DEF EveryUpdateIsCounted
<1>5. UpdatesSent <= MaxUpdates
  <2>1. Updates(inbox) = {}
    BY <1>1 DEF Updates
  <2> QED BY <2>1, FS_EmptySet DEF UpdatesSent
<1> QED BY <1>2, <1>3, <1>4, <1>5 DEF IInv

\* A revoke in the name of the connected client, or of everybody when nobody
\* is connected, leaves no owner, whatever its reason.
LEMMA RevokeEndsOwnership ==
    ASSUME IInv, NEW reason \in RevokeReasons, NEW c \in Nat,
           app' = domain_revoke(app, reason, c).app,
           has_connection => c = client_id
    PROVE  /\ app' \in DomainValue
           /\ ~app'.lease.has_owner
           /\ UnownedIsNeutral(app')
           /\ app'.accepted = app.accepted
           /\ app'.rejected = app.rejected
<1>1. app \in DomainValue
  BY DEF IInv, TypeOK
<1>2. /\ app' \in DomainValue
      /\ app'.accepted = app.accepted
      /\ app'.rejected = app.rejected
      /\ \/ app' = app /\ ~lease_held_by(app.lease, c)
         \/ app'.lease = lease_init /\ app'.state = Neutral
  BY <1>1, RevokeFacts
<1>3. CASE app' = app /\ ~lease_held_by(app.lease, c)
  <2>1. ~app.lease.has_owner
    BY <1>3 DEF IInv, OwnerIsConnected, lease_held_by
  <2> QED BY <1>2, <1>3, <2>1 DEF IInv
<1>4. CASE app'.lease = lease_init /\ app'.state = Neutral
  BY <1>2, <1>4, InitFacts DEF UnownedIsNeutral
<1> QED BY <1>2, <1>3, <1>4

\* However a connection ends, its owner ends with it: the invariant holds
\* again once the connection is closed.
LEMMA CloseKeepsIInv ==
    ASSUME IInv, NEW reason \in RevokeReasons, NEW c \in Nat,
           app' = domain_revoke(app, reason, c).app,
           has_connection => c = client_id,
           connection_close,
           running' \in BOOLEAN,
           waiting' = waiting \/ waiting' = FALSE,
           polled' = polled \/ polled' = TRUE,
           UNCHANGED <<now, next_client_id, served>>
    PROVE  IInv'
<1>1. /\ app' \in DomainValue
      /\ ~app'.lease.has_owner
      /\ UnownedIsNeutral(app')
      /\ app'.accepted = app.accepted
      /\ app'.rejected = app.rejected
  BY RevokeEndsOwnership
<1>2. /\ has_connection' = FALSE /\ client_id' = 0 /\ line_length' = 0
      /\ last_heartbeat' = 0 /\ silence' = 0 /\ inbox' = <<>>
  BY DEF connection_close
<1>3. inbox' \in Seq(Pieces) /\ Len(inbox') = 0
  BY <1>2, EmptySeq
<1>4. TypeOK'
  <2>1. /\ client_id' \in 0 .. MaxClients
        /\ line_length' \in 0 .. LineMax
    BY <1>2, IpcRunnerAssumption
  <2>2. waiting' \in BOOLEAN /\ has_connection' \in BOOLEAN /\ polled' \in BOOLEAN
    BY <1>2 DEF IInv, TypeOK
  <2>3. ClockOK'
    <3>1. now' \in 0 .. ClockMod - 1
      BY DEF IInv, TypeOK, ClockOK
    <3> QED BY <1>2, <3>1, IpcRunnerAssumption DEF ClockOK
  <2> QED BY <1>1, <1>3, <2>1, <2>2, <2>3 DEF IInv, TypeOK
<1>5. OwnerIsConnected' /\ EveryUpdateIsCounted'
  BY <1>1 DEF IInv, OwnerIsConnected, EveryUpdateIsCounted
<1>6. UpdatesSent' <= MaxUpdates
  <2>1. Updates(inbox)' = {}
    BY <1>3 DEF Updates
  <2>2. UpdatesSent' = served
    BY <2>1, FS_EmptySet DEF UpdatesSent, IInv, TypeOK
  <2> QED BY <2>2, IpcRunnerAssumption DEF IInv, TypeOK
<1> QED BY <1>1, <1>2, <1>4, <1>5, <1>6 DEF IInv

\* Every command of the connected client leaves the controller with that
\* client or with nobody, and counts a set_state once and nothing else.
LEMMA CommandFacts ==
    ASSUME IInv, running, has_connection, NEW command \in Pieces,
           IsLine(command), app' = execute_command(command)
    PROVE  /\ app' \in DomainValue
           /\ app'.lease.has_owner => app'.lease.owner_client_id = client_id
           /\ UnownedIsNeutral(app')
           /\ ~app.lease.has_owner => app'.state = app.state
           /\ app'.accepted + app'.rejected = app.accepted + app.rejected
                + (IF command.op = "set_state" THEN 1 ELSE 0)
<1>1. app \in DomainValue /\ client_id \in Nat
  BY DEF IInv, TypeOK
<1>2. app.lease.has_owner => app.lease.owner_client_id = client_id
  BY DEF IInv, OwnerIsConnected
<1>3. app.accepted \in Nat /\ app.rejected \in Nat
  BY <1>1 DEF DomainValue
<1>4. CASE command.op = "acquire"
  <2>1. app' = domain_acquire(app, client_id).app
    BY <1>4 DEF execute_command
  <2>2. CASE app' = app
    BY <1>1, <1>2, <1>3, <1>4, <2>2 DEF IInv
  <2>3. CASE app' = [app EXCEPT !.lease = [has_owner |-> TRUE,
                                           owner_client_id |-> client_id,
                                           last_sequence |-> app.lease.last_sequence]]
    <3>1. /\ app'.lease.has_owner /\ app'.lease.owner_client_id = client_id
          /\ app'.accepted = app.accepted /\ app'.rejected = app.rejected
          /\ app'.state = app.state
      BY <1>1, <2>3 DEF DomainValue
    <3>2. app' \in DomainValue
      BY <1>1, <2>1, AcquireFacts
    <3> QED BY <1>3, <1>4, <3>1, <3>2 DEF UnownedIsNeutral
  <2> QED BY <1>1, <2>1, <2>2, <2>3, AcquireFacts
<1>5. CASE command.op = "release"
  <2>1. CASE command.owner_id = client_id
    <3>1. app' = domain_revoke(app, "RELEASE", client_id).app
      BY <1>5, <2>1 DEF execute_command
    <3>2. /\ app' \in DomainValue /\ ~app'.lease.has_owner
          /\ UnownedIsNeutral(app')
          /\ app'.accepted = app.accepted /\ app'.rejected = app.rejected
      BY <1>1, <3>1, RevokeEndsOwnership DEF RevokeReasons
    <3>3. ~app.lease.has_owner => app'.state = app.state
      BY <3>2 DEF IInv, UnownedIsNeutral
    <3> QED BY <1>3, <1>5, <3>2, <3>3
  <2>2. CASE command.owner_id # client_id
    <3>1. app' = app
      BY <1>5, <2>2 DEF execute_command
    <3> QED BY <1>1, <1>2, <1>3, <1>5, <3>1 DEF IInv
  <2> QED BY <2>1, <2>2
<1>6. CASE command.op = "set_state"
  <2>1. command.state \in States /\ command.sequence \in Nat
    BY <1>6, PieceFacts
  <2>2. CASE command.owner_id = client_id
    <3>1. app' = domain_set_state(app, client_id, command.state, command.sequence).app
      BY <1>6, <2>2 DEF execute_command
    <3>2. /\ app' \in DomainValue
          /\ app'.accepted + app'.rejected = app.accepted + app.rejected + 1
          /\ app'.lease.has_owner = app.lease.has_owner
          /\ app'.lease.owner_client_id = app.lease.owner_client_id
          /\ \/ app.lease.has_owner
             \/ /\ app'.state = app.state
                /\ app'.lease.last_sequence = app.lease.last_sequence
      BY <1>1, <2>1, <3>1, SetStateFacts
    <3>3. UnownedIsNeutral(app')
      BY <3>2 DEF IInv, UnownedIsNeutral
    <3> QED BY <1>2, <1>6, <3>2, <3>3
  <2>3. CASE command.owner_id # client_id
    <3>1. app' = [app EXCEPT !.rejected = @ + 1]
      BY <1>6, <2>3 DEF execute_command, record_state_update_rejected
    <3>2. /\ app' \in DomainValue
          /\ app'.lease = app.lease /\ app'.state = app.state
          /\ app'.accepted + app'.rejected = app.accepted + app.rejected + 1
      BY <1>1, <3>1 DEF DomainValue
    <3>3. UnownedIsNeutral(app')
      BY <3>2 DEF IInv, UnownedIsNeutral
    <3> QED BY <1>2, <1>6, <3>2, <3>3
  <2> QED BY <2>2, <2>3
<1>7. CASE command.op \notin {"acquire", "release", "set_state"}
  <2>1. app' = app
    BY <1>7 DEF execute_command
  <2> QED BY <1>1, <1>2, <1>3, <1>7, <2>1 DEF IInv
<1> QED BY <1>4, <1>5, <1>6, <1>7

\* One line: the command runs, and what is left of the stream is shorter by a
\* set_state that is now served.
LEMMA ServeLineKeepsIInv ==
    ASSUME IInv, serve_line
    PROVE  IInv'
<1> DEFINE k == LeadingBytes + 1
           command == inbox[k]
<1>1. /\ running /\ has_connection
      /\ EndsInLine
      /\ app' = execute_command(command)
      /\ served' = served + (IF command.op = "set_state" THEN 1 ELSE 0)
      /\ inbox' = SubSeq(inbox, LeadingBytes + 2, Len(inbox))
      /\ line_length' = 0
      /\ last_heartbeat' = now /\ silence' = 0 /\ polled' = TRUE
      /\ UNCHANGED <<running, has_connection, client_id, now, next_client_id, waiting>>
  BY DEF serve_line, Pending
<1>2. inbox \in Seq(Pieces) /\ Len(inbox) \in Nat
  BY LenProperties DEF IInv, TypeOK
<1>3. LeadingBytes \in 0 .. Len(inbox) /\ LeadingBytes < Len(inbox) /\ IsLine(command)
  BY <1>1, <1>2, LeadingBytesFacts DEF EndsInLine
<1>4. k \in 1 .. Len(inbox) /\ k + 1 = LeadingBytes + 2
  BY <1>2, <1>3
<1>5. command \in Pieces
  BY <1>2, <1>4, ElementOfSeq
<1> HIDE DEF k
<1>6. /\ app' \in DomainValue
      /\ app'.lease.has_owner => app'.lease.owner_client_id = client_id
      /\ UnownedIsNeutral(app')
      /\ app'.accepted + app'.rejected = app.accepted + app.rejected
           + (IF command.op = "set_state" THEN 1 ELSE 0)
  BY <1>1, <1>3, <1>5, CommandFacts
<1>7. /\ inbox' \in Seq(Pieces)
      /\ Cardinality(Updates(inbox)') + (IF command.op = "set_state" THEN 1 ELSE 0)
           <= Cardinality(Updates(inbox))
  BY <1>1, <1>2, <1>4, UpdatesOfRest DEF Updates
<1>8. /\ Cardinality(Updates(inbox)) \in Nat
      /\ Cardinality(Updates(inbox)') \in Nat
  BY <1>2, <1>7, UpdatesFinite DEF Updates
<1>9. served' \in 0 .. MaxUpdates /\ UpdatesSent' <= MaxUpdates
  <2>1. served \in Nat /\ served + Cardinality(Updates(inbox)) <= MaxUpdates
    BY DEF IInv, TypeOK, UpdatesSent
  <2>2. UpdatesSent' = served' + Cardinality(Updates(inbox)')
    BY DEF UpdatesSent
  <2>3. PICK n, m \in Nat : /\ n = Cardinality(Updates(inbox))
                             /\ m = Cardinality(Updates(inbox)')
    BY <1>8
  <2>4. CASE command.op = "set_state"
    <3>1. served' = served + 1 /\ m + 1 <= n
      BY <1>1, <1>7, <2>3, <2>4
    <3> QED BY <2>1, <2>2, <2>3, <3>1, IpcRunnerAssumption
  <2>5. CASE command.op # "set_state"
    <3>1. served' = served /\ m <= n
      BY <1>1, <1>7, <2>1, <2>3, <2>5
    <3> QED BY <2>1, <2>2, <2>3, <3>1, IpcRunnerAssumption
  <2> QED BY <2>4, <2>5
<1>10. line_length' \in 0 .. LineMax /\ ClockOK'
  BY <1>1, IpcRunnerAssumption DEF IInv, TypeOK, ClockOK
<1>11. TypeOK'
  BY <1>1, <1>6, <1>7, <1>9, <1>10 DEF IInv, TypeOK
<1>12. OwnerIsConnected'
  BY <1>1, <1>6 DEF OwnerIsConnected
<1>13. EveryUpdateIsCounted'
  BY <1>1, <1>6 DEF IInv, EveryUpdateIsCounted
<1> QED BY <1>1, <1>6, <1>9, <1>11, <1>12, <1>13 DEF IInv

\* Steps of the clients and the clock: nothing the domain knows of changes.
LEMMA OutsideKeepsIInv ==
    ASSUME IInv, connect \/ (\E piece \in Pieces : send(piece)) \/ tick
    PROVE  IInv'
<1>1. CASE connect
  <2>1. UpdatesSent' = UpdatesSent
    BY <1>1 DEF connect, UpdatesSent, Updates
  <2> QED BY <1>1, <2>1 DEF connect, clock, ClockOK, IInv, TypeOK,
                            OwnerIsConnected, EveryUpdateIsCounted
<1>2. ASSUME NEW piece \in Pieces, send(piece) PROVE IInv'
  <2>1. inbox \in Seq(Pieces) /\ inbox' = Append(inbox, piece)
    BY <1>2 DEF send, IInv, TypeOK
  <2>2. inbox' \in Seq(Pieces)
    BY <2>1, AppendProperties
  <2>3. Cardinality(Updates(inbox)') = Cardinality(Updates(inbox))
           + (IF piece.op = "set_state" THEN 1 ELSE 0)
    BY <2>1, UpdatesOfAppend DEF Updates
  <2>4. UpdatesSent' <= MaxUpdates
    <3>1. /\ UpdatesSent \in Nat /\ UpdatesSent <= MaxUpdates
          /\ UpdatesSent' = UpdatesSent + (IF piece.op = "set_state" THEN 1 ELSE 0)
      BY <1>2, <2>1, <2>3, UpdatesFinite DEF send, UpdatesSent, IInv, TypeOK
    <3> QED BY <1>2, <3>1, IpcRunnerAssumption DEF send
  <2>5. UNCHANGED <<app, running, has_connection, client_id, line_length, clock,
                    next_client_id, waiting, served>>
    BY <1>2 DEF send
  <2> QED BY <2>2, <2>4, <2>5 DEF clock, ClockOK, IInv, TypeOK, OwnerIsConnected,
                                  EveryUpdateIsCounted
<1>3. CASE tick
  <2>1. UpdatesSent' = UpdatesSent
    BY <1>3 DEF tick, UpdatesSent, Updates
  <2>2. ClockOK'
    <3>1. now \in Nat /\ silence \in 0 .. HeartbeatTimeout
      BY IpcRunnerAssumption DEF IInv, TypeOK, ClockOK
    <3>2. now' \in 0 .. ClockMod - 1
      BY <1>3, <3>1, IpcRunnerAssumption DEF tick
    <3>3. silence' \in 0 .. HeartbeatTimeout
      BY <1>3, <3>1, IpcRunnerAssumption DEF tick
    <3> QED BY <1>3, <3>2, <3>3 DEF tick, IInv, TypeOK, ClockOK
  <2> QED BY <1>3, <2>1, <2>2 DEF tick, IInv, TypeOK, OwnerIsConnected,
                                  EveryUpdateIsCounted
<1> QED BY <1>1, <1>2, <1>3

\* Every step of the runner, its clients and the clock keeps the invariant.
LEMMA NextIInv == IInv /\ [Next]_vars => IInv'
<1> SUFFICES ASSUME IInv, [Next]_vars PROVE IInv'
  OBVIOUS
<1>1. client_id \in Nat
  BY DEF IInv, TypeOK
<1>2. CASE start
  <2>1. UpdatesSent' = UpdatesSent
    BY <1>2 DEF start, UpdatesSent, Updates
  <2> QED BY <1>2, <2>1 DEF start, clock, ClockOK, IInv, TypeOK,
                            OwnerIsConnected, EveryUpdateIsCounted
<1>3. CASE accept
  <2>1. client_id' = next_client_id /\ next_client_id' = next_client_id + 1
    BY <1>3 DEF accept
  <2>2. client_id' \in ClientIds /\ next_client_id' \in 1 .. MaxClients + 1
    BY <1>3, <2>1, IpcRunnerAssumption DEF accept, IInv, TypeOK, ClientIds
  <2>3. inbox' \in Seq(Pieces) /\ Len(inbox') = 0
    BY <1>3, EmptySeq DEF accept
  <2>4. UpdatesSent' <= MaxUpdates
    <3>1. inbox' = <<>> /\ served' = served
      BY <1>3 DEF accept
    <3>2. UpdatesSent' = served + 0
      BY <3>1, NoUpdates DEF UpdatesSent
    <3> QED BY <3>2, IpcRunnerAssumption DEF IInv, TypeOK
  <2>5. ~app'.lease.has_owner /\ app' = app
    BY <1>3 DEF accept, IInv, OwnerIsConnected
  <2>6. /\ line_length' \in 0 .. LineMax
        /\ client_id' \in 0 .. MaxClients
        /\ ClockOK'
    BY <1>3, <2>2, IpcRunnerAssumption DEF accept, ClientIds, IInv, TypeOK, ClockOK
  <2>7. /\ has_connection' = TRUE /\ waiting' = FALSE /\ served' = served
        /\ running /\ running' = running /\ polled' = TRUE
    BY <1>3 DEF accept
  <2>8. TypeOK'
    BY <2>2, <2>3, <2>5, <2>6, <2>7 DEF IInv, TypeOK
  <2> QED BY <2>2, <2>4, <2>5, <2>7, <2>8 DEF IInv, OwnerIsConnected, EveryUpdateIsCounted
<1>4. CASE poll_heartbeat
  BY <1>1, <1>4, CloseKeepsIInv DEF poll_heartbeat, RevokeReasons, IInv, TypeOK
<1>5. CASE serve_too_long
  BY <1>1, <1>5, CloseKeepsIInv DEF serve_too_long, RevokeReasons, IInv, TypeOK
<1>6. CASE serve_disconnect
  BY <1>1, <1>6, CloseKeepsIInv DEF serve_disconnect, RevokeReasons, IInv, TypeOK
<1>7. CASE serve_partial
  <2>1. inbox' \in Seq(Pieces) /\ Len(inbox') = 0
    BY <1>7, EmptySeq DEF serve_partial
  <2>2. UpdatesSent' <= MaxUpdates
    <3>1. inbox' = <<>> /\ served' = served
      BY <1>7 DEF serve_partial
    <3>2. UpdatesSent' = served + 0
      BY <3>1, NoUpdates DEF UpdatesSent
    <3> QED BY <3>2, IpcRunnerAssumption DEF IInv, TypeOK
  <2>3. line_length' \in 0 .. LineMax
    <3>1. inbox \in Seq(Pieces) /\ Len(inbox) \in Nat /\ line_length \in Nat
      BY LenProperties DEF IInv, TypeOK
    <3>2. LineBytes \in Nat
      BY <3>1, LeadingBytesFacts DEF LineBytes
    <3> QED BY <1>7, <3>2 DEF serve_partial
  <2>4. UNCHANGED <<app, running, has_connection, client_id, now, last_heartbeat,
                    silence, next_client_id, waiting, served>>
    BY <1>7 DEF serve_partial
  <2>5. polled' = TRUE
    BY <1>7 DEF serve_partial
  <2> QED BY <2>1, <2>2, <2>3, <2>4, <2>5 DEF IInv, TypeOK, ClockOK,
             OwnerIsConnected, EveryUpdateIsCounted
<1>8. CASE serve_line
  BY <1>8, ServeLineKeepsIInv
<1>9. CASE stop
  <2>1. PICK reason \in RevokeReasons, c \in Nat :
           /\ app' = domain_revoke(app, reason, c).app
           /\ has_connection => c = client_id
    BY <1>1, <1>9 DEF stop, RevokeReasons
  <2>2. /\ connection_close /\ running' = FALSE /\ waiting' = FALSE
        /\ UNCHANGED <<now, polled, next_client_id, served>>
    BY <1>9 DEF stop
  <2> QED BY <2>1, <2>2, CloseKeepsIInv
<1>10. CASE connect \/ (\E piece \in Pieces : send(piece)) \/ tick
  BY <1>10, OutsideKeepsIInv
<1>11. CASE UNCHANGED vars
  BY <1>11 DEF vars, clock, ClockOK, IInv, TypeOK, OwnerIsConnected,
               EveryUpdateIsCounted, UpdatesSent, Updates
<1>12. CASE poll_idle
  <2>1. UpdatesSent' = UpdatesSent
    BY <1>12 DEF poll_idle, UpdatesSent, Updates
  <2> QED BY <1>12, <2>1 DEF poll_idle, ClockOK, IInv, TypeOK,
                             OwnerIsConnected, EveryUpdateIsCounted
<1> QED BY <1>2, <1>3, <1>4, <1>5, <1>6, <1>7, <1>8, <1>9, <1>10, <1>11, <1>12
        DEF Next, poll_once_at

\* The inductive invariant holds in every reachable state of the runner.
THEOREM IpcInvariance == Spec => []IInv
BY InitIInv, NextIInv, PTL DEF Spec

\* Type correctness of the runner: in particular the bytes of an unfinished
\* line stay within SWBT_IPC_JSON_LINE_MAX.
THEOREM IpcTypeCorrect == Spec => []TypeOK
<1>1. IInv => TypeOK
  BY DEF IInv
<1> QED BY <1>1, IpcInvariance, PTL

\* No ghost owner: whichever way connections end, only the client connected
\* now can own the controller.
THEOREM OwnerIsAlwaysConnected == Spec => []OwnerIsConnected
<1>1. IInv => OwnerIsConnected
  BY DEF IInv
<1> QED BY <1>1, IpcInvariance, PTL

\* Every set_state that reaches the command path is counted once.
THEOREM UpdatesAreCountedOnce == Spec => []EveryUpdateIsCounted
<1>1. IInv => EveryUpdateIsCounted
  BY DEF IInv
<1> QED BY <1>1, IpcInvariance, PTL

-----------------------------------------------------------------------------
(* The order of commands and timeouts.                                     *)

\* A complete command that has arrived at the head of the stream is not lost
\* to the heartbeat timeout, nor taken for an overlong line.
THEOREM CommandsComeFirst == Spec => WaitingCommandIsServed
<1> DEFINE P == (/\ has_connection /\ line_length = 0
                 /\ inbox # <<>> /\ IsLine(Head(inbox)))
                => has_connection' \/ ~running'
<1>1. IInv /\ [Next]_vars => P
  <2> SUFFICES ASSUME IInv, [Next]_vars, has_connection, line_length = 0,
                      inbox # <<>>, IsLine(Head(inbox)), ~has_connection', running'
               PROVE  FALSE
    OBVIOUS
  <2>1. inbox \in Seq(Pieces) /\ Len(inbox) \in Nat \ {0}
    BY EmptySeq DEF IInv, TypeOK
  <2>2. inbox[1] # Byte /\ inbox[1] # Eof /\ IsLine(inbox[1])
    BY <2>1 DEF IsLine, Byte, Eof
  <2>3. LeadingBytes = 0
    BY <2>1, <2>2, LeadingBytesFacts
  <2>4. EndsInLine /\ ~EndsInEof /\ LeadingBytes # Len(inbox)
    BY <2>1, <2>2, <2>3 DEF EndsInLine, EndsInEof
  <2>5. LineBytes <= LineMax
    BY <2>3, <2>4, IpcRunnerAssumption DEF LineBytes
  <2>6. ~serve_too_long /\ ~serve_disconnect /\ ~poll_heartbeat /\ ~stop /\ ~accept
    <3>1. ~(LineBytes > LineMax)
      BY <2>1, <2>3, <2>4, <2>5, IpcRunnerAssumption DEF LineBytes
    <3> QED BY <2>4, <3>1 DEF serve_too_long, serve_disconnect, poll_heartbeat, stop,
               accept
  <2>7. ~start /\ has_connection' # has_connection
    BY DEF IInv, start
  <2>8. ~serve_partial /\ ~serve_line /\ ~poll_idle /\ ~connect /\ ~tick
    BY <2>7 DEF serve_partial, serve_line, poll_idle, connect, tick
  <2>9. \A piece \in Pieces : ~send(piece)
    BY <2>7 DEF send
  <2> QED BY <2>6, <2>7, <2>8, <2>9 DEF Next, vars, poll_once_at
<1> QED BY <1>1, IpcInvariance, PTL DEF Spec, WaitingCommandIsServed
-----------------------------------------------------------------------------
(* The promise of ControllerLease.                                         *)

\* An owner is replaced only through a free controller, and a new owner is the
\* connected client and finds the input as it was.
LEMMA OwnersInTurn ==
    ASSUME IInv, [Next]_vars
    PROVE  /\ app.lease.has_owner /\ app'.lease.has_owner
                => app'.lease.owner_client_id = app.lease.owner_client_id
           /\ ~app.lease.has_owner /\ app'.lease.has_owner
                => /\ app'.lease.owner_client_id \in ClientIds
                   /\ app'.state = app.state
<1>1. client_id \in Nat
  BY DEF IInv, TypeOK
<1>2. CASE serve_line
  <2> DEFINE command == inbox[LeadingBytes + 1]
  <2>1. running /\ has_connection /\ EndsInLine /\ app' = execute_command(command)
    BY <1>2 DEF serve_line, Pending
  <2>2. inbox \in Seq(Pieces) /\ Len(inbox) \in Nat
    BY LenProperties DEF IInv, TypeOK
  <2>3. LeadingBytes + 1 \in 1 .. Len(inbox) /\ IsLine(command)
    BY <2>1, <2>2, LeadingBytesFacts DEF EndsInLine
  <2>4. command \in Pieces
    BY <2>2, <2>3, ElementOfSeq
  <2>5. /\ app'.lease.has_owner => app'.lease.owner_client_id = client_id
        /\ ~app.lease.has_owner => app'.state = app.state
    BY <2>1, <2>3, <2>4, CommandFacts
  <2> QED BY <2>1, <2>5 DEF IInv, OwnerIsConnected
<1>3. CASE poll_heartbeat \/ serve_too_long \/ serve_disconnect \/ stop
  <2>1. PICK reason \in RevokeReasons, c \in Nat :
           /\ app' = domain_revoke(app, reason, c).app
           /\ has_connection => c = client_id
    BY <1>1, <1>3 DEF poll_heartbeat, serve_too_long, serve_disconnect, stop,
                      RevokeReasons
  <2>2. ~app'.lease.has_owner
    BY <2>1, RevokeEndsOwnership
  <2> QED BY <2>2
<1>4. CASE app' = app
  BY <1>4
<1>5. \/ serve_line \/ app' = app
      \/ poll_heartbeat \/ serve_too_long \/ serve_disconnect \/ stop
  BY DEF Next, vars, poll_once_at, poll_idle, start, accept, serve_partial, connect,
         send, tick
<1> QED BY <1>2, <1>3, <1>4, <1>5

\* The IPC server implements ControllerLease: whatever a client sends and
\* however its connection ends, a step grants the free controller, applies the
\* owner's input, withdraws both, or is invisible.
THEOREM IpcRefinesControllerLease == Spec => ImplementsControllerLease
<1>1. Init => Lease_!Init
  BY DEF Init, domain_init, lease_init, Lease_!Init
<1>2. IInv /\ [Next]_vars => [Lease_!Next]_(Lease_!vars)
  <2> SUFFICES ASSUME IInv, [Next]_vars PROVE [Lease_!Next]_(Lease_!vars)
    OBVIOUS
  <2> DEFINE driver == IF app.lease.has_owner THEN app.lease.owner_client_id ELSE -1
  <2>1. IInv'
    BY NextIInv
  <2>2. app.lease.has_owner => driver \in Nat
    BY DEF IInv, TypeOK, DomainValue, Lease
  <2>3. CASE app.lease.has_owner /\ app'.lease.has_owner
    <3>1. app'.lease.owner_client_id = app.lease.owner_client_id
      BY <2>3, OwnersInTurn
    <3>2. app'.state \in States
      BY <2>1 DEF IInv, TypeOK, DomainValue
    <3>3. Lease_!Apply(app'.state)
      BY <2>2, <2>3, <3>1 DEF Lease_!Apply
    <3> QED BY <3>2, <3>3 DEF Lease_!Next
  <2>4. CASE ~app.lease.has_owner /\ app'.lease.has_owner
    <3>1. app'.lease.owner_client_id \in ClientIds /\ app'.state = app.state
      BY <2>4, OwnersInTurn
    <3>2. Lease_!Grant(app'.lease.owner_client_id)
      BY <2>4, <3>1 DEF Lease_!Grant
    <3> QED BY <3>1, <3>2 DEF Lease_!Next
  <2>5. CASE ~app'.lease.has_owner
    <3>1. app'.state = Neutral
      BY <2>1, <2>5 DEF IInv, UnownedIsNeutral
    <3>2. CASE app.lease.has_owner
      <4>1. Lease_!Withdraw
        BY <2>2, <2>5, <3>1, <3>2 DEF Lease_!Withdraw
      <4> QED BY <4>1 DEF Lease_!Next
    <3>3. CASE ~app.lease.has_owner
      <4>1. app.state = Neutral
        BY <3>3 DEF IInv, UnownedIsNeutral
      <4> QED BY <2>5, <3>1, <3>3, <4>1 DEF Lease_!vars
    <3> QED BY <3>2, <3>3
  <2> QED BY <2>3, <2>4, <2>5
<1> QED BY <1>1, <1>2, IpcInvariance, PTL
        DEF Spec, ImplementsControllerLease, Lease_!Spec
=============================================================================
