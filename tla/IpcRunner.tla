------------------------------ MODULE IpcRunner ------------------------------
(***************************************************************************)
(* The IPC side of the daemon, over one domain: the runner that polls from *)
(* a timer of the main loop (swbt/daemon/ipc_runner.c), the line server    *)
(* (swbt/ipc/ipc_server.c) and the command adapter                         *)
(* (swbt/ipc/ipc_adapter.c). One client is connected at a time.            *)
(*                                                                         *)
(* The TCP stream of a client is external: a sequence of pieces, each a    *)
(* byte of a line that is not its newline (Byte), a newline that completes *)
(* the line to one command, or the end of the stream (Eof). Commands that  *)
(* change nothing (hello, get_status, any line that does not decode) are   *)
(* the one command Other. JSON itself is left out.                         *)
(*                                                                         *)
(* Time is the clock now_ms, a 32-bit millisecond counter of BTstack that  *)
(* wraps (ClockMod). Its unit here is the interval of the pump timer, so   *)
(* the runner polls at least once in every unit.                           *)
(***************************************************************************)
EXTENDS Domain, Integers, Sequences, FiniteSets

CONSTANTS
    MaxClients,         \* bound: connections accepted
    Sequences_,         \* sequence numbers a client may send
    HeartbeatTimeout,   \* heartbeat_timeout_ms; 0 switches it off
    ClockMod,           \* 2^32, where btstack_run_loop_get_time_ms wraps
    LineMax,            \* SWBT_IPC_JSON_LINE_MAX
    MaxInbox,           \* bound: pieces sent and not yet read
    MaxUpdates          \* bound: set_state commands sent

ASSUME IpcRunnerAssumption ==
    /\ MaxClients \in Nat
    /\ Sequences_ \subseteq Nat
    /\ ClockMod \in Nat \ {0}
    /\ HeartbeatTimeout \in 0 .. ClockMod - 1
    /\ LineMax \in Nat \ {0}
    /\ MaxInbox \in Nat \ {0}
    /\ MaxUpdates \in Nat

VARIABLES
    app,                \* the domain
    running,            \* runner->running: listening
    has_connection,     \* runner->has_connection
    client_id,          \* connection.client_id, 0 when there is none
    line_length,        \* bytes of the unfinished line
    now,                \* now_ms of the next poll
    last_heartbeat,     \* connection.last_heartbeat_ms
    silence,            \* history: units since the last line, up to the timeout
    polled,             \* the pump has polled in this unit
    next_client_id,     \* server->next_client_id
    waiting,            \* a client is in the listen backlog
    inbox,              \* pieces the client sent and the server has not read
    served              \* history: set_state commands executed

clock == <<now, last_heartbeat, silence, polled>>
vars == <<app, running, has_connection, client_id, line_length, clock,
          next_client_id, waiting, inbox, served>>

ClientIds == 1 .. MaxClients

Byte == [op |-> "byte"]
Eof == [op |-> "eof"]
Other == [op |-> "other"]
Acquire == [op |-> "acquire"]
Release(owner_id) == [op |-> "release", owner_id |-> owner_id]
SetState(owner_id, state, sequence) ==
    [op |-> "set_state", owner_id |-> owner_id, state |-> state,
     sequence |-> sequence]

\* A piece that is the newline of a complete line.
IsLine(piece) == piece.op \notin {"byte", "eof"}

Pieces ==
    {Byte, Eof, Other, Acquire}
    \cup {Release(c) : c \in ClientIds}
    \cup {SetState(c, s, q) : c \in ClientIds, s \in States, q \in Sequences_}

-----------------------------------------------------------------------------
(* ipc_adapter.c *)

\* Mutant: an update in another client's name is refused without counting it.
execute_command_uncounted(command) ==
    CASE command.op = "acquire" -> domain_acquire(app, client_id).app
      [] command.op = "release" /\ command.owner_id = client_id
            -> domain_revoke(app, "RELEASE", client_id).app
      [] command.op = "set_state" /\ command.owner_id = client_id
            -> domain_set_state(app, client_id, command.state, command.sequence).app
      [] OTHER -> app

\* The domain after a command of the connected client. release and set_state
\* name their owner and are refused unless it is the sender.
execute_command(command) ==
    CASE command.op = "acquire" -> domain_acquire(app, client_id).app
      [] command.op = "release" /\ command.owner_id = client_id
            -> domain_revoke(app, "RELEASE", client_id).app
      [] command.op = "set_state" /\ command.owner_id = client_id
            -> domain_set_state(app, client_id, command.state, command.sequence).app
      [] command.op = "set_state" /\ command.owner_id # client_id
            -> record_state_update_rejected(app)
      [] OTHER -> app

-----------------------------------------------------------------------------
Init ==
    /\ app = domain_init
    /\ running = FALSE
    /\ has_connection = FALSE
    /\ client_id = 0
    /\ line_length = 0
    /\ now = 0
    /\ last_heartbeat = 0
    /\ silence = 0
    /\ polled = FALSE
    /\ next_client_id = 1
    /\ waiting = FALSE
    /\ inbox = <<>>
    /\ served = 0

start ==
    /\ ~running
    /\ running' = TRUE
    /\ has_connection' = FALSE
    /\ UNCHANGED <<app, client_id, line_length, clock, next_client_id, waiting,
                   inbox, served>>

\* swbt_ipc_connection_close and has_connection = false; what was not read
\* is lost with the socket.
connection_close ==
    /\ has_connection' = FALSE
    /\ client_id' = 0
    /\ line_length' = 0
    /\ last_heartbeat' = 0
    /\ silence' = 0
    /\ inbox' = <<>>

\* poll_once_at without a connection: accept the client that waits.
accept ==
    /\ running
    /\ ~has_connection
    /\ waiting
    /\ waiting' = FALSE
    /\ has_connection' = TRUE
    /\ client_id' = next_client_id
    /\ next_client_id' = next_client_id + 1
    /\ line_length' = 0
    /\ last_heartbeat' = now
    /\ silence' = 0
    /\ polled' = TRUE
    /\ inbox' = <<>>
    /\ UNCHANGED <<app, running, now, served>>

\* swbt_ipc_server_check_heartbeat: enabled, and overdue. A clock that has
\* wrapped since the heartbeat is below it, and the client is left alone.
check_heartbeat ==
    /\ HeartbeatTimeout > 0
    /\ now >= last_heartbeat
    /\ now - last_heartbeat >= HeartbeatTimeout

\* Mutant: the heartbeat is checked before the pending data.
poll_heartbeat_first ==
    /\ running
    /\ has_connection
    /\ check_heartbeat
    /\ app' = domain_revoke(app, "HEARTBEAT_TIMEOUT", client_id).app
    /\ connection_close
    /\ polled' = TRUE
    /\ UNCHANGED <<running, now, next_client_id, waiting, served>>

\* poll_once_at with a connection and no pending data: an overdue client is
\* revoked and closed.
poll_heartbeat ==
    /\ running
    /\ has_connection
    /\ inbox = <<>>
    /\ check_heartbeat
    /\ app' = domain_revoke(app, "HEARTBEAT_TIMEOUT", client_id).app
    /\ connection_close
    /\ polled' = TRUE
    /\ UNCHANGED <<running, now, next_client_id, waiting, served>>

\* poll_once_at that finds nobody to accept, or a silent client in time.
poll_idle ==
    /\ running
    /\ ~polled
    /\ IF has_connection THEN inbox = <<>> /\ ~check_heartbeat ELSE ~waiting
    /\ polled' = TRUE
    /\ UNCHANGED <<app, running, has_connection, client_id, line_length, now,
                   last_heartbeat, silence, next_client_id, waiting, inbox, served>>

-----------------------------------------------------------------------------
(* poll_once_at with pending data: swbt_ipc_read_line takes bytes until a  *)
(* newline, the end of the stream, or one byte more than a line may have.  *)

\* How many bytes come before the first piece that is not one.
LeadingBytes ==
    CHOOSE n \in 0 .. Len(inbox) :
        /\ \A i \in 1 .. n : inbox[i] = Byte
        /\ n = Len(inbox) \/ inbox[n + 1] # Byte

\* Whether those bytes are followed by a newline, or by the end of the stream.
EndsInLine == LeadingBytes < Len(inbox) /\ IsLine(inbox[LeadingBytes + 1])

EndsInEof == LeadingBytes < Len(inbox) /\ inbox[LeadingBytes + 1] = Eof

\* Mutant: the bytes kept from earlier polls are not counted.
LineBytes_of_this_read == LeadingBytes + (IF EndsInLine THEN 1 ELSE 0)

\* Bytes the current line has once this read is done; a newline is one too.
LineBytes == line_length + LeadingBytes + (IF EndsInLine THEN 1 ELSE 0)

Pending == running /\ has_connection /\ inbox # <<>>

\* Mutant: a line that is too long closes the connection, not the lease.
serve_too_long_keeps_lease ==
    /\ Pending
    /\ LineBytes > LineMax
    /\ connection_close
    /\ polled' = TRUE
    /\ UNCHANGED <<app, running, now, next_client_id, waiting, served>>

serve_too_long ==
    /\ Pending
    /\ LineBytes > LineMax
    /\ app' = domain_revoke(app, "DISCONNECT", client_id).app
    /\ connection_close
    /\ polled' = TRUE
    /\ UNCHANGED <<running, now, next_client_id, waiting, served>>

serve_disconnect ==
    /\ Pending
    /\ LineBytes <= LineMax
    /\ EndsInEof
    /\ app' = domain_revoke(app, "DISCONNECT", client_id).app
    /\ connection_close
    /\ polled' = TRUE
    /\ UNCHANGED <<running, now, next_client_id, waiting, served>>

\* Mutant: the length of an unfinished line is not checked.
serve_partial_unchecked ==
    /\ Pending
    /\ LeadingBytes = Len(inbox)
    /\ line_length' = LineBytes
    /\ inbox' = <<>>
    /\ polled' = TRUE
    /\ UNCHANGED <<app, running, has_connection, client_id, now, last_heartbeat,
                   silence, next_client_id, waiting, served>>

\* No newline yet: the bytes are kept, and nothing else happens in this poll.
serve_partial ==
    /\ Pending
    /\ LineBytes <= LineMax
    /\ LeadingBytes = Len(inbox)
    /\ line_length' = LineBytes
    /\ inbox' = <<>>
    /\ polled' = TRUE
    /\ UNCHANGED <<app, running, has_connection, client_id, now, last_heartbeat,
                   silence, next_client_id, waiting, served>>

\* One line: the heartbeat is recorded before the command is looked at.
serve_line ==
    /\ Pending
    /\ LineBytes <= LineMax
    /\ EndsInLine
    /\ LET command == inbox[LeadingBytes + 1]
       IN  /\ app' = execute_command(command)
           /\ served' = served + (IF command.op = "set_state" THEN 1 ELSE 0)
    /\ inbox' = SubSeq(inbox, LeadingBytes + 2, Len(inbox))
    /\ line_length' = 0
    /\ last_heartbeat' = now
    /\ silence' = 0
    /\ polled' = TRUE
    /\ UNCHANGED <<running, has_connection, client_id, now, next_client_id, waiting>>

poll_once_at ==
    \/ accept
    \/ poll_heartbeat
    \/ poll_idle
    \/ serve_too_long
    \/ serve_disconnect
    \/ serve_partial
    \/ serve_line

\* The daemon stops the runner: the connected client is disconnected, or any
\* owner is revoked when nobody is connected. The backlog is closed with it.
stop ==
    /\ running
    /\ running' = FALSE
    /\ app' = IF has_connection
              THEN domain_revoke(app, "DISCONNECT", client_id).app
              ELSE domain_revoke(app, "SHUTDOWN", 0).app
    /\ connection_close
    /\ waiting' = FALSE
    /\ UNCHANGED <<now, polled, next_client_id, served>>

-----------------------------------------------------------------------------
(* The clients and the clock.                                              *)

connect ==
    /\ running
    /\ ~waiting
    /\ next_client_id <= MaxClients
    /\ waiting' = TRUE
    /\ UNCHANGED <<app, running, has_connection, client_id, line_length, clock,
                   next_client_id, inbox, served>>

\* Where the set_state commands of a stream are.
Updates(pieces) == {i \in 1 .. Len(pieces) : pieces[i].op = "set_state"}

UpdatesSent == served + Cardinality(Updates(inbox))

send(piece) ==
    /\ has_connection
    /\ Len(inbox) < MaxInbox
    /\ \A i \in 1 .. Len(inbox) : inbox[i] # Eof
    /\ piece.op = "set_state" => UpdatesSent < MaxUpdates
    /\ inbox' = Append(inbox, piece)
    /\ UNCHANGED <<app, running, has_connection, client_id, line_length, clock,
                   next_client_id, waiting, served>>

\* A unit of time passes; the pump's timer has fired in the one before.
tick ==
    /\ running => polled
    /\ now' = (now + 1) % ClockMod
    /\ silence' = IF has_connection /\ silence < HeartbeatTimeout
                  THEN silence + 1 ELSE silence
    /\ polled' = FALSE
    /\ UNCHANGED <<app, running, has_connection, client_id, line_length,
                   last_heartbeat, next_client_id, waiting, inbox, served>>

Next ==
    \/ start
    \/ poll_once_at
    \/ stop
    \/ connect
    \/ \E piece \in Pieces : send(piece)
    \/ tick

Spec == Init /\ [][Next]_vars

\* The pump timer of the main loop polls again and again, and time passes.
FairSpec == Spec /\ WF_vars(poll_once_at) /\ WF_vars(tick)

-----------------------------------------------------------------------------
ClockOK ==
    /\ now \in 0 .. ClockMod - 1
    /\ last_heartbeat \in 0 .. ClockMod - 1
    /\ silence \in 0 .. HeartbeatTimeout

TypeOK ==
    /\ app \in DomainValue
    /\ running \in BOOLEAN
    /\ has_connection \in BOOLEAN
    /\ client_id \in 0 .. MaxClients
    /\ line_length \in 0 .. LineMax
    /\ ClockOK
    /\ polled \in BOOLEAN
    /\ next_client_id \in 1 .. MaxClients + 1
    /\ waiting \in BOOLEAN
    /\ inbox \in Seq(Pieces)
    /\ served \in 0 .. MaxUpdates

\* Only the client that is connected now can own the controller: every way a
\* connection ends (end of stream, overlong line, timeout, stop) takes the
\* lease along, so no later client finds the controller owned by a ghost.
OwnerIsConnected ==
    app.lease.has_owner => /\ running
                           /\ has_connection
                           /\ app.lease.owner_client_id = client_id

\* Every set_state that reached the command path is counted exactly once, as
\* accepted or as rejected (daemon-ipc-v1.md, ipc_state_*_total).
EveryUpdateIsCounted == app.accepted + app.rejected = served

\* A complete command that has arrived is executed before the client can be
\* timed out: a late poll serves it first.
WaitingCommandIsServed ==
    [][ (/\ has_connection /\ line_length = 0
         /\ inbox # <<>> /\ IsLine(Head(inbox)))
        => has_connection' \/ ~running' ]_vars

\* A client that has been silent for the timeout does not keep the controller,
\* a client that only sends pieces of a line included: it completes a line, or
\* the connection ends. The code keeps this promise only for a heartbeat whose
\* deadline comes before the 32-bit clock wraps: beyond it, ipc_server.c:512
\* leaves the client alone for ever.
OverdueClientIsDropped ==
    (/\ has_connection
     /\ HeartbeatTimeout > 0
     /\ silence = HeartbeatTimeout
     /\ last_heartbeat + HeartbeatTimeout < ClockMod)
        ~> (~has_connection \/ silence < HeartbeatTimeout)

\* spec/protocols/daemon-ipc-v1.md, line 60: a partial line of a slow client
\* does not keep the heartbeat timeout from being checked. A poll of an
\* overdue connection that completes no line therefore ends it.
PartialLineDoesNotBlockHeartbeat ==
    [][ (/\ has_connection
         /\ check_heartbeat
         /\ line_length' > line_length)
        => ~has_connection' ]_vars

Lease_ == INSTANCE ControllerLease WITH
    Clients  <- ClientIds,
    NoClient <- -1,
    driver   <- IF app.lease.has_owner THEN app.lease.owner_client_id ELSE -1,
    input    <- app.state

\* The IPC server implements ControllerLease.
ImplementsControllerLease == Lease_!Spec
=============================================================================
