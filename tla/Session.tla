------------------------------- MODULE Session -------------------------------
(***************************************************************************)
(* Whole IPC sessions: the debug client (apps/swbt-debug-client) and other *)
(* clients against the daemon, which serves one connection at a time from  *)
(* its polling runner (swbt/daemon/ipc_runner.c, swbt/ipc/ipc_server.c)    *)
(* and executes their lines (IpcJson). The daemon may be stopped and       *)
(* started again between any two steps.                                    *)
(*                                                                         *)
(* TCP is external: lines sent before a close are read before the end of   *)
(* the stream, and a peer that writes to a socket the other side closed    *)
(* either fails or loses what it wrote. Lines in pieces and lines that are *)
(* too long are the matter of IpcRunner, and so is the clock: here the     *)
(* heartbeat timeout may strike any connection that has nothing to read,   *)
(* and may never strike it, as after the wrap of the clock.                *)
(***************************************************************************)
EXTENDS IpcJson, SequencesExt, TLC

CONSTANTS
    DebugClients,       \* processes of swbt-debug-client
    OtherClients,       \* processes that send lines of their own
    Argvs,              \* command lines a debug client may be given
    Lines,              \* lines an other client may send
    U16Max,             \* UINT16_MAX
    U32Max,             \* UINT32_MAX
    U64Max,             \* UINT64_MAX
    HeartbeatEnabled,   \* heartbeat_timeout_ms > 0
    MaxWaiting,         \* bound: lines of an other client not yet read
    MaxUpdates,         \* bound: set_state lines an other client sends
    MaxStarts           \* bound: starts of the daemon

ASSUME SessionAssumption ==
    /\ DebugClients \cap OtherClients = {}
    /\ {U16Max, U32Max, U64Max, MaxWaiting, MaxUpdates, MaxStarts} \subseteq Nat
    /\ HeartbeatEnabled \in BOOLEAN

Clients == DebugClients \cup OtherClients

VARIABLES
    app,                \* the daemon's domain
    running,            \* runner->running: the daemon listens
    starts,             \* how often it was started
    next_client_id,     \* server->next_client_id
    backlog,            \* connected and not yet accepted, oldest first
    connection,         \* the client of runner->connection, as a set
    client_id,          \* connection.client_id
    socket,             \* per client: how far its connection is
    requests,           \* per client: lines sent and not yet read
    responses,          \* per client: lines the daemon sent it
    at,                 \* per client: where it is in its program
    config,             \* per debug client: its options
    owner_id,           \* per debug client: the owner_id it was given, as a set
    printed,            \* per debug client: the status it wrote to stdout
    exit                \* per client: exit code, or Running

vars == <<app, running, starts, next_client_id, backlog, connection, client_id,
          socket, requests, responses, at, config, owner_id, printed, exit>>

server_vars == <<app, running, starts, next_client_id, backlog, connection, client_id>>
client_vars == <<at, config, owner_id, printed, exit>>

Running == -1

\* Who still has its end of the connection open.
Sockets == {"none", "open", "client_closed", "server_closed", "closed"}

close_by_server(c) ==
    IF socket[c] = "client_closed" THEN "closed" ELSE "server_closed"

close_by_client(c) ==
    CASE socket[c] = "open" -> "client_closed"
      [] socket[c] = "server_closed" -> "closed"
      [] OTHER -> socket[c]

CanReadFrom(c) == requests[c] # <<>> \/ socket[c] = "client_closed"

-----------------------------------------------------------------------------
(* The options of the debug client. A word is a name or a number.          *)

Word(text) == [text |-> text, number |-> FALSE, n |-> 0, bits |-> {}]
NumberWord(n) == [text |-> "", number |-> TRUE, n |-> n, bits |-> {}]
BitsWord(bits) == [text |-> "", number |-> TRUE, n |-> 0, bits |-> bits]

StickOptions == [lx |-> "--lx", ly |-> "--ly", rx |-> "--rx", ry |-> "--ry"]

ImuOptions ==
    [accel_x |-> "--accel-x", accel_y |-> "--accel-y", accel_z |-> "--accel-z",
     gyro_x |-> "--gyro-x", gyro_y |-> "--gyro-y", gyro_z |-> "--gyro-z"]

AxisOptions == StickOptions @@ ImuOptions

OptionsOf(options) == {options[key] : key \in DOMAIN options}

ValueOptions ==
    {"--port", "--buttons", "--button", "--seq", "--hold-ms"} \cup OptionsOf(AxisOptions)

parse_u64(word, max_value) == word.number /\ word.n \in 0 .. max_value

parse_i64(word, min_value, max_value) == word.number /\ word.n \in min_value .. max_value

value_is_valid(option, word) ==
    CASE option = "--port" -> parse_u64(word, U16Max) /\ word.n # 0
      [] option = "--buttons" -> word.number /\ word.bits \subseteq Buttons
      [] option = "--button" -> ~word.number /\ word.text \in Buttons
      [] option \in OptionsOf(StickOptions) -> parse_u64(word, StickMax)
      [] option \in OptionsOf(ImuOptions) -> parse_i64(word, -(I16Max + 1), I16Max)
      [] option = "--seq" -> parse_u64(word, U64Max)
      [] option = "--hold-ms" -> parse_u64(word, U32Max)

set_value(options, option, word) ==
    CASE option = "--port" -> [options EXCEPT !.port = word.n]
      [] option = "--buttons" -> [options EXCEPT !.state.buttons = word.bits]
      [] option = "--button" -> [options EXCEPT !.state.buttons = @ \cup {word.text}]
      [] option \in OptionsOf(AxisOptions) ->
            LET key == CHOOSE k \in DOMAIN AxisOptions : AxisOptions[k] = option
            IN  [options EXCEPT !.state[key] = word.n]
      [] option = "--seq" -> [options EXCEPT !.sequence = word.n]
      [] option = "--hold-ms" -> [options EXCEPT !.hold_ms = word.n]

default_options ==
    [port |-> 0, state |-> Neutral, sequence |-> 0, hold_ms |-> 0, skip_release |-> FALSE]

\* One word of argv: the value of the option before it, whatever it looks
\* like, or an option. awaits is the option that waits for its value.
parse_word(parsed, word) ==
    IF ~parsed.ok THEN parsed
    ELSE IF parsed.awaits # "" THEN
        [ok      |-> value_is_valid(parsed.awaits, word),
         awaits  |-> "",
         options |-> IF value_is_valid(parsed.awaits, word)
                     THEN set_value(parsed.options, parsed.awaits, word)
                     ELSE parsed.options]
    ELSE CASE word.text \in ValueOptions -> [parsed EXCEPT !.awaits = word.text]
           [] word.text = "--skip-release" -> [parsed EXCEPT !.options.skip_release = TRUE]
           [] word.text = "--neutral" -> [parsed EXCEPT !.options.state = Neutral]
           [] OTHER -> [parsed EXCEPT !.ok = FALSE]

\* swbt_debug_client_parse_args: macro arguments and unknown words are
\* refused, a trailing option lacks its value, and --port is required.
parse_args(argv) ==
    LET after[i \in 0 .. Len(argv)] ==
            IF i = 0 THEN [ok |-> TRUE, awaits |-> "", options |-> default_options]
            ELSE parse_word(after[i - 1], argv[i])
        parsed == after[Len(argv)]
    IN  [ok      |-> parsed.ok /\ parsed.awaits = "" /\ parsed.options.port # 0,
         options |-> parsed.options]

\* The controller states that lines and command lines can say are in States.
ASSUME InputAssumption ==
    /\ \A line \in Lines :
        IsLine(line) /\ (decode_error(line) = "none" => decode_command(line).state \in States)
    /\ \A argv \in Argvs : LET parsed == parse_args(argv)
                          IN  parsed.ok => parsed.options.state \in States

-----------------------------------------------------------------------------
(* What the debug client writes and how it reads answers.                  *)

Request(fields) == [complete |-> TRUE, fields |-> fields]

Type(type) == Field("type", Text(type))
RequestId(id) == Field("request_id", Text(id))

send_hello ==
    Request(<< Field("v", Number(1)), Type("hello"),
               Field("client_name", Text("swbt-debug-client")), RequestId("h1") >>)

send_acquire ==
    Request(<< Field("v", Number(1)), Type("acquire"),
               Field("mode", Text("exclusive")), RequestId("a1") >>)

send_set_state(owner, state, sequence) ==
    Request(<< Field("v", Number(1)), Type("set_state"),
               Field("owner_id", owner), Field("seq", Number(sequence)), RequestId("s1"),
               Field("state", Object(state_fields(state))) >>)

send_get_status == Request(<<Field("v", Number(1)), Type("get_status"), RequestId("g1")>>)

send_release(owner) ==
    Request(<< Field("v", Number(1)), Type("release"),
               Field("owner_id", owner), RequestId("r1") >>)

\* strstr for "type":"...". No response has a field of that name inside an
\* object of its own, so the search through the text is one of the outer fields.
response_contains(response, type) ==
    \E i \in DOMAIN response.fields : response.fields[i] = Field("type", Text(type))

\* The text after the first "key":" of the response, as a set of at most one.
response_string(response, key) ==
    {v \in find_key_value(response.fields, key) : v.kind = "string"}

-----------------------------------------------------------------------------
(* The daemon.                                                             *)

Init ==
    /\ app = domain_init
    /\ running = FALSE
    /\ starts = 0
    /\ next_client_id = 1
    /\ backlog = <<>>
    /\ connection = {}
    /\ client_id = 0
    /\ socket = [c \in Clients |-> "none"]
    /\ requests = [c \in Clients |-> <<>>]
    /\ responses = [c \in DebugClients |-> <<>>]
    /\ at = [c \in Clients |-> [step |-> "ready", sent |-> FALSE, lines |-> 0]]
    /\ config = [c \in DebugClients |-> default_options]
    /\ owner_id = [c \in DebugClients |-> {}]
    /\ printed = [c \in DebugClients |-> <<>>]
    /\ exit = [c \in Clients |-> Running]

\* A new process: client ids start again at 1.
start ==
    /\ ~running
    /\ starts < MaxStarts
    /\ running' = TRUE
    /\ starts' = starts + 1
    /\ app' = domain_init
    /\ next_client_id' = 1
    /\ UNCHANGED <<backlog, connection, client_id, socket, requests, responses, client_vars>>

\* Mutant: the connection is forgotten and its socket left open.
connection_close_leaks_socket(clients) ==
    /\ UNCHANGED socket
    /\ requests' = [c \in Clients |-> IF c \in clients THEN <<>> ELSE requests[c]]
    /\ connection' = {}
    /\ client_id' = 0

\* Mutant: the client id of the closed connection is kept.
connection_close_keeps_client_id(clients) ==
    /\ socket' = [c \in Clients |-> IF c \in clients THEN close_by_server(c) ELSE socket[c]]
    /\ requests' = [c \in Clients |-> IF c \in clients THEN <<>> ELSE requests[c]]
    /\ connection' = {}
    /\ UNCHANGED client_id

\* The sockets of these clients are closed; what they sent is lost.
connection_close(clients) ==
    /\ socket' = [c \in Clients |-> IF c \in clients THEN close_by_server(c) ELSE socket[c]]
    /\ requests' = [c \in Clients |-> IF c \in clients THEN <<>> ELSE requests[c]]
    /\ connection' = {}
    /\ client_id' = 0

stop ==
    /\ running
    /\ running' = FALSE
    /\ app' = IF connection # {} THEN domain_revoke(app, "DISCONNECT", client_id).app
                                 ELSE domain_revoke(app, "SHUTDOWN", 0).app
    /\ connection_close(connection \cup ToSet(backlog))
    /\ backlog' = <<>>
    /\ UNCHANGED <<starts, next_client_id, responses, client_vars>>

accept ==
    /\ running
    /\ connection = {}
    /\ backlog # <<>>
    /\ connection' = {Head(backlog)}
    /\ backlog' = Tail(backlog)
    /\ client_id' = next_client_id
    /\ next_client_id' = next_client_id + 1
    /\ UNCHANGED <<app, running, starts, socket, requests, responses, client_vars>>

\* One complete line. A response to a client that has gone cannot be sent:
\* the poll fails, the command stays executed and the connection stays too.
serve_line(c) ==
    /\ running
    /\ c \in connection
    /\ requests[c] # <<>>
    /\ requests' = [requests EXCEPT ![c] = Tail(@)]
    /\ UNCHANGED <<running, starts, next_client_id, backlog, connection, client_id, socket,
                   client_vars>>
    /\ \E handled \in {handle_line(app, client_id, Head(requests[c]))} :
        /\ app' = handled.app
        /\ responses' = IF c \in DebugClients /\ socket[c] = "open"
                        THEN [responses EXCEPT ![c] = @ \o handled.sent]
                        ELSE responses

serve_disconnect(c) ==
    /\ running
    /\ c \in connection
    /\ requests[c] = <<>>
    /\ socket[c] = "client_closed"
    /\ app' = domain_revoke(app, "DISCONNECT", client_id).app
    /\ connection_close({c})
    /\ UNCHANGED <<running, starts, next_client_id, backlog, responses, client_vars>>

\* Every line read renews the heartbeat (IpcRunner has the clock), so only a
\* connection with nothing to read can be overdue.
poll_heartbeat(c) ==
    /\ running
    /\ c \in connection
    /\ HeartbeatEnabled
    /\ ~CanReadFrom(c)
    /\ app' = domain_revoke(app, "HEARTBEAT_TIMEOUT", client_id).app
    /\ connection_close({c})
    /\ UNCHANGED <<running, starts, next_client_id, backlog, responses, client_vars>>

poll_serves ==
    \/ accept
    \/ \E c \in Clients : serve_line(c) \/ serve_disconnect(c)

poll_once_at == poll_serves \/ \E c \in Clients : poll_heartbeat(c)

-----------------------------------------------------------------------------
(* The debug client.                                                       *)

connect(c) ==
    /\ socket' = [socket EXCEPT ![c] = "open"]
    /\ backlog' = Append(backlog, c)

\* swbt_debug_client_main up to run_io: bad options end with 2, a daemon that
\* does not listen with 3.
launch(c) ==
    /\ at[c].step = "ready"
    /\ \E argv \in Argvs :
        LET parsed == parse_args(argv)
            code == IF ~parsed.ok THEN 2 ELSE IF ~running THEN 3 ELSE Running
        IN  /\ exit' = [exit EXCEPT ![c] = code]
            /\ at' = [at EXCEPT ![c].step = IF code = Running THEN "hello" ELSE "done"]
            /\ config' = IF parsed.ok THEN [config EXCEPT ![c] = parsed.options] ELSE config
            /\ IF code = Running THEN connect(c) ELSE UNCHANGED <<socket, backlog>>
    /\ UNCHANGED <<app, running, starts, next_client_id, connection, client_id, requests,
                   responses, owner_id, printed>>

\* The process ends, and with it its end of the connection.
finish(c, code) ==
    /\ exit' = [exit EXCEPT ![c] = code]
    /\ at' = [at EXCEPT ![c].step = "done", ![c].sent = FALSE]
    /\ socket' = [socket EXCEPT ![c] = close_by_client(c)]

go_to(c, step) ==
    /\ at' = [at EXCEPT ![c].step = step, ![c].sent = FALSE]
    /\ UNCHANGED <<exit, socket>>

\* run_io returns 1, after one more attempt to release when the client may own
\* the controller; main then returns 4.
fail(c) ==
    IF at[c].step \in {"set_state", "get_status"} THEN go_to(c, "release_best_effort")
                                                  ELSE finish(c, 4)

OwnerId(c) == CHOOSE id \in owner_id[c] : TRUE

Line(c) ==
    CASE at[c].step = "hello" -> send_hello
      [] at[c].step = "acquire" -> send_acquire
      [] at[c].step = "set_state" ->
            send_set_state(OwnerId(c), config[c].state, config[c].sequence)
      [] at[c].step = "get_status" -> send_get_status
      [] at[c].step \in {"release", "release_best_effort"} -> send_release(OwnerId(c))

Talks(c) == at[c].step \notin {"ready", "hold", "done"}

send(c) ==
    /\ Talks(c)
    /\ ~at[c].sent
    /\ UNCHANGED <<server_vars, responses, config, owner_id, printed>>
    /\ \/ /\ at' = [at EXCEPT ![c].sent = TRUE]
          /\ requests' = IF socket[c] = "open"
                         THEN [requests EXCEPT ![c] = Append(@, Line(c))]
                         ELSE requests
          /\ UNCHANGED <<exit, socket>>
       \/ /\ socket[c] = "server_closed"
          /\ fail(c)
          /\ UNCHANGED requests

\* Whether the answer is the one the step goes on with.
Accepts(step, response) ==
    /\ ~response_contains(response, "error")
    /\ step = "hello" => /\ response_contains(response, "hello_ok")
                         /\ response_string(response, "client_id") # {}
    /\ step = "acquire" => /\ response_contains(response, "acquired")
                           /\ response_string(response, "owner_id") # {}

Following == [hello |-> "acquire", acquire |-> "set_state", set_state |-> "get_status",
              get_status |-> "hold"]

receive(c) ==
    /\ at[c].sent
    /\ responses[c] # <<>>
    /\ responses' = [responses EXCEPT ![c] = Tail(@)]
    /\ UNCHANGED <<server_vars, requests, config>>
    /\ LET response == Head(responses[c])
           step == at[c].step
       IN  /\ IF step = "release_best_effort" \/ ~Accepts(step, response) THEN fail(c)
              ELSE IF step = "release" THEN finish(c, 0)
              ELSE go_to(c, Following[step])
           /\ owner_id' = IF step = "acquire" /\ Accepts(step, response)
                          THEN [owner_id EXCEPT ![c] = response_string(response, "owner_id")]
                          ELSE owner_id
           /\ printed' = IF step = "get_status" /\ Accepts(step, response)
                         THEN [printed EXCEPT ![c] = <<response>>]
                         ELSE printed

\* The daemon closed the connection; a response still on its way may be lost.
receive_fails(c) ==
    /\ at[c].sent
    /\ socket[c] = "server_closed"
    /\ fail(c)
    /\ responses' = [responses EXCEPT ![c] = <<>>]
    /\ UNCHANGED <<server_vars, requests, config, owner_id, printed>>

\* The end of the hold: with --skip-release the client just leaves.
hold_ends(c) ==
    /\ at[c].step = "hold"
    /\ IF config[c].skip_release THEN finish(c, 0) ELSE go_to(c, "release")
    /\ UNCHANGED <<server_vars, requests, responses, config, owner_id, printed>>

run_io(c) == send(c) \/ receive(c) \/ receive_fails(c) \/ hold_ends(c)

-----------------------------------------------------------------------------
(* Other clients: they connect, send lines, for ever if they like, and     *)
(* leave at any time. Only lines that are counted, set_state, are bounded. *)

other_connects(c) ==
    /\ at[c].step = "ready"
    /\ running
    /\ connect(c)
    /\ at' = [at EXCEPT ![c].step = "lines"]
    /\ UNCHANGED <<app, running, starts, next_client_id, connection, client_id, requests,
                   responses, config, owner_id, printed, exit>>

Updates(line) == IF Type("set_state") \in ToSet(line.fields) THEN 1 ELSE 0

other_sends(c) ==
    /\ at[c].step = "lines"
    /\ socket[c] = "open"
    /\ Len(requests[c]) < MaxWaiting
    /\ \E line \in Lines :
        /\ at[c].lines + Updates(line) <= MaxUpdates
        /\ requests' = [requests EXCEPT ![c] = Append(@, line)]
        /\ at' = [at EXCEPT ![c].lines = at[c].lines + Updates(line)]
    /\ UNCHANGED <<server_vars, socket, responses, config, owner_id, printed, exit>>

other_leaves(c) ==
    /\ at[c].step = "lines"
    /\ finish(c, 0)
    /\ UNCHANGED <<server_vars, requests, responses, config, owner_id, printed>>

Next ==
    \/ start
    \/ stop
    \/ poll_once_at
    \/ \E c \in DebugClients : launch(c) \/ run_io(c)
    \/ \E c \in OtherClients : other_connects(c) \/ other_sends(c) \/ other_leaves(c)

\* The pump timer polls while the daemon runs, and a debug client that can go
\* on does. Nothing is assumed of the other clients and of the timeout.
Spec ==
    /\ Init /\ [][Next]_vars
    /\ WF_vars(poll_serves)
    /\ \A c \in DebugClients : WF_vars(run_io(c))

-----------------------------------------------------------------------------
TypeOK ==
    /\ app \in DomainValue
    /\ running \in BOOLEAN
    /\ starts \in 0 .. MaxStarts
    /\ next_client_id \in Nat \ {0}
    /\ ToSet(backlog) \subseteq Clients
    /\ connection \in {{}} \cup {{c} : c \in Clients}
    /\ client_id \in 0 .. next_client_id - 1
    /\ socket \in [Clients -> Sockets]
    /\ \A c \in DebugClients : /\ config[c].state \in States
                               /\ Len(responses[c]) <= 1
    /\ exit \in [Clients -> {Running, 0, 2, 3, 4}]

\* The controller is in the hands of this client.
Drives(c) == c \in connection /\ lease_held_by(app.lease, client_id)

\* What exit code 0 of the debug client is worth: the status it printed showed
\* the state of its command line in force, under its own owner_id, and unless
\* it skipped the release the controller is out of its hands. Neither an
\* earlier owner's sequence numbers, nor a restart of the daemon, nor a timeout
\* during the hold makes a client succeed with something else.
SuccessWasInForce ==
    \A c \in DebugClients : exit[c] = 0 =>
        /\ printed[c] # <<>>
        /\ LET status == printed[c][1].fields
           IN  /\ \E state \in find_key_value(status, "state") :
                    StateOf(state) = config[c].state
               /\ \E owner \in find_key_value(status, "owner") :
                    /\ \E present \in find_key_value(owner.fields, "present") : present.b
                    /\ find_key_value(owner.fields, "owner_id") = owner_id[c]
        /\ ~config[c].skip_release => ~Drives(c)

\* The values a line gives to a key of its object.
Says(line, key) ==
    {line.fields[i].value : i \in {j \in DOMAIN line.fields : line.fields[j].key = key}}

HasEscapes(line) == \E i \in DOMAIN line.fields : IsEscaped(line.fields[i].value)

\* A line without escapes that the daemon executes does what its JSON object
\* says and nothing else (with an escape, see UnknownFieldsAreIgnored):
\* the controller is taken only by an acquire, given up only by a release in
\* the sender's name, and driven only by a set_state in the sender's name, to
\* the state and the sequence number it gives (0 without one).
LineDoesWhatItSays ==
    [][ \A c \in connection :
            LET line == Head(requests[c])
                types == {v.text : v \in {u \in Says(line, "type") : u.kind = "string"}}
                mine == format_owner_id(client_id) \in Says(line, "owner_id")
            IN  (/\ requests[c] # <<>> /\ c \in connection'
                 /\ requests'[c] = Tail(requests[c]) /\ ~HasEscapes(line))
                => /\ app'.lease.has_owner /\ ~app.lease.has_owner => "acquire" \in types
                   /\ ~app'.lease.has_owner /\ app.lease.has_owner => "release" \in types /\ mine
                   /\ (app'.accepted # app.accepted) =>
                        /\ "set_state" \in types /\ mine
                        /\ \E v \in Says(line, "state") : StateOf(v) = app'.state
                        /\ IF Says(line, "seq") = {} THEN app'.lease.last_sequence = 0
                           ELSE Number(app'.lease.last_sequence) \in Says(line, "seq") ]_vars

Finished(c) == at[c].step = "done" /\ ~Drives(c)

\* A debug client whose connection is accepted comes to an end and lets go of
\* the controller, whatever it is answered, whenever it is timed out or the
\* daemon stops: it is never left waiting for an answer. One that still waits to
\* be accepted ends too, provided that no other client keeps the daemon's only
\* connection for ever, as a client that goes on sending lines can.
ClientsFinish ==
    \A c \in DebugClients :
        /\ c \in connection ~> Finished(c)
        /\ (\A o \in OtherClients : []<>(o \notin connection))
              => (at[c].step # "ready" ~> Finished(c))

Known == {"v", "type", "request_id", "owner_id", "state", "seq"}

WithoutUnknownFields(line) ==
    [line EXCEPT !.fields = SelectSeq(@, LAMBDA f : f.key \in Known)]

\* spec/protocols/daemon-ipc-v1.md, line 87: the parser does not refuse unknown
\* fields. A line is therefore answered and executed as it is without them.
UnknownFieldsAreIgnored ==
    \A c \in connection : requests[c] # <<>> =>
        LET line == Head(requests[c])
        IN  handle_line(app, client_id, line)
                = handle_line(app, client_id, WithoutUnknownFields(line))
=============================================================================
