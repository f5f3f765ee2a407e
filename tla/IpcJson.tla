------------------------------- MODULE IpcJson -------------------------------
(***************************************************************************)
(* The JSON lines of the IPC protocol: how swbt/ipc/ipc_json.c decodes a   *)
(* request and encodes a response, and how the command adapter             *)
(* (swbt/ipc/ipc_adapter.c) turns one line into an operation of the domain *)
(* and one response.                                                       *)
(*                                                                         *)
(* A line is the sequence of the fields of its object, in the order they   *)
(* were written, and whether it is one complete object. A field's value is *)
(* a string, a number, an object or something else. What the decoder can   *)
(* tell apart in a string is kept: a plain text, the digits of a client id *)
(* ("hex"), a text with a backslash in it ("escaped"), and a text with a   *)
(* control character or more than SWBT_IPC_JSON_STRING_MAX characters      *)
(* ("unreadable"). The number of a buttons field is the set of its bits.   *)
(***************************************************************************)
EXTENDS Domain, Integers, Sequences

CONSTANTS
    Buttons,        \* the defined buttons; each is one bit
    StickMax,       \* SWBT_IPC_STICK_MAX
    I16Max,         \* INT16_MAX; INT16_MIN is one below its negative
    I64Max          \* INT64_MAX

ASSUME IpcJsonAssumption ==
    /\ {StickMax, I16Max, I64Max} \subseteq Nat
    /\ I64Max >= 1

-----------------------------------------------------------------------------
(* Lexemes.                                                                *)

Text(text) == [kind |-> "string", form |-> "plain", text |-> text]
Unread(form) == [kind |-> "string", form |-> form, text |-> ""]
Number(n) == [kind |-> "number", n |-> n]
Bits(bits) == [kind |-> "bits", bits |-> bits]
Object(fields) == [kind |-> "object", fields |-> fields]
Boolean_(b) == [kind |-> "boolean", b |-> b]

Field(key, value) == [key |-> key, value |-> value]

IsEscaped(value) == value.kind = "string" /\ value.form = "escaped"

\* A client id as eight hexadecimal digits.
format_owner_id(client_id) ==
    [kind |-> "string", form |-> "hex", text |-> "", id |-> client_id]

\* What the fields of a line are: numbered from 1, numbers that are nothing but
\* their value and client ids that are nothing but their digits.
IsLexeme(value) ==
    /\ value.kind = "number" => value = Number(value.n)
    /\ value.kind = "string" /\ value.form = "hex" => value = format_owner_id(value.id)

IsLine(line) ==
    /\ Len(line.fields) \in Nat /\ DOMAIN line.fields = 1 .. Len(line.fields)
    /\ \A i \in DOMAIN line.fields : IsLexeme(line.fields[i].value)

\* Mutant: the fields of nested objects are searched too, and first.
find_key_value_any_depth(fields, key) ==
    LET nested == {i \in DOMAIN fields : fields[i].value.kind = "object"}
        inner == {at \in nested \X (1 .. 20) :
                    /\ at[2] \in DOMAIN fields[at[1]].value.fields
                    /\ fields[at[1]].value.fields[at[2]].key = key}
        outer == {i \in DOMAIN fields : fields[i].key = key}
    IN  IF inner # {}
        THEN {fields[at[1]].value.fields[at[2]].value : at \in inner}
        ELSE {fields[i].value : i \in outer}

\* The value of the first field with this key, as a set of at most one. The
\* search stops with nothing at the first string of the object that has a
\* backslash in it.
find_key_value(fields, key) ==
    {fields[i].value : i \in {j \in DOMAIN fields :
        /\ fields[j].key = key
        /\ \A k \in 1 .. j - 1 : fields[k].key # key /\ ~IsEscaped(fields[k].value)}}

\* What swbt_json_read_string returns for what was found, and the test of
\* swbt_json_read_i64.
read_string(found) ==
    CASE found = {} -> "absent"
      [] \E v \in found : v.kind = "string" /\ v.form \in {"plain", "hex"} -> "ok"
      [] OTHER -> "invalid"

read_i64(value) == value.kind = "number" /\ value.n \in -(I64Max + 1) .. I64Max

\* The text of a string that was read.
TextOf(found) == (CHOOSE v \in found : TRUE).text

-----------------------------------------------------------------------------
(* Controller states.                                                      *)

KeyOrder ==
    << "buttons", "lx", "ly", "rx", "ry",
       "accel_x", "accel_y", "accel_z", "gyro_x", "gyro_y", "gyro_z" >>

StickKeys == {KeyOrder[i] : i \in 2 .. 5}
ImuKeys == {KeyOrder[i] : i \in 6 .. 11}
StateKeys == {"buttons"} \cup StickKeys \cup ImuKeys

ASSUME StatesAssumption == \A state \in States : state = [key \in StateKeys |-> state[key]]

parse_i16_field(fields, key) ==
    \E v \in find_key_value(fields, key) : read_i64(v) /\ v.n \in -(I16Max + 1) .. I16Max

parse_stick_field(fields, key) ==
    \E v \in find_key_value(fields, key) : read_i64(v) /\ v.n \in 0 .. StickMax

parse_buttons(fields) ==
    \E v \in find_key_value(fields, "buttons") : v.kind = "bits" /\ v.bits \subseteq Buttons

\* Every field of the state is required; seq is not, and is 0 then.
state_is_valid(line) ==
    /\ \E state \in find_key_value(line.fields, "state") :
        /\ state.kind = "object"
        /\ parse_buttons(state.fields)
        /\ \A key \in StickKeys : parse_stick_field(state.fields, key)
        /\ \A key \in ImuKeys : parse_i16_field(state.fields, key)
    /\ \A seq \in find_key_value(line.fields, "seq") : read_i64(seq) /\ seq.n >= 0

\* The state of an object that passed these checks.
StateOf(object) ==
    [key \in StateKeys |->
        LET value == CHOOSE v \in find_key_value(object.fields, key) : TRUE
        IN  IF key = "buttons" THEN value.bits ELSE value.n]

\* The fields of a state as the daemon and the debug client write them.
state_fields(state) ==
    [i \in 1 .. 11 |->
        Field(KeyOrder[i], IF KeyOrder[i] = "buttons" THEN Bits(state.buttons)
                                                      ELSE Number(state[KeyOrder[i]]))]

-----------------------------------------------------------------------------
(* Decoding.                                                               *)

\* has_request_id is false: a text no request_id has, since a line ends at its
\* line break. An empty request_id is one.
NoId == "\n"

init_command ==
    [type |-> "none", request_id |-> NoId, has_owner_id |-> FALSE,
     owner_client_id |-> 0, sequence |-> 0, state |-> Neutral]

init_response ==
    [type |-> "none", request_id |-> NoId, client_id |-> 0, owner_client_id |-> 0,
     sequence |-> 0, code |-> "invalid_json",
     status |-> [has_owner |-> FALSE, owner_client_id |-> 0, last_sequence |-> 0,
                 state |-> Neutral]]

set_error(request_id, code) ==
    [init_response EXCEPT !.type = "error", !.request_id = request_id, !.code = code]

Commands == {"hello", "acquire", "release", "set_state", "get_status"}

parse_request_id(line) ==
    LET found == find_key_value(line.fields, "request_id")
    IN  IF line.complete /\ read_string(found) = "ok" THEN TextOf(found) ELSE NoId

\* The checks of swbt_ipc_json_decode_command in their order: the code of the
\* first one that fails. A request_id that cannot be read is not echoed.
decode_error(line) ==
    LET type == find_key_value(line.fields, "type")
    IN  IF ~line.complete THEN "invalid_json"
        ELSE IF read_string(find_key_value(line.fields, "request_id")) = "invalid"
             THEN "invalid_json"
        ELSE IF ~\E v \in find_key_value(line.fields, "v") : read_i64(v) /\ v.n = 1
             THEN "invalid_version"
        ELSE IF read_string(type) = "invalid" THEN "invalid_json"
        ELSE IF read_string(type) = "absent" \/ TextOf(type) \notin Commands
             THEN "unsupported_command"
        ELSE IF TextOf(type) = "set_state" /\ ~state_is_valid(line) THEN "invalid_state"
        ELSE "none"

\* The command of a line that passed every check. owner_id is looked at for
\* release and set_state only, and one that is no client id is as good as none.
decode_command(line) ==
    LET type == TextOf(find_key_value(line.fields, "type"))
        owners == {v \in find_key_value(line.fields, "owner_id") :
                    /\ type \in {"release", "set_state"}
                    /\ v.kind = "string" /\ v.form = "hex"}
        sequences == {v \in find_key_value(line.fields, "seq") : type = "set_state"}
    IN  [init_command EXCEPT
            !.type = type,
            !.request_id = parse_request_id(line),
            !.has_owner_id = owners # {},
            !.owner_client_id = IF owners = {} THEN 0 ELSE (CHOOSE v \in owners : TRUE).id,
            !.sequence = IF sequences = {} THEN 0 ELSE (CHOOSE v \in sequences : TRUE).n,
            !.state = IF type # "set_state" THEN Neutral
                      ELSE StateOf(CHOOSE v \in find_key_value(line.fields, "state") : TRUE)]

-----------------------------------------------------------------------------
(* ipc_adapter.c and control.c: a command of the connection client_id.     *)

command_owner_matches_client(command, client_id) ==
    command.has_owner_id /\ command.owner_client_id = client_id

\* The response to a domain operation. A stale sequence number is no error
\* for swbt_control_map_app_result.
map_control_result(command, result, success) ==
    CASE result \in {"OK", "STALE_SEQUENCE"} ->
            [success EXCEPT !.request_id = command.request_id]
      [] result = "OWNER_BUSY" -> set_error(command.request_id, "owner_busy")
      [] result = "NOT_OWNER" -> set_error(command.request_id, "not_owner")

Status(app) ==
    [has_owner |-> app.lease.has_owner, owner_client_id |-> app.lease.owner_client_id,
     last_sequence |-> app.lease.last_sequence, state |-> app.state]

Responded(command, result, success) ==
    [app |-> result.app, response |-> map_control_result(command, result.result, success)]

execute_command(app, client_id, command) ==
    CASE command.type = "hello" ->
            Responded(command, [result |-> "OK", app |-> app],
                [init_response EXCEPT !.type = "hello_ok", !.client_id = client_id])
      [] command.type = "acquire" ->
            Responded(command, domain_acquire(app, client_id),
                [init_response EXCEPT !.type = "acquired", !.owner_client_id = client_id])
      [] command.type = "release" ->
            Responded(command,
                IF command_owner_matches_client(command, client_id)
                THEN domain_revoke(app, "RELEASE", client_id)
                ELSE [result |-> "NOT_OWNER", app |-> app],
                [init_response EXCEPT !.type = "released"])
      [] command.type = "set_state" ->
            Responded(command,
                IF command_owner_matches_client(command, client_id)
                THEN domain_set_state(app, client_id, command.state, command.sequence)
                ELSE [result |-> "NOT_OWNER", app |-> record_state_update_rejected(app)],
                [init_response EXCEPT !.type = "state_accepted",
                                      !.sequence = command.sequence])
      [] command.type = "get_status" ->
            Responded(command, [result |-> "OK", app |-> app],
                [init_response EXCEPT !.type = "status", !.status = Status(app)])

\* The fields a response writes after v, type and request_id. The parts of a
\* status about the process, its metrics and its hardware are left out.
response_fields(response) ==
    CASE response.type = "hello_ok" ->
            <<Field("client_id", format_owner_id(response.client_id))>>
      [] response.type = "acquired" ->
            <<Field("owner_id", format_owner_id(response.owner_client_id))>>
      [] response.type = "released" -> <<>>
      [] response.type = "state_accepted" -> <<Field("seq", Number(response.sequence))>>
      [] response.type = "status" ->
            << Field("owner", Object(
                    << Field("present", Boolean_(response.status.has_owner)),
                       Field("owner_id", format_owner_id(
                            IF response.status.has_owner
                            THEN response.status.owner_client_id ELSE 0)),
                       Field("last_seq", Number(response.status.last_sequence)) >>)),
               Field("state", Object(state_fields(response.status.state))) >>
      [] response.type = "error" -> <<Field("code", Text(response.code))>>

\* The bytes to send: one line, or none. An accepted state is answered only
\* when its request had a request_id.
encode_response(response) ==
    IF \/ response.type = "none"
       \/ response.type = "state_accepted" /\ response.request_id = NoId
    THEN <<>>
    ELSE << [complete |-> TRUE,
             fields   |-> << Field("v", Number(1)), Field("type", Text(response.type)) >>
                          \o (IF response.request_id = NoId THEN <<>>
                              ELSE <<Field("request_id", Text(response.request_id))>>)
                          \o response_fields(response)] >>

\* A line that does not decode changes nothing, not even a counter.
handle_line(app, client_id, line) ==
    LET error == decode_error(line)
        executed == IF error = "none"
                    THEN {execute_command(app, client_id, c) : c \in {decode_command(line)}}
                    ELSE {[app |-> app, response |-> set_error(parse_request_id(line), error)]}
    IN  CHOOSE handled \in {[app |-> e.app, sent |-> encode_response(e.response)] : e \in executed} :
            TRUE
=============================================================================
