------------------------------ MODULE Settings ------------------------------
(***************************************************************************)
(* How the daemon gets its settings and how it writes one of them back:    *)
(* main.c, daemon/cli.c, daemon/launch_options.c, daemon/config.c,         *)
(* daemon/config_file.cpp, daemon/switch_address.c and                     *)
(* daemon/active_reconnect.c.                                              *)
(*                                                                         *)
(* A launch reads the defaults, then the TOML file named by --config, then *)
(* the environment. In the production backend the address of every Switch  *)
(* that opens a HID connection is saved into the same TOML file (a read,   *)
(* a change and a rewrite in place), so that the next launch can reconnect *)
(* to it. The user edits the file with an editor of his own, also between  *)
(* the read and the rewrite. The process may die at any moment, and the    *)
(* machine too, with what the kernel had not yet written back.             *)
(*                                                                         *)
(* Data. A TOML file is a partial function from keys to values (formatting *)
(* and comments are left out), Unreadable when it is not TOML, or Absent.  *)
(* A TOML value is <<"integer", n>>, <<"string", s>>, <<"address", a, c>>  *)
(* (a string that reads as the Switch address a, written in the case c) or *)
(* <<"other">>. A key the code does not know, and a section that is not a  *)
(* table, is a key outside Keys. An environment is a partial function from *)
(* keys to <<"number", n>> or <<"text", s>>.                               *)
(***************************************************************************)
EXTENDS Integers, Sequences, SequencesExt, Functions

CONSTANTS
    Contents,   \* what a user may leave in the file
    Envs,       \* environments the daemon is launched in
    Argvs,      \* command lines, without argv[0]
    Lexemes,    \* adapter location texts and what they are made of
    Addresses,  \* Bluetooth addresses of Switches
    U16Max,     \* UINT16_MAX, scaled
    IntMax,     \* INT_MAX, scaled
    U32Max,     \* UINT32_MAX, scaled
    ULongMax,   \* ULONG_MAX of the build, scaled
    MaxEdits    \* bound on the number of edits by the user

ASSUME WidthAssumption ==
    /\ {U16Max, IntMax, U32Max, ULongMax, MaxEdits} \subseteq Nat
    /\ U16Max < IntMax /\ IntMax < U32Max /\ U32Max <= ULongMax
    /\ 8 <= U32Max

Empty == [key \in {} |-> 0]
Toml(content) == [kind |-> "toml", content |-> content]
Absent == [kind |-> "absent", content |-> Empty]
Unreadable == [kind |-> "unreadable", content |-> Empty]
NoAddress == <<"none">>

-----------------------------------------------------------------------------
(* switch_address.c: a text is an address in some case; every address that *)
(* enters the configuration is rewritten in upper case.                    *)

switch_address_normalize(value) ==
    IF value[1] = "address" THEN {<<"address", value[2], "upper">>} ELSE {}

switch_address_format_bytes(a) == <<"address", a, "upper">>

switch_address_parse_bytes(text) == text[2]

-----------------------------------------------------------------------------
(* config.c: the configuration is a function from Keys.                    *)

Period == "report.period_us"
Host == "ipc.host"
Port == "ipc.port"
Backlog == "ipc.backlog"
Heartbeat == "ipc.heartbeat_timeout_ms"
Profile == "device.profile"
Explicit == "active_reconnect.switch_address"
Learned == "active_reconnect.learned.switch_address"

Keys == {Period, Host, Port, Backlog, Heartbeat, Profile, Explicit, Learned}

HostSize == 16

\* The scaled default of the report period is 8.
config_default ==
    [key \in Keys |->
       CASE key = Period -> 8
         [] key = Host -> "127.0.0.1"
         [] key = Backlog -> 1
         [] key \in {Port, Heartbeat} -> 0
         [] key = Profile -> "swbt-pro"
         [] OTHER -> NoAddress]

\* The largest value of a numeric setting.
LimitOf(key) ==
    CASE key = Port -> U16Max
      [] key = Backlog -> IntMax
      [] OTHER -> U32Max

\* The setters of config.c return the values they would store: none when
\* they refuse the text. An empty profile leaves the device as it is.
set_ipc_host(s) == IF s # "" /\ Len(s) < HostSize THEN {s} ELSE {}

apply_device_info_profile(config, s) ==
    IF s = "" THEN {config[Profile]}
    ELSE IF s \in {"swbt-pro", "default"} THEN {"swbt-pro"} ELSE {}

\* strtoul: a minus sign is accepted and the number wraps in unsigned long.
parse_number(limit, text) ==
    IF text[1] = "number"
    THEN LET wrapped == IF text[2] < 0 THEN ULongMax + 1 + text[2] ELSE text[2]
         IN IF wrapped \in 0..limit THEN {wrapped} ELSE {}
    ELSE {}

\* Mutant: a backlog of 0 is let through.
settings_usable_period(config) == config[Period] # 0

settings_usable(config) == config[Period] # 0 /\ config[Backlog] > 0

\* A configuration in which the keys of S take the value read(key).
Overridden(config, S, read(_)) ==
    [key \in Keys |-> IF key \in S THEN CHOOSE x \in read(key) : TRUE
                                   ELSE config[key]]

env_value(config, env, key) ==
    CASE key = Host    -> set_ipc_host(env[key][2])
      [] key = Profile -> apply_device_info_profile(config, env[key][2])
      [] OTHER         -> parse_number(LimitOf(key), env[key])

\* An empty host is no host; an empty number is a refused number.
env_keys_set(env) ==
    {key \in DOMAIN env : ~(key = Host /\ env[key] = <<"text", "">>)}

config_apply_env(config, env) ==
    LET set == env_keys_set(env)
        read(key) == env_value(config, env, key)
        next == Overridden(config, set, read)
    IN IF (\A key \in set : read(key) # {}) /\ settings_usable(next)
       THEN [result |-> "OK", config |-> next]
       ELSE [result |-> "INVALID_VALUE", config |-> config]

effective_reconnect_switch_address(config) ==
    IF config[Explicit] # NoAddress THEN config[Explicit] ELSE config[Learned]

\* The environment variables config_apply_env asks for.
EnvKeys == Keys \ {Explicit, Learned}

ASSUME InputAssumption ==
    /\ \A env \in Envs : DOMAIN env \subseteq EnvKeys
    /\ \A content \in Contents : \A key \in DOMAIN content :
          content[key][1] = "address" => content[key][2] \in Addresses

-----------------------------------------------------------------------------
(* config_file.cpp *)

toml_value(config, key, value) ==
    CASE key \in {Explicit, Learned} -> switch_address_normalize(value)
      [] key = Host ->
            IF value[1] = "string" THEN set_ipc_host(value[2]) ELSE {}
      [] key = Profile ->
            IF value[1] = "string" THEN apply_device_info_profile(config, value[2])
                                   ELSE {}
      [] OTHER ->
            IF value[1] = "integer" /\ value[2] \in 0..LimitOf(key)
            THEN {value[2]} ELSE {}

\* Only known sections and keys, every value in range, or nothing changes.
config_apply_toml(config, content) ==
    LET read(key) == toml_value(config, key, content[key])
        known == DOMAIN content \subseteq Keys
        next == Overridden(config, DOMAIN content, read)
    IN IF known /\ (\A key \in DOMAIN content : read(key) # {})
             /\ settings_usable(next)
       THEN [result |-> "OK", config |-> next]
       ELSE [result |-> "INVALID_VALUE", config |-> config]

\* The file named by --config is required.
config_apply_file(config, f) ==
    CASE f = Absent     -> [result |-> "IO", config |-> config]
      [] f = Unreadable -> [result |-> "PARSE", config |-> config]
      [] OTHER          -> config_apply_toml(config, f.content)

\* A file that does not exist yet is an empty table.
toml_load_or_empty(f) ==
    IF f = Unreadable THEN [result |-> "PARSE", content |-> Empty]
    ELSE [result |-> "OK", content |-> f.content]

\* Mutant: a learned address that is already in the file is kept.
output_keeps_first(content, learned) == content @@ (Learned :> learned)

\* ensure_child_table and the assignment into it: the rest is written back
\* as it was read.
output_with_learned(content, learned) ==
    [key \in DOMAIN content \union {Learned} |->
       IF key = Learned THEN learned ELSE content[key]]

-----------------------------------------------------------------------------
(* launch_options.c. An argument is [text, option, form, value]: the whole *)
(* argument, the option it names, "separate" for --x and "equals" for      *)
(* --x=value, and the value behind the equals sign.                        *)

OptionNames ==
    {"--config", "--link-key-db", "--trace-path", "--hci-dump-path",
     "--crash-dump-path", "--backend", "--adapter-location"}

default_options ==
    [option \in OptionNames |-> IF option = "--backend" THEN "production" ELSE ""]

MaxPorts == 7
U8Values == 1..255

\* usb_adapter_location.c: winusb:<path>, or libusb:<bus>:<port>.<port>...
adapter_location_is_valid(text) ==
    /\ text \in DOMAIN Lexemes
    /\ LET lexeme == Lexemes[text] IN
       \/ lexeme.prefix = "winusb:" /\ lexeme.path # ""
       \/ /\ lexeme.prefix = "libusb:"
          /\ lexeme.bus \in U8Values
          /\ Len(lexeme.ports) \in 1..MaxPorts
          /\ Range(lexeme.ports) \subseteq U8Values
          /\ lexeme.rest = ""

option_value_is_valid(option, value) ==
    CASE option = "--backend" -> value \in {"production", "noop"}
      [] option = "--adapter-location" -> adapter_location_is_valid(value)
      [] OTHER -> TRUE

set_option(parse, option, value) ==
    CASE value = "" -> [parse EXCEPT !.result = "MISSING_VALUE"]
      [] value # "" /\ ~option_value_is_valid(option, value) ->
            [parse EXCEPT !.result = "INVALID_ARGUMENT"]
      [] OTHER -> [parse EXCEPT !.options[option] = value, !.awaiting = ""]

\* One argument. After a separate option the next argument is its value
\* whatever it looks like, and the first error ends the scan.
launch_options_argument(parse, argument) ==
    CASE parse.result # "OK" -> parse
      [] parse.result = "OK" /\ parse.awaiting # "" ->
            set_option(parse, parse.awaiting, argument.text)
      [] parse.result = "OK" /\ parse.awaiting = ""
            /\ argument.option \notin OptionNames ->
            [parse EXCEPT !.result = "UNKNOWN_OPTION"]
      [] OTHER ->
            IF argument.form = "separate"
            THEN [parse EXCEPT !.awaiting = argument.option]
            ELSE set_option(parse, argument.option, argument.value)

launch_options_parse(argv) ==
    LET parse == FoldLeft(launch_options_argument,
                          [result |-> "OK", options |-> default_options,
                           awaiting |-> ""], argv)
    IN IF parse.result = "OK" /\ parse.awaiting # ""
       THEN [parse EXCEPT !.result = "MISSING_VALUE"] ELSE parse

\* Whatever the command line, the backend is one of the two.
OptionsAreValid ==
    \A argv \in Argvs :
        launch_options_parse(argv).options["--backend"] \in {"production", "noop"}

\* default, then the file, then the environment.
launch_config_prepare(options, env, f) ==
    LET configured == options["--config"] # ""
        from_file == IF configured THEN config_apply_file(config_default, f)
                     ELSE [result |-> "OK", config |-> config_default]
        from_env == config_apply_env(from_file.config, env)
    IN IF from_file.result = "OK" /\ from_env.result = "OK"
       THEN [result |-> "OK", config |-> from_env.config, target |-> configured]
       ELSE [result |-> "INVALID", config |-> config_default, target |-> FALSE]

-----------------------------------------------------------------------------
VARIABLES
    file,    \* the TOML file, as every process sees it
    disk,    \* the TOML file, as a machine that dies finds it again
    proc,    \* the daemon process
    saving,  \* the save in progress: <<>> or <<its record>>
    exited,  \* exit code of the last process: "none", "ok", "error"
    edits,   \* number of edits made by the user
    \* What really happened, for the properties:
    edited,  \* what the user last left in the file
    learned, \* the address the file should hold under Learned
    torn,    \* a save failed or died half way, or was lost with the machine
    overlap, \* the last edit was made while a save was in progress
    launch   \* environment, file and learned address of the launch

vars == <<file, disk, proc, saving, exited, edits, edited, learned, torn, overlap, launch>>

\* The save in progress has truncated the file.
Opened == saving # <<>> /\ saving[1].phase # "read"

Files == {Absent, Unreadable} \union {Toml(content) : content \in Contents}

NotRunning ==
    [running |-> FALSE, backend |-> "production", target |-> FALSE,
     config |-> config_default, powered |-> FALSE, requested |-> "none"]

NoLaunch == [env |-> Empty, file |-> Absent, learned |-> NoAddress, clean |-> TRUE]

\* The learned address a file holds, as the code reads it.
LearnedIn(f) ==
    IF Learned \in DOMAIN f.content /\ f.content[Learned][1] = "address"
    THEN switch_address_format_bytes(f.content[Learned][2])
    ELSE NoAddress

Init ==
    /\ file \in Files /\ disk = file
    /\ edited = file /\ learned = LearnedIn(file)
    /\ proc = NotRunning /\ saving = <<>> /\ exited = "none" /\ edits = 0
    /\ torn = FALSE /\ overlap = FALSE /\ launch = NoLaunch

\* A save of which the user's edit has replaced the open file.
Crossed(s) == [phase |-> "crossed", next |-> s.next, output |-> s.output]

\* The user saves a new content with an editor, which sees to it that it
\* reaches the disk, or deletes the file. Nothing keeps him from doing so
\* while the daemon saves.
user_edits(f) ==
    /\ edits < MaxEdits
    /\ file' = f /\ disk' = f /\ edited' = f /\ learned' = LearnedIn(f)
    /\ edits' = edits + 1 /\ torn' = FALSE
    /\ overlap' = (saving # <<>>)
    /\ saving' = IF Opened THEN <<Crossed(saving[1])>> ELSE saving
    /\ UNCHANGED <<proc, exited, launch>>

cli_is_command(argv, words) == argv # <<>> /\ argv[1].text \in words

\* help, adapters and config print and exit; only config can be refused here
\* (listing adapters may fail in the USB library, which is external).
cli_dispatch(argv, env) ==
    /\ ~proc.running
    /\ \/ /\ cli_is_command(argv, {"help", "--help", "-h"})
          /\ exited' = "ok"
       \/ /\ cli_is_command(argv, {"adapters"})
          /\ exited' \in (IF Len(argv) = 1 THEN {"ok", "error"} ELSE {"error"})
       \/ /\ cli_is_command(argv, {"config"})
          /\ LET parse == launch_options_parse(Tail(argv)) IN
             exited' = IF /\ parse.result = "OK"
                          /\ launch_config_prepare(parse.options, env, file).result = "OK"
                       THEN "ok" ELSE "error"
    /\ UNCHANGED <<file, disk, proc, saving, edits, edited, learned, torn, overlap, launch>>

cli_handled(argv) ==
    cli_is_command(argv, {"help", "--help", "-h", "adapters", "config"})

\* main() up to the entry of the selected backend.
main(argv, env) ==
    /\ ~proc.running /\ ~cli_handled(argv)
    /\ LET parse == launch_options_parse(argv)
           prepared == launch_config_prepare(parse.options, env, file)
       IN IF parse.result = "OK" /\ prepared.result = "OK"
          THEN /\ proc' = [NotRunning EXCEPT !.running = TRUE,
                             !.backend = parse.options["--backend"],
                             !.target = prepared.target,
                             !.config = prepared.config]
               /\ launch' = [env |-> env, clean |-> ~torn /\ ~overlap, learned |-> learned,
                             file |-> IF prepared.target THEN file ELSE Absent]
               /\ exited' = "none"
          ELSE exited' = "error" /\ UNCHANGED <<proc, launch>>
    /\ UNCHANGED <<file, disk, saving, edits, edited, learned, torn, overlap>>

\* active_reconnect_request_active, called once when the controller is on.
request_active ==
    /\ proc.running /\ proc.backend = "production" /\ ~proc.powered
    /\ LET address == effective_reconnect_switch_address(proc.config) IN
       proc' = [proc EXCEPT !.powered = TRUE,
                  !.requested = IF address = NoAddress THEN "none"
                                ELSE switch_address_parse_bytes(address)]
    /\ UNCHANGED <<file, disk, saving, exited, edits, edited, learned, torn, overlap,
                   launch>>

\* Mutant: the validated copy of the configuration is kept as well.
next_config_validated(a) ==
    [config_apply_toml(proc.config, toml_load_or_empty(file).content).config
        EXCEPT ![Learned] = switch_address_format_bytes(a)]

\* The configuration that replaces the running one when the save succeeds.
next_config(a) == [proc.config EXCEPT ![Learned] = switch_address_format_bytes(a)]

\* The save of the address a, from the content it starts from.
StartSave(a, content) ==
    /\ proc.powered /\ proc.target /\ saving = <<>>
    /\ saving' = <<[phase  |-> "read",
                    next   |-> next_config(a),
                    output |-> output_with_learned(content, switch_address_format_bytes(a))]>>
    /\ UNCHANGED <<file, disk, proc, exited, edits, edited, learned, torn, overlap, launch>>

\* Mutant: the table parsed at the launch is kept and written back.
save_reads_at_launch(a) ==
    /\ toml_load_or_empty(file).result = "OK"
    /\ config_apply_toml(proc.config, toml_load_or_empty(file).content).result = "OK"
    /\ StartSave(a, launch.file.content)

\* A HID connection opened by the Switch a: save_learned_address up to the
\* text it will write. A file that cannot be parsed or validated is left alone.
save_reads(a) ==
    /\ toml_load_or_empty(file).result = "OK"
    /\ config_apply_toml(proc.config, toml_load_or_empty(file).content).result = "OK"
    /\ StartSave(a, toml_load_or_empty(file).content)

\* write_file: fopen(path, "wb") truncates whatever the file now holds.
save_opens ==
    /\ saving # <<>> /\ ~Opened
    /\ saving' = <<[phase |-> "open", next |-> saving[1].next,
                    output |-> saving[1].output]>>
    /\ file' = Toml(Empty)
    /\ UNCHANGED <<disk, proc, exited, edits, edited, learned, torn, overlap, launch>>

\* What an edit and a rewrite that cross leave: the file of an editor that
\* replaces files, a mixture that is no TOML, or the daemon's text with what
\* is left of a longer text behind it.
CrossedFiles(output, f) ==
    {f, Unreadable} \union
    {Toml([key \in DOMAIN output \union S |->
             IF key \in DOMAIN output THEN output[key] ELSE f.content[key]]) :
        S \in SUBSET DOMAIN f.content}

\* fwrite and fclose succeed: the running configuration follows.
save_writes ==
    /\ Opened
    /\ file' \in IF saving[1].phase = "crossed"
                 THEN CrossedFiles(saving[1].output, file)
                 ELSE {Toml(saving[1].output)}
    /\ proc' = [proc EXCEPT !.config = saving[1].next]
    /\ learned' = saving[1].next[Learned]
    /\ saving' = <<>>
    /\ UNCHANGED <<disk, exited, edits, edited, torn, overlap, launch>>

\* What a rewrite that stops half way can leave: the entries written so far,
\* in whatever order toml::format emits them, or a text cut inside an entry.
TornFiles(output) ==
    {Unreadable} \union {Toml(Restrict(output, S)) : S \in SUBSET DOMAIN output}

\* The file after a save that ends here without its fclose.
LeftBySave ==
    IF Opened
    THEN TornFiles(saving[1].output)
           \union (IF saving[1].phase = "crossed" THEN {file} ELSE {})
    ELSE {file}

\* fopen fails and nothing is changed, or fwrite or fclose does (a full disk):
\* the running configuration stays.
save_fails ==
    /\ saving # <<>>
    /\ file' \in LeftBySave
    /\ saving' = <<>> /\ torn' = (torn \/ Opened)
    /\ UNCHANGED <<disk, proc, exited, edits, edited, learned, overlap, launch>>

\* The kernel writes the file back to the disk, in its own time: the daemon
\* closes it without an fsync.
write_back ==
    /\ disk # file
    /\ disk' = file
    /\ UNCHANGED <<file, proc, saving, exited, edits, edited, learned, torn, overlap,
                   launch>>

\* The daemon stops in order, between two saves.
stop ==
    /\ proc.running /\ saving = <<>>
    /\ proc' = NotRunning /\ launch' = NoLaunch
    /\ exited' \in {"ok", "error"}
    /\ UNCHANGED <<file, disk, saving, edits, edited, learned, torn, overlap>>

\* The process dies, between saves or in one.
process_dies ==
    /\ proc.running
    /\ file' \in LeftBySave
    /\ proc' = NotRunning /\ launch' = NoLaunch /\ saving' = <<>>
    /\ exited' = "error" /\ torn' = (torn \/ Opened)
    /\ UNCHANGED <<disk, edits, edited, learned, overlap>>

\* The machine dies, with or without the daemon: of a file that was not
\* written back the disk has the old text, the new one or a part of it.
machine_dies ==
    /\ proc.running \/ file # disk
    /\ file' \in {disk} \union
                 (IF file # disk THEN LeftBySave \union TornFiles(file.content) ELSE {})
    /\ disk' = file'
    /\ proc' = NotRunning /\ launch' = NoLaunch /\ saving' = <<>>
    /\ exited' = "error" /\ torn' = (torn \/ Opened \/ file' # file)
    /\ UNCHANGED <<edits, edited, learned, overlap>>

Next ==
    \/ \E f \in Files : user_edits(f)
    \/ \E argv \in Argvs, env \in Envs : cli_dispatch(argv, env)
    \/ \E argv \in Argvs, env \in Envs : main(argv, env)
    \/ request_active
    \/ \E a \in Addresses : save_reads(a)
    \/ save_opens
    \/ save_writes
    \/ save_fails
    \/ write_back
    \/ stop
    \/ process_dies
    \/ machine_dies

Spec == Init /\ [][Next]_vars

-----------------------------------------------------------------------------
(* Properties *)

AddressTexts == {switch_address_format_bytes(a) : a \in Addresses}

\* Ranges of the settings in force. The period and the backlog are never 0
\* whatever file and environment the daemon was started with (the last test
\* of config_apply_toml and of config_apply_env), and addresses are in normal
\* form.
TypeOK ==
    /\ {file.kind, disk.kind} \subseteq {"absent", "unreadable", "toml"}
    /\ edited \in Files /\ edits \in 0..MaxEdits
    /\ exited \in {"none", "ok", "error"}
    /\ Len(saving) <= 1 /\ {torn, overlap} \subseteq BOOLEAN
    /\ learned \in {NoAddress} \union AddressTexts
    /\ proc.backend \in {"production", "noop"}
    /\ proc.requested \in {"none"} \union Addresses
    /\ proc.config[Period] \in 1..U32Max /\ proc.config[Port] \in 0..U16Max
    /\ proc.config[Backlog] \in 1..IntMax
    /\ proc.config[Heartbeat] \in 0..U32Max
    /\ {proc.config[Explicit], proc.config[Learned]}
          \subseteq {NoAddress} \union AddressTexts

UserPart(f) == Restrict(f.content, DOMAIN f.content \ {Learned})

\* Everything but the learned address is written back as the user left it. In
\* any sequence of launches, connections, stops and crashes the file holds the
\* user's last edit, with two exceptions, both of the rewrite in place by
\* save_active_reconnect_learned_switch_address: an edit made between the read
\* of a save and its close may be overwritten, and a save that fails, dies or is
\* lost with the machine may tear the file.
EditsSurviveSaves ==
    ~Opened /\ ~torn /\ ~overlap =>
        /\ UserPart(file) = UserPart(edited)
        /\ file.kind = "unreadable" <=> edited.kind = "unreadable"

\* What the precedence "default, TOML file, environment" says of one setting.
Precedence(env, f, key) ==
    CASE key \in env_keys_set(env) /\ env[key] # <<"text", "">> ->
                env_value(config_default, env, key)
      [] key \in DOMAIN f.content /\ key \notin env_keys_set(env) ->
                toml_value(config_default, key, f.content[key])
      [] OTHER -> {config_default[key]}

\* A running daemon keeps the settings of its launch: later edits of the file
\* reach neither the running configuration nor, through a save (which reads
\* and validates the edited file), anything but the learned address.
LaunchSettingsStay ==
    proc.running => \A key \in Keys \ {Learned} :
        {proc.config[key]} = Precedence(launch.env, launch.file, key)

\* A launch on an intact file asks to reconnect to the address the user set,
\* else to the last Switch whose address was saved (or that the user wrote),
\* across any number of restarts and failed saves. Intact: no save tore the
\* file and none crossed the user's last edit.
ReconnectsToLastSwitch ==
    [][ ~proc.powered /\ proc'.powered /\ launch.clean /\ proc.target =>
          LET wanted == IF proc.config[Explicit] # NoAddress
                        THEN proc.config[Explicit] ELSE launch.learned
          IN proc'.requested = IF wanted = NoAddress THEN "none" ELSE wanted[2]
      ]_vars
=============================================================================
