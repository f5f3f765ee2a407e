--------------------------- MODULE OutputReports ----------------------------
(***************************************************************************)
(* The path of a Switch output report through the daemon:                  *)
(* btstack_bridge/output_report_callbacks.c and output_report_handler.c,   *)
(* switch/switch_subcommand*.c, switch_spi*.c, switch_player_lights.c,     *)
(* switch_rumble.c and switch_device_info.c, domain.c's                    *)
(* handle_output_report, runtime/host.c's on_output_report, and the ring   *)
(* buffer of btstack_bridge/subcommand_reply_queue.c that holds the reply  *)
(* until BTstack can send it.                                              *)
(*                                                                         *)
(* The callback runs on the BTstack thread; another thread changes the     *)
(* controller state under the domain's lock at any time, and the callback  *)
(* holds that lock while it builds the reply, so a callback is one action. *)
(* When the replies leave is ReportTimer's subject; here they leave at any *)
(* time.                                                                   *)
(*                                                                         *)
(* Bytes are kept where they decide something or are packed: addresses,    *)
(* sizes and codes have their real values. The rumble data is opaque.      *)
(***************************************************************************)
EXTENDS Integers, Sequences, SequencesExt

CONSTANTS
    Reports,      \* output reports the Switch may send
    States,       \* controller states: [buttons, lx, ly, rx, ry, imu]
    NeutralState, \* swbt_state_neutral()
    NeutralRumble,\* SWBT_SWITCH_RUMBLE_NEUTRAL_PAYLOAD
    Capacity,     \* SWBT_BTSTACK_SUBCOMMAND_REPLY_QUEUE_CAPACITY
    MaxReports    \* bound on the number of output reports

ASSUME OutputAssumption ==
    NeutralState \in States /\ Capacity \in Nat \ {0} /\ MaxReports \in Nat

Byte == 0..255

\* The field types of swbt_state_t, and bytes on the wire.
ASSUME FieldAssumption ==
    /\ \A s \in States :
          /\ s.buttons \in Nat
          /\ s.lx \in Nat /\ s.ly \in Nat /\ s.rx \in Nat /\ s.ry \in Nat
          /\ \A i \in 1..6 : s.imu[i] \in Int /\ -32768 <= s.imu[i] /\ s.imu[i] <= 32767
    /\ \A r \in Reports : r.args \in Seq(Byte)

-----------------------------------------------------------------------------
(* switch_report.c and switch_subcommand_reply.c: how a controller state   *)
(* is packed into the bytes of a report.                                   *)

Smaller(a, b) == IF a < b THEN a ELSE b

\* Mutant: the high nibble of x is lost.
write_stick_drops_nibble(x, y) ==
    LET cy == Smaller(y, 4095) IN <<x % 256, (cy % 16) * 16, cy \div 16>>

\* Two 12 bit values in three bytes.
write_stick(x, y) ==
    LET cx == Smaller(x, 4095)
        cy == Smaller(y, 4095)
    IN <<cx % 256, cx \div 256 + (cy % 16) * 16, cy \div 16>>

write_i16_le(value) ==
    LET raw == value % 65536 IN <<raw % 256, raw \div 256>>

\* Bytes 3 to 11 of both kinds of input report: the buttons and two sticks.
state_bytes(state) ==
    LET left == write_stick(state.lx, state.ly)
        right == write_stick(state.rx, state.ry)
    IN <<state.buttons % 256, (state.buttons \div 256) % 256,
         (state.buttons \div 65536) % 256,
         left[1], left[2], left[3], right[1], right[2], right[3]>>

\* Six values of the IMU sample, two bytes each.
write_imu_frame(state) ==
    [k \in 1..12 |-> write_i16_le(state.imu[(k + 1) \div 2])[2 - (k % 2)]]

\* Bytes 13 to 48: the sample three times.
imu_bytes(state) == [k \in 1..36 |-> write_imu_frame(state)[((k - 1) % 12) + 1]]

build_standard_full_report(state) ==
    [state |-> state_bytes(state), imu |-> imu_bytes(state)]

\* A reply of at most 35 bytes of data.
build_subcommand_reply(state, ack, id, data) ==
    [state |-> state_bytes(state), ack |-> ack, subcommand_id |-> id, data |-> data]

reply_fits(data) == Len(data) <= 35

-----------------------------------------------------------------------------
(* switch_spi.c and switch_spi_seed.c: 0x10000 bytes of storage in an      *)
(* address space of 0x80000, erased to 0xFF. The storage is the partial    *)
(* function of the bytes that were written.                                *)

AddressLimit == 524288
StorageSize == 65536
MaxReadSize == 29
ErasedByte == 255

Entry(address, data) == [address |-> address, data |-> data]

Magic == <<178, 161>>

\* dev_profile: the fields in the order seed_apply writes them.
seed_dev_profile ==
    [fields |->
       << Entry(24594, <<3>>),
          Entry(24656, <<13, 13, 13, 255, 255, 255>>),
          Entry(24608, <<176, 255, 185, 254, 224, 0, 0, 64, 0, 64, 0, 64,
                         14, 0, 223, 255, 208, 255, 59, 52, 59, 52, 59, 52>>),
          Entry(24637, <<178, 161, 32, 128, 240, 127, 16, 128, 0>>),
          Entry(24646, <<178, 161, 48, 128, 224, 127, 32, 128, 0>>),
          Entry(32784, Magic), Entry(32795, Magic), Entry(32806, Magic) >>,
     sizes |-> <<1, 6, 24, 9, 9, 2, 2, 2>>,
     extra |-> <<>>]

End(entry) == entry.address + Len(entry.data)

ranges_overlap(a, b) == a.address < End(b) /\ b.address < End(a)

entry_is_inside(entry) == Len(entry.data) > 0 /\ End(entry) <= StorageSize

\* An extra entry overlaps neither a field nor an earlier extra entry.
validate_profile(profile) ==
    /\ \A i \in DOMAIN profile.fields :
          Len(profile.fields[i].data) = profile.sizes[i]
    /\ \A i \in DOMAIN profile.extra :
          /\ entry_is_inside(profile.extra[i])
          /\ \A f \in DOMAIN profile.fields :
                ~ranges_overlap(profile.extra[i], profile.fields[f])
          /\ \A j \in 1..(i - 1) : ~ranges_overlap(profile.extra[i], profile.extra[j])

\* A write that does not fit into the storage is refused as a whole.
spi_write(spi, entry) ==
    IF End(entry) <= StorageSize
    THEN [a \in entry.address..(End(entry) - 1) |-> entry.data[a - entry.address + 1]]
           @@ spi
    ELSE spi

\* A profile that is not valid writes nothing.
seed_apply(spi, profile) ==
    IF validate_profile(profile)
    THEN FoldLeft(spi_write, spi, profile.fields \o profile.extra) ELSE spi

\* The storage of a domain: written by domain_init and never again.
domain_spi == seed_apply([a \in {} |-> ErasedByte], seed_dev_profile)

spi_byte(address) ==
    IF address \in DOMAIN domain_spi THEN domain_spi[address] ELSE ErasedByte

\* Mutant: the end of the range is not counted.
spi_read_allowed_start(address, size) == size <= MaxReadSize /\ address < AddressLimit

spi_read_allowed(address, size) ==
    size <= MaxReadSize /\ address <= AddressLimit - size

spi_read(address, size) == [i \in 1..size |-> spi_byte(address + i - 1)]

-----------------------------------------------------------------------------
(* output_report_handler.c and switch_subcommand.c. A report of the wire   *)
(* is [type, report_id, first, size, rumble, subcommand_id, args]: DATA    *)
(* reports arrive with their id taken off (report_id # 0), SET_REPORT ones *)
(* with the id as the first byte (report_id = 0). args are the bytes after *)
(* the subcommand id.                                                      *)

OutputMaxSize == 64
RumbleAndSubcommand == 1
RumbleOnly == 16

\* rejoin_id: the id and the size the parser sees, or a refusal.
rejoined(r) ==
    IF r.report_id = 0 THEN [ok |-> TRUE, id |-> r.first, size |-> r.size]
    ELSE [ok |-> r.report_id <= 255 /\ r.size < OutputMaxSize,
          id |-> r.report_id, size |-> r.size + 1]

\* A report the handler passes on: an OUTPUT report of a known id that is
\* long enough for its header.
parse_output_report(r) ==
    LET joined == rejoined(r) IN
    [ok |-> /\ r.size >= 0 /\ r.type = "output" /\ joined.ok
            /\ \/ joined.id = RumbleAndSubcommand /\ joined.size >= 11
               \/ joined.id = RumbleOnly /\ joined.size >= 10,
     has_subcommand |-> joined.id = RumbleAndSubcommand]

-----------------------------------------------------------------------------
(* switch_subcommand_dispatcher.c *)

DeviceInfo == 2
TriggerButtonsElapsed == 4
SpiFlashRead == 16
SetMcuConfig == 33
SetPlayerLights == 48
GetPlayerLights == 49

\* LOW_POWER_MODE, SET_REPORT_MODE, ENABLE_IMU, ENABLE_VIBRATION.
SimpleAcks == {8, 3, 64, 72}

device_info_reply_data == <<4, 0, 3, 2, 0, 0, 0, 0, 0, 0, 1, 1>>

Zeros(n) == [i \in 1..n |-> 0]

\* Twice 300 ticks (0x012C).
trigger_buttons_elapsed_reply_data == <<44, 1, 44, 1>> \o Zeros(10)

mcu_config_reply_data == <<1, 0, 255, 0, 8, 0, 27, 1>> \o Zeros(25) \o <<200>>

lights_init == [raw |-> 0, on_mask |-> 0, flash_mask |-> 0, effective |-> 0]

Bit(mask, weight) == (mask \div weight) % 2

\* A light that is on does not flash.
effective_flash_mask(on_mask, flash_mask) ==
    LET part(weight) == IF Bit(flash_mask, weight) = 1 /\ Bit(on_mask, weight) = 0
                        THEN weight ELSE 0
    IN part(1) + part(2) + part(4) + part(8)

player_lights_apply_raw(raw) ==
    [raw |-> raw, on_mask |-> raw % 16, flash_mask |-> raw \div 16,
     effective |-> effective_flash_mask(raw % 16, raw \div 16)]

Refused(app, result) == [result |-> result, app |-> app, reply |-> <<>>]

Answer(app, r, ack, data) ==
    IF reply_fits(data)
    THEN [result |-> "OK", app |-> app,
          reply |-> <<build_subcommand_reply(app.state, ack, r.subcommand_id, data)>>]
    ELSE Refused(app, "REPLY_BUILD_FAILED")

read_u32_le(b) == b[1] + 256 * b[2] + 65536 * b[3] + 16777216 * b[4]

dispatch_spi_read(app, r) ==
    IF Len(r.args) < 5 THEN Refused(app, "MALFORMED_SUBCOMMAND")
    ELSE LET address == read_u32_le(r.args)
             size == r.args[5]
         IN IF spi_read_allowed(address, size)
            THEN Answer(app, r, 144, SubSeq(r.args, 1, 5) \o spi_read(address, size))
            ELSE Refused(app, "SPI_READ_FAILED")

dispatch_set_player_lights(app, r) ==
    IF r.args = <<>> THEN Refused(app, "MALFORMED_SUBCOMMAND")
    ELSE Answer([app EXCEPT !.lights = player_lights_apply_raw(r.args[1])],
                r, 128, <<>>)

subcommand_dispatch(app, r) ==
    LET id == r.subcommand_id IN
    CASE id = DeviceInfo -> Answer(app, r, 130, device_info_reply_data)
      [] id = TriggerButtonsElapsed ->
            Answer(app, r, 131, trigger_buttons_elapsed_reply_data)
      [] id = SetMcuConfig -> Answer(app, r, 160, mcu_config_reply_data)
      [] id \in SimpleAcks -> Answer(app, r, 128, <<>>)
      [] id = SpiFlashRead -> dispatch_spi_read(app, r)
      [] id = SetPlayerLights -> dispatch_set_player_lights(app, r)
      [] id = GetPlayerLights -> Answer(app, r, 176, <<app.lights.raw>>)
      [] OTHER -> Refused(app, "UNSUPPORTED")

rumble_init == [raw |-> NeutralRumble, updated |-> FALSE]

\* domain.c: the rumble is recorded before the subcommand is looked at and
\* stays when the subcommand is refused.
domain_handle_output_report(app, r) ==
    LET felt == [app EXCEPT !.rumble = [raw |-> r.rumble, updated |-> TRUE]]
    IN IF parse_output_report(r).has_subcommand THEN subcommand_dispatch(felt, r)
       ELSE Refused(felt, "NO_REPLY")

-----------------------------------------------------------------------------
(* subcommand_reply_queue.c *)

Vacant == <<>>

queue_init == [head |-> 0, count |-> 0, items |-> [i \in 0..(Capacity - 1) |-> Vacant]]

enqueue_index(q) == (q.head + q.count) % Capacity

\* Mutant: the new reply goes to the slot that holds count replies.
queue_enqueue_at_count(q, reply) ==
    IF q.count >= Capacity THEN q
    ELSE [q EXCEPT !.items[q.count] = reply, !.count = @ + 1]

\* A full queue drops the new reply.
queue_enqueue(q, reply) ==
    IF q.count >= Capacity THEN q
    ELSE [q EXCEPT !.items[enqueue_index(q)] = reply, !.count = @ + 1]

\* Mutant: the slot of a sent reply is not cleared.
queue_pop_keeps_item(q) ==
    [head |-> (q.head + 1) % Capacity, count |-> q.count - 1, items |-> q.items]

queue_pop(q) ==
    [head |-> (q.head + 1) % Capacity, count |-> q.count - 1,
     items |-> [q.items EXCEPT ![q.head] = Vacant]]

-----------------------------------------------------------------------------
VARIABLES
    started,  \* the runtime runs and its output handler is registered
    running,  \* the report timer adapter runs: a HID connection is open
    app,      \* state, rumble and player lights of the domain
    queue,    \* the reply queue
    \* What really happened, for the properties:
    reports,  \* number of output reports received
    sent      \* number of the report answered by the last reply sent

vars == <<started, running, app, queue, reports, sent>>

Init ==
    /\ started = FALSE /\ running = FALSE
    /\ app = [state |-> NeutralState, rumble |-> rumble_init, lights |-> lights_init]
    /\ queue = queue_init
    /\ reports = 0 /\ sent = 0

\* output_report_callbacks_register, in runtime_host_start.
host_start ==
    /\ ~started /\ started' = TRUE
    /\ UNCHANGED <<running, app, queue, reports, sent>>

\* runtime_host_stop: the state becomes neutral, the timer adapter stops
\* and empties the queue, then the callbacks are unregistered.
host_stop ==
    /\ started /\ started' = FALSE /\ running' = FALSE
    /\ app' = [app EXCEPT !.state = NeutralState]
    /\ queue' = queue_init
    /\ UNCHANGED <<reports, sent>>

connection_opened ==
    /\ started /\ ~running /\ running' = TRUE
    /\ UNCHANGED <<started, app, queue, reports, sent>>

\* The timer adapter stops: replies of this connection are dropped.
connection_closed ==
    /\ running /\ running' = FALSE
    /\ queue' = queue_init
    /\ UNCHANGED <<started, app, reports, sent>>

\* domain_set_state or domain_revoke on another thread.
state_changes(state) ==
    /\ app' = [app EXCEPT !.state = state]
    /\ UNCHANGED <<started, running, queue, reports, sent>>

\* The DATA and SET_REPORT callbacks, up to the enqueue of the reply, whose
\* result is ignored. For the properties a queued reply remembers its report,
\* the number of the report and the controller state it was built from.
output_report(r) ==
    /\ reports < MaxReports
    /\ reports' = reports + 1
    /\ IF started /\ parse_output_report(r).ok
       THEN LET handled == domain_handle_output_report(app, r) IN
            /\ app' = handled.app
            /\ queue' = IF handled.result = "OK" /\ running
                        THEN queue_enqueue(queue, [bytes |-> handled.reply[1],
                               report |-> r, number |-> reports', state |-> app.state])
                        ELSE queue
       ELSE UNCHANGED <<app, queue>>
    /\ UNCHANGED <<started, running, sent>>

\* BTstack takes the reply at the head. A send that fails changes nothing.
send_next ==
    /\ running /\ queue.count > 0
    /\ sent' = queue.items[queue.head].number
    /\ queue' = queue_pop(queue)
    /\ UNCHANGED <<started, running, app, reports>>

Next ==
    \/ host_start
    \/ host_stop
    \/ connection_opened
    \/ connection_closed
    \/ \E state \in States : state_changes(state)
    \/ \E r \in Reports : output_report(r)
    \/ send_next

Spec == Init /\ [][Next]_vars

-----------------------------------------------------------------------------
(* Properties *)

\* The queued replies, head first.
Queued == [i \in 1..queue.count |-> queue.items[(queue.head + i - 1) % Capacity]]

\* Slots outside the queue are cleared, and the masks of the player lights
\* are parts of the byte the Switch sent (clear_item, apply_raw).
TypeOK ==
    /\ started \in BOOLEAN /\ running \in BOOLEAN /\ (running => started)
    /\ queue.head \in 0..(Capacity - 1) /\ queue.count \in 0..Capacity
    /\ app.state \in States /\ reports \in 0..MaxReports /\ sent \in 0..reports
    /\ {i \in 0..(Capacity - 1) : queue.items[i] # Vacant}
         = {(queue.head + i) % Capacity : i \in 0..(queue.count - 1)}
    /\ app.lights.raw \in Byte
    /\ app.lights.effective + app.lights.on_mask \in 0..15

Fifo == INSTANCE ReplyFifo WITH replies <- Queued

\* The ring buffer with its wrapping head is a queue: replies leave in the
\* order they joined, none twice, none altered (enqueue_index, send_next).
ImplementsReplyFifo == Fifo!Spec

\* What the Switch reads back from bytes 3 to 11 of a report.
Decoded(b) ==
    [buttons |-> b[1] + 256 * b[2] + 65536 * b[3],
     lx |-> b[4] + 256 * (b[5] % 16), ly |-> b[5] \div 16 + 16 * b[6],
     rx |-> b[7] + 256 * (b[8] % 16), ry |-> b[8] \div 16 + 16 * b[9]]

DecodedImu(b, i) ==
    LET raw == b[2 * i - 1] + 256 * b[2 * i]
    IN IF raw >= 32768 THEN raw - 65536 ELSE raw

\* Buttons are the low 24 bits.
Clamped(state) ==
    [buttons |-> state.buttons % 16777216, lx |-> Smaller(state.lx, 4095),
     ly |-> Smaller(state.ly, 4095), rx |-> Smaller(state.rx, 4095),
     ry |-> Smaller(state.ry, 4095)]

\* Packing loses nothing: the Switch decodes from a standard report the whole
\* controller state, and from a reply the state of the moment its subcommand
\* was handled, whatever changed while the reply waited.
ReportsCarryTheState ==
    /\ LET b == build_standard_full_report(app.state) IN
       /\ Decoded(b.state) = Clamped(app.state)
       /\ \A i \in 1..18 : DecodedImu(b.imu, i) = app.state.imu[((i - 1) % 6) + 1]
    /\ \A i \in 1..queue.count :
          Decoded(Queued[i].bytes.state) = Clamped(Queued[i].state)

\* The byte of the flash the Switch asks for, straight from the seed table.
SeedByte(address) ==
    LET covers == {e \in Range(seed_dev_profile.fields) :
                      e.address <= address /\ address < End(e)}
    IN IF covers = {} THEN 255
       ELSE LET e == CHOOSE e \in covers : TRUE IN e.data[address - e.address + 1]

\* The writes of the seed one after the other leave exactly its table.
SpiIsSeeded == \A address \in 0..(AddressLimit - 1) : spi_byte(address) = SeedByte(address)

\* Every queued reply answers one report of the Switch, in the order of the
\* reports and after all replies already sent; it names the report's
\* subcommand, and a flash read returns exactly the bytes asked for, all of
\* them inside the flash.
RepliesFollowReports ==
    \A i \in 1..queue.count :
       LET q == Queued[i] IN
       /\ q.number > (IF i = 1 THEN sent ELSE Queued[i - 1].number)
       /\ q.bytes.subcommand_id = q.report.subcommand_id
       /\ q.bytes.ack = 144 =>
            LET address == read_u32_le(q.report.args) IN
            /\ address + q.report.args[5] <= AddressLimit
            /\ q.bytes.data = SubSeq(q.report.args, 1, 5) \o
                  [k \in 1..q.report.args[5] |-> SeedByte(address + k - 1)]
=============================================================================
