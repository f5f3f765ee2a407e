------------------------ MODULE OutputReportsProofs -------------------------
(***************************************************************************)
(* Proofs about OutputReports: the ring buffer of the reply queue, for     *)
(* every capacity, and what the replies in it say.                         *)
(***************************************************************************)
EXTENDS OutputReports, SequenceTheorems, TLAPS

-----------------------------------------------------------------------------
(* The ring buffer. *)

\* The slot j places behind the head.
At(q, j) == q.items[(q.head + j) % Capacity]

Slots == 0..(Capacity - 1)

IsRing(q) ==
    /\ q = [head |-> q.head, count |-> q.count, items |-> q.items]
    /\ q.head \in Slots /\ q.count \in 0..Capacity
    /\ q.items = [i \in Slots |-> q.items[i]]

\* Counting from the head reaches every slot once.
LEMMA SlotsFromHead ==
    ASSUME NEW h \in Slots
    PROVE  /\ \A i \in Slots : (h + i) % Capacity \in Slots
           /\ \A i, j \in Slots : i # j => (h + i) % Capacity # (h + j) % Capacity
           /\ \A k \in Slots : \E i \in Slots : (h + i) % Capacity = k
<1>1. Capacity \in Nat \ {0}
  BY OutputAssumption
<1>2. \A i \in Slots : (h + i) % Capacity \in Slots
  BY <1>1 DEF Slots
<1>3. \A i, j \in Slots : i # j => (h + i) % Capacity # (h + j) % Capacity
  BY <1>1 DEF Slots
<1>4. ASSUME NEW k \in Slots PROVE \E i \in Slots : (h + i) % Capacity = k
  <2>1. CASE k >= h
    <3>1. k - h \in Slots /\ (h + (k - h)) % Capacity = k
      BY <1>1, <2>1 DEF Slots
    <3> QED BY <3>1
  <2>2. CASE k < h
    <3>1. k - h + Capacity \in Slots /\ (h + (k - h + Capacity)) % Capacity = k
      BY <1>1, <2>2 DEF Slots
    <3> QED BY <3>1
  <2> QED BY <2>1, <2>2 DEF Slots
<1> QED BY <1>2, <1>3, <1>4

\* The empty queue has every slot clear.
LEMMA EmptyRing ==
    IsRing(queue_init) /\ queue_init.count = 0
    /\ \A j \in Slots : At(queue_init, j) = Vacant
BY OutputAssumption, SlotsFromHead DEF IsRing, queue_init, At, Slots

\* A reply that joins takes the first slot behind the queue and leaves all
\* others alone (enqueue_index).
LEMMA EnqueueFacts ==
    ASSUME NEW q, IsRing(q), q.count < Capacity, NEW reply
    PROVE  LET next == queue_enqueue(q, reply) IN
           /\ IsRing(next)
           /\ next.count = q.count + 1
           /\ At(next, q.count) = reply
           /\ \A j \in Slots : j # q.count => At(next, j) = At(q, j)
<1> DEFINE next == queue_enqueue(q, reply)
<1>1. Capacity \in Nat \ {0} /\ q.count \in Slots /\ q.head \in Slots
  BY OutputAssumption DEF IsRing, Slots
<1>2. enqueue_index(q) \in Slots
  BY <1>1 DEF enqueue_index, Slots
<1>3. /\ next = [head |-> q.head, count |-> q.count + 1,
                  items |-> [q.items EXCEPT ![enqueue_index(q)] = reply]]
  <2>1. PICK h, c, items : q = [head |-> h, count |-> c, items |-> items]
    BY DEF IsRing
  <2>2. q.head = h /\ q.count = c /\ q.items = items
    BY <2>1
  <2>3. next = [q EXCEPT !.items[enqueue_index(q)] = reply, !.count = @ + 1]
    BY <1>1 DEF queue_enqueue, Slots
  <2> QED BY <2>1, <2>2, <2>3
<1> HIDE DEF next
<1>4. IsRing(next) /\ next.count = q.count + 1 /\ next.head = q.head
  <2>1. /\ next.head = q.head /\ next.count = q.count + 1
        /\ next.items = [q.items EXCEPT ![enqueue_index(q)] = reply]
        /\ next = [head |-> next.head, count |-> next.count, items |-> next.items]
    BY <1>3
  <2>2. next.items = [i \in Slots |-> next.items[i]]
    BY <1>2, <2>1 DEF IsRing
  <2>3. next.count \in 0..Capacity
    BY <1>1, <2>1 DEF Slots
  <2> QED BY <1>1, <2>1, <2>2, <2>3 DEF IsRing
<1>5. /\ next.items[enqueue_index(q)] = reply
      /\ \A k \in Slots : k # enqueue_index(q) => next.items[k] = q.items[k]
  BY <1>1, <1>2, <1>3 DEF IsRing
<1>6. At(next, q.count) = reply
  BY <1>4, <1>5 DEF At, enqueue_index
<1>7. ASSUME NEW j \in Slots, j # q.count PROVE At(next, j) = At(q, j)
  <2>1. (q.head + j) % Capacity \in Slots /\ (q.head + j) % Capacity # enqueue_index(q)
    BY <1>1, <1>7, SlotsFromHead DEF enqueue_index
  <2> QED BY <1>4, <1>5, <2>1 DEF At
<1> QED BY <1>4, <1>6, <1>7 DEF next

\* When the head leaves, the others move one place up and its slot is clear.
LEMMA PopFacts ==
    ASSUME NEW q, IsRing(q), q.count > 0
    PROVE  LET next == queue_pop(q) IN
           /\ IsRing(next)
           /\ next.count = q.count - 1
           /\ At(next, Capacity - 1) = Vacant
           /\ \A j \in 0..(Capacity - 2) : At(next, j) = At(q, j + 1)
<1> DEFINE next == queue_pop(q)
<1>1. Capacity \in Nat \ {0} /\ q.head \in Slots /\ q.count \in 1..Capacity
  BY OutputAssumption DEF IsRing, Slots
<1>2. next = [head |-> (q.head + 1) % Capacity, count |-> q.count - 1,
              items |-> [q.items EXCEPT ![q.head] = Vacant]]
  BY DEF queue_pop
<1>3. (q.head + 1) % Capacity \in Slots
  BY <1>1 DEF Slots
<1> HIDE DEF next
<1>4. IsRing(next) /\ next.count = q.count - 1 /\ next.head = (q.head + 1) % Capacity
  <2>1. /\ next.head = (q.head + 1) % Capacity /\ next.count = q.count - 1
        /\ next.items = [q.items EXCEPT ![q.head] = Vacant]
        /\ next = [head |-> next.head, count |-> next.count, items |-> next.items]
    BY <1>2
  <2>2. next.items = [i \in Slots |-> next.items[i]]
    BY <1>1, <2>1 DEF IsRing
  <2>3. next.count \in 0..Capacity
    BY <1>1, <2>1
  <2> QED BY <1>3, <2>1, <2>2, <2>3 DEF IsRing
<1>5. /\ next.items[q.head] = Vacant
      /\ \A k \in Slots : k # q.head => next.items[k] = q.items[k]
  BY <1>1, <1>2 DEF IsRing
<1>6. ASSUME NEW j \in Slots
      PROVE  (next.head + j) % Capacity = (q.head + (j + 1)) % Capacity
  <2> DEFINE h == q.head
             m == Capacity
  <2>1. (((h + 1) % m) + j) % m = (h + (j + 1)) % m
    <3> m \in Nat \ {0} /\ h \in 0..(m - 1) /\ j \in 0..(m - 1)
      BY <1>1 DEF Slots
    <3> HIDE DEF h, m
    <3> QED OBVIOUS
  <2> QED BY <1>4, <2>1
<1>7. (q.head + Capacity) % Capacity = q.head
  BY <1>1 DEF Slots
<1>8. At(next, Capacity - 1) = Vacant
  <2>1. Capacity - 1 \in Slots /\ (Capacity - 1) + 1 = Capacity
    BY <1>1 DEF Slots
  <2> QED BY <1>5, <1>6, <1>7, <2>1 DEF At
<1>9. ASSUME NEW j \in 0..(Capacity - 2) PROVE At(next, j) = At(q, j + 1)
  <2>1. j \in Slots /\ j + 1 \in Slots /\ j + 1 # 0 /\ 0 \in Slots
    BY <1>1 DEF Slots
  <2>2. (q.head + 0) % Capacity = q.head
    BY <1>1 DEF Slots
  <2>3. (q.head + (j + 1)) % Capacity \in Slots /\ (q.head + (j + 1)) % Capacity # q.head
    <3>1. \A i \in Slots : (q.head + i) % Capacity \in Slots
      BY <1>1, SlotsFromHead
    <3>2. (q.head + (j + 1)) % Capacity # (q.head + 0) % Capacity
      BY <1>1, <2>1, SlotsFromHead
    <3> QED BY <2>1, <2>2, <3>1, <3>2
  <2> QED BY <1>5, <1>6, <2>1, <2>3 DEF At
<1> QED BY <1>4, <1>8, <1>9 DEF next

-----------------------------------------------------------------------------
(* Packing. *)

\* Three bytes hold both 12 bit values of a stick.
LEMMA StickRoundTrip ==
    ASSUME NEW x \in Nat, NEW y \in Nat, NEW b, b = write_stick(x, y)
    PROVE  /\ b[1] \in Nat /\ b[2] \in Nat /\ b[3] \in Nat
           /\ b[1] + 256 * (b[2] % 16) = Smaller(x, 4095)
           /\ (b[2] \div 16) + 16 * b[3] = Smaller(y, 4095)
BY DEF write_stick, Smaller

\* Three bytes hold the low 24 bits of the buttons.
LEMMA ButtonsRoundTrip ==
    ASSUME NEW n \in Nat
    PROVE  (n % 256) + 256 * ((n \div 256) % 256) + 65536 * ((n \div 65536) % 256)
             = n % 16777216
OBVIOUS

\* The Switch decodes the buttons and sticks that were packed.
LEMMA StateRoundTrip ==
    ASSUME NEW s \in States
    PROVE  Decoded(state_bytes(s)) = Clamped(s)
<1>1. /\ s.buttons \in Nat
      /\ s.lx \in Nat /\ s.ly \in Nat /\ s.rx \in Nat /\ s.ry \in Nat
  BY FieldAssumption
<1>2. PICK b : b = state_bytes(s)
  OBVIOUS
<1>3. b[1] + 256 * b[2] + 65536 * b[3] = s.buttons % 16777216
  <2>1. PICK n \in Nat : n = s.buttons
    BY <1>1
  <2>2. b[1] = n % 256 /\ b[2] = (n \div 256) % 256 /\ b[3] = (n \div 65536) % 256
    BY <1>2, <2>1 DEF state_bytes
  <2> QED BY <2>1, <2>2, ButtonsRoundTrip
<1>4. PICK left : left = write_stick(s.lx, s.ly)
  OBVIOUS
<1>5. PICK right : right = write_stick(s.rx, s.ry)
  OBVIOUS
<1>6. /\ b[4] = left[1] /\ b[5] = left[2] /\ b[6] = left[3]
      /\ b[7] = right[1] /\ b[8] = right[2] /\ b[9] = right[3]
  BY <1>2, <1>4, <1>5 DEF state_bytes
<1>7. /\ b[4] + 256 * (b[5] % 16) = Smaller(s.lx, 4095)
      /\ (b[5] \div 16) + 16 * b[6] = Smaller(s.ly, 4095)
  <2>1. /\ left[1] \in Nat /\ left[2] \in Nat /\ left[3] \in Nat
        /\ left[1] + 256 * (left[2] % 16) = Smaller(s.lx, 4095)
        /\ (left[2] \div 16) + 16 * left[3] = Smaller(s.ly, 4095)
    BY <1>1, <1>4, StickRoundTrip, SMTT(20)
  <2> QED BY <1>6, <2>1
<1>8. /\ b[7] + 256 * (b[8] % 16) = Smaller(s.rx, 4095)
      /\ (b[8] \div 16) + 16 * b[9] = Smaller(s.ry, 4095)
  <2>1. /\ right[1] \in Nat /\ right[2] \in Nat /\ right[3] \in Nat
        /\ right[1] + 256 * (right[2] % 16) = Smaller(s.rx, 4095)
        /\ (right[2] \div 16) + 16 * right[3] = Smaller(s.ry, 4095)
    BY <1>1, <1>5, StickRoundTrip, SMTT(20)
  <2> QED BY <1>6, <2>1
<1> QED BY <1>2, <1>3, <1>7, <1>8 DEF Decoded, Clamped

\* Two's complement in 16 bits.
LEMMA Unsigned16 ==
    ASSUME NEW v \in Int, -32768 <= v, v <= 32767
    PROVE  v % 65536 \in Nat /\ v % 65536 = IF v < 0 THEN v + 65536 ELSE v
OBVIOUS

\* A number is its two bytes.
LEMMA TwoBytes ==
    ASSUME NEW raw \in Nat
    PROVE  (raw % 256) + 256 * (raw \div 256) = raw
OBVIOUS

\* A signed 16 bit value survives write_i16_le.
LEMMA Int16RoundTrip ==
    ASSUME NEW v \in Int, -32768 <= v, v <= 32767,
           NEW lo, NEW hi, write_i16_le(v) = <<lo, hi>>
    PROVE  /\ lo \in Nat /\ hi \in Nat
           /\ v = IF lo + 256 * hi >= 32768 THEN lo + 256 * hi - 65536 ELSE lo + 256 * hi
<1>1. PICK raw \in Nat : raw = v % 65536
  BY Unsigned16
<1>2. lo = raw % 256 /\ hi = raw \div 256
  BY <1>1 DEF write_i16_le
<1>3. lo + 256 * hi = raw
  BY <1>2, TwoBytes
<1>4. raw = IF v < 0 THEN v + 65536 ELSE v
  BY <1>1, Unsigned16
<1>5. v = IF raw >= 32768 THEN raw - 65536 ELSE raw
  BY <1>4
<1>6. lo \in Nat /\ hi \in Nat
  BY <1>2
<1> QED BY <1>3, <1>5, <1>6

\* Every one of the eighteen IMU values of a report is one of the sample.
LEMMA ImuRoundTrip ==
    ASSUME NEW s \in States, NEW i \in 1..18
    PROVE  DecodedImu(imu_bytes(s), i) = s.imu[((i - 1) % 6) + 1]
<1>1. PICK j \in 1..6 : j = ((i - 1) % 6) + 1
  OBVIOUS
<1>2. PICK v : v = s.imu[j]
  OBVIOUS
<1>3. v \in Int /\ -32768 <= v /\ v <= 32767
  BY <1>2, FieldAssumption
<1>4. /\ imu_bytes(s)[2 * i - 1] = write_imu_frame(s)[2 * j - 1]
      /\ imu_bytes(s)[2 * i] = write_imu_frame(s)[2 * j]
  <2>1. 2 * i - 1 \in 1..36 /\ 2 * i \in 1..36
    OBVIOUS
  <2>2. ((2 * i - 1 - 1) % 12) + 1 = 2 * j - 1 /\ ((2 * i - 1) % 12) + 1 = 2 * j
    BY <1>1
  <2> QED BY <2>1, <2>2 DEF imu_bytes
<1>5. /\ write_imu_frame(s)[2 * j - 1] = write_i16_le(v)[1]
      /\ write_imu_frame(s)[2 * j] = write_i16_le(v)[2]
  <2>1. 2 * j - 1 \in 1..12 /\ 2 * j \in 1..12
    OBVIOUS
  <2>2. /\ (2 * j - 1 + 1) \div 2 = j /\ 2 - ((2 * j - 1) % 2) = 1
        /\ (2 * j + 1) \div 2 = j /\ 2 - ((2 * j) % 2) = 2
    OBVIOUS
  <2> QED BY <1>2, <2>1, <2>2 DEF write_imu_frame
<1>6. PICK lo, hi : /\ write_i16_le(v) = <<lo, hi>>
                    /\ lo = write_i16_le(v)[1] /\ hi = write_i16_le(v)[2]
  BY DEF write_i16_le
<1>7. /\ lo \in Nat /\ hi \in Nat
      /\ v = IF lo + 256 * hi >= 32768 THEN lo + 256 * hi - 65536 ELSE lo + 256 * hi
  BY <1>3, <1>6, Int16RoundTrip
<1>8. imu_bytes(s)[2 * i - 1] = lo /\ imu_bytes(s)[2 * i] = hi
  BY <1>4, <1>5, <1>6
<1>9. DecodedImu(imu_bytes(s), i) = v
  BY <1>7, <1>8 DEF DecodedImu
<1> QED BY <1>1, <1>2, <1>9

-----------------------------------------------------------------------------
(* What an answer says. *)

\* The player lights are parts of the byte the Switch sent.
IsLights(lights) ==
    lights.raw \in Byte /\ lights.effective + lights.on_mask \in 0..15

IsApp(a) ==
    /\ a = [state |-> a.state, rumble |-> a.rumble, lights |-> a.lights]
    /\ a.state \in States /\ IsLights(a.lights)

\* The data of a flash read: the arguments back and the bytes of the storage.
IsFlashRead(r, data) ==
    LET address == read_u32_le(r.args)
        size == r.args[5]
    IN /\ address \in Nat /\ size \in Nat /\ spi_read_allowed(address, size)
       /\ data = SubSeq(r.args, 1, 5) \o spi_read(address, size)

\* The reply answers the report r from the controller state s.
Answers(bytes, r, s) ==
    /\ bytes.state = state_bytes(s)
    /\ bytes.subcommand_id = r.subcommand_id
    /\ bytes.ack = 144 => IsFlashRead(r, bytes.data)

\* What handling the report r in the state a may do.
IsHandled(h, a, r) ==
    /\ IsApp(h.app) /\ h.app.state = a.state
    /\ h.result = "OK" => Answers(h.reply[1], r, a.state)

\* Lights that are on never flash as well, whatever byte the Switch sends.
LEMMA LightsApplied ==
    ASSUME NEW raw \in Byte
    PROVE  IsLights(player_lights_apply_raw(raw))
<1>1. effective_flash_mask(raw % 16, raw \div 16) + (raw % 16) \in 0..15
  BY DEF effective_flash_mask, Bit, Byte
<1> QED BY <1>1 DEF IsLights, player_lights_apply_raw

\* An answer leaves the domain as it was given.
LEMMA AnswerFacts ==
    ASSUME NEW a, IsApp(a), NEW r, NEW ack, NEW data,
           ack = 144 => IsFlashRead(r, data)
    PROVE  IsHandled(Answer(a, r, ack, data), a, r)
BY DEF IsHandled, Answer, Answers, Refused, build_subcommand_reply

\* A refused report changes nothing and is answered with nothing.
LEMMA RefusedFacts ==
    ASSUME NEW a, IsApp(a), NEW r, NEW result, result # "OK"
    PROVE  IsHandled(Refused(a, result), a, r)
BY DEF IsHandled, Refused

\* A flash read is answered from its own arguments and within the flash.
LEMMA SpiReadFacts ==
    ASSUME NEW a, IsApp(a), NEW r \in Reports
    PROVE  IsHandled(dispatch_spi_read(a, r), a, r)
<1>1. CASE Len(r.args) < 5
  BY <1>1, RefusedFacts DEF dispatch_spi_read
<1>2. CASE ~(Len(r.args) < 5)
  <2>1. r.args \in Seq(Byte) /\ Len(r.args) \in Nat
    BY FieldAssumption
  <2>2. \A i \in 1..5 : r.args[i] \in Byte
    BY <1>2, <2>1
  <2>3. \A i \in 1..5 : r.args[i] \in Nat
    <3>1. Byte \subseteq Nat
      BY DEF Byte
    <3> QED BY <2>2, <3>1
  <2>4. read_u32_le(r.args) \in Nat /\ r.args[5] \in Nat
    BY <2>3 DEF read_u32_le
  <2>5. CASE spi_read_allowed(read_u32_le(r.args), r.args[5])
    <3> DEFINE data == SubSeq(r.args, 1, 5) \o spi_read(read_u32_le(r.args), r.args[5])
    <3>1. IsFlashRead(r, data)
      BY <2>4, <2>5 DEF IsFlashRead
    <3>2. dispatch_spi_read(a, r) = Answer(a, r, 144, data)
      BY <1>2, <2>5 DEF dispatch_spi_read
    <3> HIDE DEF data
    <3> QED BY <3>1, <3>2, AnswerFacts
  <2>6. CASE ~spi_read_allowed(read_u32_le(r.args), r.args[5])
    BY <1>2, <2>6, RefusedFacts DEF dispatch_spi_read
  <2> QED BY <2>5, <2>6
<1> QED BY <1>1, <1>2

\* The lights take the argument's byte; without an argument the report is refused.
LEMMA SetPlayerLightsFacts ==
    ASSUME NEW a, IsApp(a), NEW r \in Reports
    PROVE  IsHandled(dispatch_set_player_lights(a, r), a, r)
<1>1. CASE r.args = <<>>
  BY <1>1, RefusedFacts DEF dispatch_set_player_lights
<1>2. CASE r.args # <<>>
  <2>1. r.args[1] \in Byte
    BY <1>2, FieldAssumption
  <2>2. PICK lights : lights = player_lights_apply_raw(r.args[1])
    OBVIOUS
  <2>3. IsLights(lights)
    BY <2>1, <2>2, LightsApplied
  <2>4. PICK b : b = [a EXCEPT !.lights = lights]
    OBVIOUS
  <2>5. IsApp(b) /\ b.state = a.state
    BY <2>3, <2>4 DEF IsApp
  <2>6. dispatch_set_player_lights(a, r) = Answer(b, r, 128, <<>>)
    BY <1>2, <2>2, <2>4 DEF dispatch_set_player_lights
  <2>7. IsHandled(Answer(b, r, 128, <<>>), b, r)
    BY <2>5, AnswerFacts
  <2> QED BY <2>5, <2>6, <2>7 DEF IsHandled
<1> QED BY <1>1, <1>2

\* Every subcommand.
LEMMA DispatchFacts ==
    ASSUME NEW a, IsApp(a), NEW r \in Reports
    PROVE  IsHandled(subcommand_dispatch(a, r), a, r)
<1> DEFINE id == r.subcommand_id
<1> USE DEF DeviceInfo, TriggerButtonsElapsed, SpiFlashRead, SetMcuConfig,
            SetPlayerLights, GetPlayerLights, SimpleAcks
<1>1. CASE id = DeviceInfo
  <2>1. subcommand_dispatch(a, r) = Answer(a, r, 130, device_info_reply_data)
    BY <1>1 DEF subcommand_dispatch
  <2> QED BY <2>1, AnswerFacts
<1>2. CASE id = TriggerButtonsElapsed
  <2>1. subcommand_dispatch(a, r) = Answer(a, r, 131, trigger_buttons_elapsed_reply_data)
    BY <1>2 DEF subcommand_dispatch
  <2> QED BY <2>1, AnswerFacts
<1>3. CASE id = SetMcuConfig
  <2>1. subcommand_dispatch(a, r) = Answer(a, r, 160, mcu_config_reply_data)
    BY <1>3 DEF subcommand_dispatch
  <2> QED BY <2>1, AnswerFacts
<1>4. CASE id \in SimpleAcks
  <2>1. subcommand_dispatch(a, r) = Answer(a, r, 128, <<>>)
    BY <1>4 DEF subcommand_dispatch
  <2> QED BY <2>1, AnswerFacts
<1>5. CASE id = SpiFlashRead
  <2>1. subcommand_dispatch(a, r) = dispatch_spi_read(a, r)
    BY <1>5 DEF subcommand_dispatch
  <2> QED BY <2>1, SpiReadFacts
<1>6. CASE id = SetPlayerLights
  <2>1. subcommand_dispatch(a, r) = dispatch_set_player_lights(a, r)
    BY <1>6 DEF subcommand_dispatch
  <2> QED BY <2>1, SetPlayerLightsFacts
<1>7. CASE id = GetPlayerLights
  <2>1. subcommand_dispatch(a, r) = Answer(a, r, 176, <<a.lights.raw>>)
    BY <1>7 DEF subcommand_dispatch
  <2> QED BY <2>1, AnswerFacts
<1>8. CASE id \notin {DeviceInfo, TriggerButtonsElapsed, SetMcuConfig, SpiFlashRead,
                      SetPlayerLights, GetPlayerLights} \union SimpleAcks
  <2>1. subcommand_dispatch(a, r) = Refused(a, "UNSUPPORTED")
    BY <1>8 DEF subcommand_dispatch
  <2> QED BY <2>1, RefusedFacts
<1> QED BY <1>1, <1>2, <1>3, <1>4, <1>5, <1>6, <1>7, <1>8

\* The whole report: the rumble is recorded first, the controller state stays.
LEMMA HandleFacts ==
    ASSUME NEW a, IsApp(a), NEW r \in Reports
    PROVE  IsHandled(domain_handle_output_report(a, r), a, r)
<1>1. PICK felt : felt = [a EXCEPT !.rumble = [raw |-> r.rumble, updated |-> TRUE]]
  OBVIOUS
<1>2. IsApp(felt) /\ felt.state = a.state
  BY <1>1 DEF IsApp
<1>3. domain_handle_output_report(a, r) =
          IF parse_output_report(r).has_subcommand THEN subcommand_dispatch(felt, r)
          ELSE Refused(felt, "NO_REPLY")
  BY <1>1 DEF domain_handle_output_report
<1>4. IsHandled(domain_handle_output_report(a, r), felt, r)
  BY <1>2, <1>3, DispatchFacts, RefusedFacts
<1> QED BY <1>2, <1>4 DEF IsHandled

-----------------------------------------------------------------------------
(* The inductive invariant. The type invariant and the properties say how  *)
(* the queue looks from its head; to see that a step keeps them one has to *)
(* know of every queued reply which report and which state it came from,   *)
(* that replies are numbered in order, and that the slots behind the queue *)
(* are clear.                                                              *)

IsReply(x) ==
    /\ x # Vacant /\ x.number \in Nat
    /\ x.report \in Reports /\ x.state \in States
    /\ Answers(x.bytes, x.report, x.state)

\* A queue whose replies answer reports after the last one answered.
IsQueue(q, answered, received) ==
    /\ IsRing(q)
    /\ \A j \in Slots :
          IF j < q.count
          THEN /\ IsReply(At(q, j))
               /\ answered < At(q, j).number /\ At(q, j).number <= received
          ELSE At(q, j) = Vacant
    /\ \A i, j \in Slots :
          i < j /\ j < q.count => At(q, i).number < At(q, j).number

IInv ==
    /\ started \in BOOLEAN /\ running \in BOOLEAN /\ (running => started)
    /\ reports \in 0..MaxReports /\ sent \in 0..reports
    /\ IsApp(app)
    /\ IsQueue(queue, sent, reports)

\* A queue that was just initialized owes no answer.
LEMMA EmptyIsQueue ==
    ASSUME NEW s, NEW n PROVE IsQueue(queue_init, s, n)
<1>1. \A j \in Slots : ~(j < 0)
  BY OutputAssumption DEF Slots
<1> QED BY <1>1, EmptyRing DEF IsQueue

\* A report that puts no reply into the queue.
LEMMA QueueAges ==
    ASSUME NEW q, NEW s \in Nat, NEW n \in Nat, IsQueue(q, s, n)
    PROVE  IsQueue(q, s, n + 1)
BY DEF IsQueue, IsReply

\* The answer to the newest report joins behind all others.
LEMMA QueueGrows ==
    ASSUME NEW q, NEW s \in Nat, NEW n \in Nat, s <= n, IsQueue(q, s, n),
           NEW x, IsReply(x), x.number = n + 1
    PROVE  IsQueue(queue_enqueue(q, x), s, n + 1)
<1>1. IsRing(q) /\ q.count \in 0..Capacity /\ Capacity \in Nat \ {0}
  BY OutputAssumption DEF IsQueue, IsRing
<1>2. CASE q.count >= Capacity
  <2>1. queue_enqueue(q, x) = q
    BY <1>2 DEF queue_enqueue
  <2> QED BY <2>1, QueueAges
<1>3. CASE q.count < Capacity
  <2>1. PICK next : next = queue_enqueue(q, x)
    OBVIOUS
  <2>2. /\ IsRing(next) /\ next.count = q.count + 1 /\ At(next, q.count) = x
        /\ \A j \in Slots : j # q.count => At(next, j) = At(q, j)
    BY <1>1, <1>3, <2>1, EnqueueFacts
  <2>3. ASSUME NEW j \in Slots
        PROVE  IF j < next.count
               THEN /\ IsReply(At(next, j))
                    /\ s < At(next, j).number /\ At(next, j).number <= n + 1
               ELSE At(next, j) = Vacant
    <3>1. j \in Nat
      BY <1>1 DEF Slots
    <3>2. CASE j = q.count
      BY <1>1, <2>2, <3>1, <3>2
    <3>3. CASE j # q.count
      <4>1. (j < next.count) = (j < q.count) /\ At(next, j) = At(q, j)
        BY <1>1, <2>2, <3>1, <3>3
      <4>2. IF j < q.count
            THEN /\ IsReply(At(q, j))
                 /\ s < At(q, j).number /\ At(q, j).number <= n
            ELSE At(q, j) = Vacant
        BY DEF IsQueue
      <4> QED BY <4>1, <4>2 DEF IsReply
    <3> QED BY <3>2, <3>3
  <2>4. ASSUME NEW i \in Slots, NEW j \in Slots, i < j, j < next.count
        PROVE  At(next, i).number < At(next, j).number
    <3>1. i \in Nat /\ j \in Nat /\ i # q.count /\ i < q.count
      BY <1>1, <2>2, <2>4 DEF Slots
    <3>2. At(next, i) = At(q, i)
      BY <2>2, <3>1
    <3>3. IsReply(At(q, i)) /\ At(q, i).number <= n
      BY <3>1 DEF IsQueue
    <3>4. CASE j = q.count
      BY <2>2, <3>2, <3>3, <3>4 DEF IsReply
    <3>5. CASE j # q.count
      <4>1. At(next, j) = At(q, j) /\ j < q.count
        BY <1>1, <2>2, <2>4, <3>1, <3>5
      <4> QED BY <2>4, <3>2, <4>1 DEF IsQueue
    <3> QED BY <3>4, <3>5
  <2> QED BY <2>1, <2>2, <2>3, <2>4 DEF IsQueue
<1> QED BY <1>1, <1>2, <1>3

\* The head leaves: all that stay answer later reports.
LEMMA QueueShrinks ==
    ASSUME NEW q, NEW s \in Nat, NEW n \in Nat, IsQueue(q, s, n), q.count > 0
    PROVE  /\ At(q, 0).number \in 0..n
           /\ IsQueue(queue_pop(q), At(q, 0).number, n)
<1>1. IsRing(q) /\ q.count \in 1..Capacity /\ Capacity \in Nat \ {0} /\ 0 \in Slots
  BY OutputAssumption DEF IsQueue, IsRing, Slots
<1>2. IsReply(At(q, 0)) /\ At(q, 0).number \in 0..n
  <2>1. 0 < q.count
    BY <1>1
  <2>2. IsReply(At(q, 0)) /\ At(q, 0).number <= n
    BY <1>1, <2>1 DEF IsQueue
  <2> QED BY <2>2 DEF IsReply
<1>3. PICK next : next = queue_pop(q)
  OBVIOUS
<1>4. /\ IsRing(next) /\ next.count = q.count - 1 /\ At(next, Capacity - 1) = Vacant
      /\ \A j \in 0..(Capacity - 2) : At(next, j) = At(q, j + 1)
  BY <1>1, <1>3, PopFacts
<1>5. ASSUME NEW j \in Slots
      PROVE  IF j < next.count
             THEN /\ IsReply(At(next, j))
                  /\ At(q, 0).number < At(next, j).number /\ At(next, j).number <= n
             ELSE At(next, j) = Vacant
  <2>1. CASE j = Capacity - 1
    BY <1>1, <1>4, <2>1
  <2>2. CASE j # Capacity - 1
    <3>1. j \in 0..(Capacity - 2) /\ j + 1 \in Slots /\ 0 < j + 1
      BY <1>1, <2>2 DEF Slots
    <3>2. At(next, j) = At(q, j + 1) /\ (j < next.count) = (j + 1 < q.count)
      BY <1>1, <1>4, <3>1
    <3>3. CASE j + 1 < q.count
      <4>1. /\ IsReply(At(q, j + 1)) /\ At(q, j + 1).number <= n
            /\ At(q, 0).number < At(q, j + 1).number
        BY <1>1, <3>1, <3>3 DEF IsQueue
      <4> QED BY <3>2, <3>3, <4>1
    <3>4. CASE ~(j + 1 < q.count)
      <4>1. At(q, j + 1) = Vacant
        BY <3>1, <3>4 DEF IsQueue
      <4> QED BY <3>2, <3>4, <4>1
    <3> QED BY <3>3, <3>4
  <2> QED BY <2>1, <2>2
<1>6. ASSUME NEW i \in Slots, NEW j \in Slots, i < j, j < next.count
      PROVE  At(next, i).number < At(next, j).number
  <2>1. /\ i \in 0..(Capacity - 2) /\ j \in 0..(Capacity - 2)
        /\ i + 1 \in Slots /\ j + 1 \in Slots /\ i + 1 < j + 1 /\ j + 1 < q.count
    BY <1>1, <1>4, <1>6 DEF Slots
  <2>2. At(q, i + 1).number < At(q, j + 1).number
    BY <2>1 DEF IsQueue
  <2> QED BY <1>4, <2>1, <2>2
<1> QED BY <1>2, <1>3, <1>4, <1>5, <1>6 DEF IsQueue

-----------------------------------------------------------------------------
(* The steps. *)

\* The invariant holds initially.
LEMMA InitInv == Init => IInv
<1> SUFFICES ASSUME Init PROVE IInv
  OBVIOUS
<1>1. IsApp(app)
  <2>1. 0 \in Byte
    BY DEF Byte
  <2>2. app.lights = lights_init /\ app.state = NeutralState
        /\ app = [state |-> app.state, rumble |-> app.rumble, lights |-> app.lights]
    BY DEF Init
  <2>3. IsLights(lights_init)
    BY <2>1 DEF IsLights, lights_init
  <2> QED BY <2>2, <2>3, OutputAssumption DEF IsApp
<1>2. IsQueue(queue, sent, reports)
  BY EmptyIsQueue DEF Init
<1>3. /\ started = FALSE /\ running = FALSE /\ reports = 0 /\ sent = 0
      /\ 0 \in 0..MaxReports /\ 0 \in 0..0
  BY OutputAssumption DEF Init
<1> QED BY <1>1, <1>2, <1>3 DEF IInv

\* A callback: handling keeps the controller state, and the reply, when there
\* is one and the adapter runs, is the newest.
LEMMA OutputReportInv ==
    ASSUME IInv, NEW r \in Reports, output_report(r)
    PROVE  IInv'
<1>1. /\ reports \in Nat /\ sent \in Nat /\ sent <= reports /\ reports' = reports + 1
      /\ reports' \in 0..MaxReports /\ sent' = sent /\ sent' \in 0..reports'
      /\ started' \in BOOLEAN /\ running' \in BOOLEAN /\ (running' => started')
  BY OutputAssumption DEF IInv, output_report
<1>2. CASE ~(started /\ parse_output_report(r).ok)
  <2>1. app' = app /\ queue' = queue
    BY <1>2 DEF output_report
  <2>2. IsQueue(queue, sent, reports + 1)
    BY <1>1, QueueAges DEF IInv
  <2> QED BY <1>1, <2>1, <2>2 DEF IInv
<1>3. CASE started /\ parse_output_report(r).ok
  <2>1. PICK handled : handled = domain_handle_output_report(app, r)
    OBVIOUS
  <2>2. IsHandled(handled, app, r)
    BY <2>1, HandleFacts DEF IInv
  <2>3. app' = handled.app
    BY <1>3, <2>1 DEF output_report
  <2>4. IsApp(app')
    BY <2>2, <2>3 DEF IsHandled
  <2>5. CASE handled.result = "OK" /\ running
    <3>1. PICK x : x = [bytes |-> handled.reply[1], report |-> r,
                        number |-> reports', state |-> app.state]
      OBVIOUS
    <3>2. queue' = queue_enqueue(queue, x)
      BY <1>3, <2>1, <2>5, <3>1 DEF output_report
    <3>3. Answers(x.bytes, x.report, x.state)
      BY <2>2, <2>5, <3>1 DEF IsHandled
    <3>4. IsReply(x) /\ x.number = reports + 1
      BY <1>1, <3>1, <3>3 DEF IsReply, IInv, IsApp, Vacant
    <3>5. IsQueue(queue', sent, reports + 1)
      BY <1>1, <3>2, <3>4, QueueGrows DEF IInv
    <3> QED BY <1>1, <2>4, <3>5 DEF IInv
  <2>6. CASE ~(handled.result = "OK" /\ running)
    <3>1. queue' = queue
      BY <1>3, <2>1, <2>6 DEF output_report
    <3>2. IsQueue(queue, sent, reports + 1)
      BY <1>1, QueueAges DEF IInv
    <3> QED BY <1>1, <2>4, <3>1, <3>2 DEF IInv
  <2> QED BY <2>5, <2>6
<1> QED BY <1>2, <1>3

\* Every step preserves the invariant.
LEMMA NextInv == IInv /\ [Next]_vars => IInv'
<1> SUFFICES ASSUME IInv, [Next]_vars PROVE IInv'
  OBVIOUS
<1>1. CASE host_start
  BY <1>1 DEF IInv, host_start
<1>2. CASE host_stop
  <2>1. IsQueue(queue', sent', reports')
    BY <1>2, EmptyIsQueue DEF host_stop
  <2>2. IsApp(app')
    BY <1>2, OutputAssumption DEF host_stop, IInv, IsApp
  <2> QED BY <1>2, <2>1, <2>2 DEF IInv, host_stop
<1>3. CASE connection_opened
  BY <1>3 DEF IInv, connection_opened
<1>4. CASE connection_closed
  <2>1. IsQueue(queue', sent', reports')
    BY <1>4, EmptyIsQueue DEF connection_closed
  <2> QED BY <1>4, <2>1 DEF IInv, connection_closed
<1>5. ASSUME NEW state \in States, state_changes(state) PROVE IInv'
  <2>1. IsApp(app')
    BY <1>5 DEF state_changes, IInv, IsApp
  <2> QED BY <1>5, <2>1 DEF IInv, state_changes
<1>6. ASSUME NEW r \in Reports, output_report(r) PROVE IInv'
  BY <1>6, OutputReportInv
<1>7. CASE send_next
  <2>1. reports \in Nat /\ sent \in Nat /\ IsQueue(queue, sent, reports) /\ queue.count > 0
    BY <1>7, OutputAssumption DEF IInv, send_next
  <2>2. sent' = At(queue, 0).number
    <3>1. queue.head \in Slots /\ (queue.head + 0) % Capacity = queue.head
      <4>1. queue.head \in Slots
        BY <2>1 DEF IsQueue, IsRing
      <4> QED BY <4>1, OutputAssumption DEF Slots
    <3> QED BY <1>7, <3>1 DEF send_next, At
  <2>3. sent' \in 0..reports /\ IsQueue(queue', sent', reports)
    BY <1>7, <2>1, <2>2, QueueShrinks DEF send_next
  <2> QED BY <1>7, <2>3 DEF IInv, send_next
<1>8. CASE UNCHANGED vars
  BY <1>8 DEF vars, IInv
<1> QED BY <1>1, <1>2, <1>3, <1>4, <1>5, <1>6, <1>7, <1>8 DEF Next

\* The queue is a ring of replies to reports, oldest first, in every state.
THEOREM OutputInvariance == Spec => []IInv
BY InitInv, NextInv, PTL DEF Spec

\* Types: the slots outside the queue are cleared, for every capacity, and
\* lights that are on do not flash (clear_item, apply_raw).
THEOREM OutputTypeCorrect == Spec => []TypeOK
<1>1. IInv => TypeOK
  <2> SUFFICES ASSUME IInv PROVE TypeOK
    OBVIOUS
  <2>1. /\ IsRing(queue) /\ queue.head \in Slots /\ queue.count \in 0..Capacity
        /\ Capacity \in Nat \ {0}
    BY OutputAssumption DEF IInv, IsQueue, IsRing
  <2>2. {i \in Slots : queue.items[i] # Vacant}
          = {(queue.head + i) % Capacity : i \in 0..(queue.count - 1)}
    <3>1. ASSUME NEW k \in Slots, queue.items[k] # Vacant
          PROVE  \E i \in 0..(queue.count - 1) : k = (queue.head + i) % Capacity
      <4>1. PICK i \in Slots : (queue.head + i) % Capacity = k
        BY <2>1, SlotsFromHead
      <4>2. At(queue, i) # Vacant
        BY <3>1, <4>1 DEF At
      <4>3. i < queue.count
        BY <4>2 DEF IInv, IsQueue
      <4>4. i \in 0..(queue.count - 1)
        BY <2>1, <4>3 DEF Slots
      <4> QED BY <4>1, <4>4
    <3>2. ASSUME NEW i \in 0..(queue.count - 1)
          PROVE  /\ (queue.head + i) % Capacity \in Slots
                 /\ queue.items[(queue.head + i) % Capacity] # Vacant
      <4>1. i \in Slots /\ i < queue.count
        BY <2>1 DEF Slots
      <4>2. At(queue, i) # Vacant
        BY <4>1 DEF IInv, IsQueue, IsReply
      <4>3. (queue.head + i) % Capacity \in Slots
        BY <2>1, <4>1, SlotsFromHead
      <4> QED BY <4>2, <4>3 DEF At
    <3> QED BY <3>1, <3>2
  <2>3. /\ app.state \in States /\ app.lights.raw \in Byte
        /\ app.lights.effective + app.lights.on_mask \in 0..15
    BY DEF IInv, IsApp, IsLights
  <2> QED BY <2>1, <2>2, <2>3 DEF IInv, TypeOK, Slots
<1> QED BY <1>1, OutputInvariance, PTL

\* The place of a reply in the queue.
LEMMA QueuedAt ==
    ASSUME IInv, NEW i \in 1..queue.count
    PROVE  /\ Queued[i] = At(queue, i - 1) /\ i - 1 \in Slots /\ i - 1 < queue.count
           /\ IsReply(Queued[i])
<1>1. /\ queue.head \in Slots /\ queue.count \in 0..Capacity /\ Capacity \in Nat \ {0}
  BY OutputAssumption DEF IInv, IsQueue, IsRing
<1>2. queue.head + i - 1 = queue.head + (i - 1)
  BY <1>1 DEF Slots
<1>3. Queued[i] = At(queue, i - 1)
  BY <1>2 DEF Queued, At
<1>4. i - 1 \in Slots /\ i - 1 < queue.count
  BY <1>1 DEF Slots
<1>5. IsReply(At(queue, i - 1))
  BY <1>4 DEF IInv, IsQueue
<1> QED BY <1>3, <1>4, <1>5

\* The Switch decodes from every report the state it was built from, for any
\* buttons, sticks and IMU values, and from every waiting reply the state of
\* the moment its subcommand was handled.
THEOREM PackingLosesNothing == Spec => []ReportsCarryTheState
<1>1. IInv => ReportsCarryTheState
  <2> SUFFICES ASSUME IInv PROVE ReportsCarryTheState
    OBVIOUS
  <2>1. app.state \in States
    BY DEF IInv, IsApp
  <2>2. Decoded(build_standard_full_report(app.state).state) = Clamped(app.state)
    BY <2>1, StateRoundTrip DEF build_standard_full_report
  <2>3. ASSUME NEW i \in 1..18
        PROVE  DecodedImu(build_standard_full_report(app.state).imu, i)
                 = app.state.imu[((i - 1) % 6) + 1]
    <3>1. build_standard_full_report(app.state).imu = imu_bytes(app.state)
      BY DEF build_standard_full_report
    <3> QED BY <2>1, <3>1, ImuRoundTrip
  <2>4. ASSUME NEW i \in 1..queue.count
        PROVE  Decoded(Queued[i].bytes.state) = Clamped(Queued[i].state)
    <3>1. Queued[i].state \in States /\ Queued[i].bytes.state = state_bytes(Queued[i].state)
      BY QueuedAt DEF IsReply, Answers
    <3> QED BY <3>1, StateRoundTrip
  <2> QED BY <2>2, <2>3, <2>4 DEF ReportsCarryTheState
<1> QED BY <1>1, OutputInvariance, PTL

\* What a permitted flash read returns, given that the storage holds the seed
\* (a closed fact that TLC evaluates, address by address).
LEMMA FlashReadFromSeed ==
    ASSUME SpiIsSeeded, NEW address \in Nat, NEW size \in Nat,
           spi_read_allowed(address, size)
    PROVE  /\ address + size <= AddressLimit
           /\ spi_read(address, size) = [k \in 1..size |-> SeedByte(address + k - 1)]
<1>1. AddressLimit \in Nat
  BY DEF AddressLimit
<1>2. address <= AddressLimit - size
  BY DEF spi_read_allowed
<1>3. address + size <= AddressLimit
  BY <1>1, <1>2
<1>4. ASSUME NEW k \in 1..size PROVE spi_byte(address + k - 1) = SeedByte(address + k - 1)
  <2>1. address + k - 1 \in 0..(AddressLimit - 1)
    BY <1>1, <1>3
  <2> QED BY <2>1 DEF SpiIsSeeded
<1> QED BY <1>3, <1>4 DEF spi_read

\* Replies answer reports in their order, after all that were sent, with the
\* report's own subcommand, and a flash read returns the seed's bytes at the
\* address asked for and never reaches beyond the flash. The hypothesis is a
\* fact about the seed table alone, evaluated by TLC (MCOutputReports).
THEOREM RepliesAnswerInOrder ==
    ASSUME SpiIsSeeded PROVE Spec => []RepliesFollowReports
<1>1. IInv => RepliesFollowReports
  <2> SUFFICES ASSUME IInv, NEW i \in 1..queue.count
               PROVE  LET q == Queued[i] IN
                      /\ q.number > (IF i = 1 THEN sent ELSE Queued[i - 1].number)
                      /\ q.bytes.subcommand_id = q.report.subcommand_id
                      /\ q.bytes.ack = 144 =>
                           LET address == read_u32_le(q.report.args) IN
                           /\ address + q.report.args[5] <= AddressLimit
                           /\ q.bytes.data = SubSeq(q.report.args, 1, 5) \o
                                 [k \in 1..q.report.args[5] |-> SeedByte(address + k - 1)]
    BY DEF RepliesFollowReports
  <2>1. PICK q : q = Queued[i]
    OBVIOUS
  <2>2. /\ q = At(queue, i - 1) /\ i - 1 \in Slots /\ i - 1 < queue.count
        /\ q.number \in Nat /\ Answers(q.bytes, q.report, q.state)
    BY <2>1, QueuedAt DEF IsReply
  <2>3. q.number > (IF i = 1 THEN sent ELSE Queued[i - 1].number)
    <3>1. CASE i = 1
      <4>1. sent < q.number
        BY <2>2 DEF IInv, IsQueue
      <4>2. sent \in Nat
        BY OutputAssumption DEF IInv
      <4> QED BY <2>2, <3>1, <4>1, <4>2
    <3>2. CASE i # 1
      <4>1. queue.count \in 0..Capacity /\ Capacity \in Nat \ {0}
        BY OutputAssumption DEF IInv, IsQueue, IsRing
      <4>2. i - 1 \in 1..queue.count /\ (i - 1) - 1 < i - 1
        BY <3>2, <4>1
      <4>3. /\ Queued[i - 1] = At(queue, (i - 1) - 1) /\ (i - 1) - 1 \in Slots
            /\ Queued[i - 1].number \in Nat
        BY <4>2, QueuedAt DEF IsReply
      <4>4. At(queue, (i - 1) - 1).number < At(queue, i - 1).number
        BY <2>2, <4>2, <4>3 DEF IInv, IsQueue
      <4> QED BY <2>2, <3>2, <4>3, <4>4
    <3> QED BY <3>1, <3>2
  <2>4. q.bytes.subcommand_id = q.report.subcommand_id
    BY <2>2 DEF Answers
  <2>5. ASSUME q.bytes.ack = 144
        PROVE  /\ read_u32_le(q.report.args) + q.report.args[5] <= AddressLimit
               /\ q.bytes.data = SubSeq(q.report.args, 1, 5) \o
                     [k \in 1..q.report.args[5] |->
                        SeedByte(read_u32_le(q.report.args) + k - 1)]
    <3>1. PICK address, size :
             address = read_u32_le(q.report.args) /\ size = q.report.args[5]
      OBVIOUS
    <3>2. /\ address \in Nat /\ size \in Nat /\ spi_read_allowed(address, size)
          /\ q.bytes.data = SubSeq(q.report.args, 1, 5) \o spi_read(address, size)
      BY <2>2, <2>5, <3>1 DEF Answers, IsFlashRead
    <3>3. /\ address + size <= AddressLimit
          /\ spi_read(address, size) = [k \in 1..size |-> SeedByte(address + k - 1)]
      BY <3>2, FlashReadFromSeed
    <3> QED BY <3>1, <3>2, <3>3
  <2> QED BY <2>1, <2>3, <2>4, <2>5
<1> QED BY <1>1, OutputInvariance, PTL

-----------------------------------------------------------------------------
(* The ring buffer implements the queue of ReplyFifo. *)

\* The replies of a queue in order.
Contents(q) == [i \in 1..q.count |-> At(q, i - 1)]

\* The expression of the refinement mapping is the content of the ring.
LEMMA QueuedIsContents ==
    ASSUME NEW q, IsRing(q)
    PROVE  [i \in 1..q.count |-> q.items[(q.head + i - 1) % Capacity]] = Contents(q)
<1>1. q.head \in Int
  BY OutputAssumption DEF IsRing, Slots
<1>2. ASSUME NEW i \in 1..q.count PROVE q.head + i - 1 = q.head + (i - 1)
  BY <1>1
<1> QED BY <1>2 DEF Contents, At

\* The content of the ring is a sequence of count replies.
LEMMA ContentsFacts ==
    ASSUME NEW q, IsRing(q)
    PROVE  /\ Contents(q) \in Seq({At(q, j) : j \in Slots})
           /\ Len(Contents(q)) = q.count
<1>1. q.count \in 0..Capacity /\ Capacity \in Nat \ {0}
  BY OutputAssumption DEF IsRing
<1>2. \A i \in 1..q.count : i - 1 \in Slots
  BY <1>1 DEF Slots
<1>3. Contents(q) \in [1..q.count -> {At(q, j) : j \in Slots}]
  BY <1>2 DEF Contents
<1> QED BY <1>1, <1>3 DEF Contents

\* A reply joins the contents at the end, or is dropped by a full queue.
LEMMA EnqueueJoins ==
    ASSUME NEW q, IsRing(q), NEW x
    PROVE  LET next == Contents(queue_enqueue(q, x)) IN
           \/ next = Contents(q)
           \/ /\ Len(Contents(q)) < Capacity
              /\ Len(next) = Len(Contents(q)) + 1
              /\ SubSeq(next, 1, Len(Contents(q))) = Contents(q)
<1>1. q.count \in 0..Capacity /\ Capacity \in Nat \ {0}
  BY OutputAssumption DEF IsRing
<1>2. CASE q.count >= Capacity
  BY <1>2 DEF queue_enqueue
<1>3. CASE q.count < Capacity
  <2>1. PICK p : p = queue_enqueue(q, x)
    OBVIOUS
  <2>2. /\ IsRing(p) /\ p.count = q.count + 1
        /\ \A j \in Slots : j # q.count => At(p, j) = At(q, j)
    BY <1>1, <1>3, <2>1, EnqueueFacts
  <2>3. Len(Contents(q)) = q.count /\ Len(Contents(p)) = q.count + 1
    BY <2>2, ContentsFacts
  <2>4. ASSUME NEW i \in 1..q.count PROVE Contents(p)[i] = Contents(q)[i]
    <3>1. i - 1 \in Slots /\ i - 1 # q.count /\ i \in 1..p.count
      BY <1>1, <2>2 DEF Slots
    <3> QED BY <2>2, <3>1 DEF Contents
  <2>5. SubSeq(Contents(p), 1, q.count) = Contents(q)
    <3>1. SubSeq(Contents(p), 1, q.count) = [i \in 1..q.count |-> Contents(p)[i]]
      BY <1>1, <2>2, <2>3, ContentsFacts, SubSeqProperties
    <3>2. Contents(q) = [i \in 1..q.count |-> Contents(q)[i]]
      BY DEF Contents
    <3> QED BY <2>4, <3>1, <3>2
  <2> QED BY <1>1, <1>3, <2>1, <2>3, <2>5
<1> QED BY <1>1, <1>2, <1>3

\* The head leaves the contents.
LEMMA PopLeaves ==
    ASSUME NEW q, IsRing(q), q.count > 0
    PROVE  Contents(q) # <<>> /\ Contents(queue_pop(q)) = Tail(Contents(q))
<1>1. q.count \in 1..Capacity /\ Capacity \in Nat \ {0}
  BY OutputAssumption DEF IsRing
<1>2. PICK p : p = queue_pop(q)
  OBVIOUS
<1>3. /\ IsRing(p) /\ p.count = q.count - 1
      /\ \A j \in 0..(Capacity - 2) : At(p, j) = At(q, j + 1)
  BY <1>1, <1>2, PopFacts
<1>4. /\ Contents(q) \in Seq({At(q, j) : j \in Slots}) /\ Len(Contents(q)) = q.count
  BY ContentsFacts
<1>5. Contents(q) # <<>>
  BY <1>1, <1>4
<1>6. Tail(Contents(q)) = [i \in 1..(q.count - 1) |-> Contents(q)[i + 1]]
  <2>1. PICK c, S : c = Contents(q) /\ S = {At(q, j) : j \in Slots}
    OBVIOUS
  <2>2. c \in Seq(S) /\ c # <<>> /\ Len(c) = q.count
    BY <1>4, <1>5, <2>1
  <2>3. /\ Tail(c) \in Seq(S) /\ Len(Tail(c)) = q.count - 1
        /\ \A i \in 1..(q.count - 1) : Tail(c)[i] = c[i + 1]
    BY <2>2, HeadTailProperties
  <2>4. Tail(c) = [i \in 1..(q.count - 1) |-> c[i + 1]]
    <3>1. PICK t : t = Tail(c)
      OBVIOUS
    <3>2. t = [i \in 1..Len(t) |-> t[i]]
      <4>1. t \in Seq(S)
        BY <2>3, <3>1
      <4>2. t \in [1..Len(t) -> S]
        BY <4>1, LenProperties
      <4> QED BY <4>2, Zenon
    <3> QED BY <2>3, <3>1, <3>2
  <2> QED BY <2>1, <2>4
<1>7. ASSUME NEW i \in 1..(q.count - 1) PROVE At(p, i - 1) = Contents(q)[i + 1]
  <2>1. i - 1 \in 0..(Capacity - 2) /\ i + 1 \in 1..q.count /\ (i - 1) + 1 = (i + 1) - 1
    BY <1>1
  <2> QED BY <1>3, <2>1 DEF Contents
<1> QED BY <1>2, <1>3, <1>5, <1>6, <1>7 DEF Contents

\* The ring buffer with its wrapping head, its dropped replies and its
\* clearing is a bounded queue, for every capacity: no reply overtakes
\* another, is sent twice or altered (enqueue_index, send_next).
THEOREM RingIsFifo == Spec => ImplementsReplyFifo
<1>1. Init => Fifo!Init
  <2> SUFFICES ASSUME Init PROVE Queued = <<>>
    BY DEF Fifo!Init
  <2>1. queue.count = 0
    BY DEF Init, queue_init
  <2> QED BY <2>1 DEF Queued
<1>2. IInv /\ IInv' /\ [Next]_vars => [Fifo!Next]_Queued
  <2> SUFFICES ASSUME IInv, IInv', [Next]_vars PROVE [Fifo!Next]_Queued
    OBVIOUS
  <2>1. PICK before, after : before = Queued /\ after = Queued'
    OBVIOUS
  <2>2. before = Contents(queue) /\ after = Contents(queue') /\ IsRing(queue)
    <3>1. IsRing(queue) /\ IsRing(queue')
      BY DEF IInv, IsQueue, IsRing
    <3> QED BY <2>1, <3>1, QueuedIsContents DEF Queued
  <2>3. SUFFICES \/ after = before \/ after = <<>>
                 \/ /\ Len(before) < Capacity /\ Len(after) = Len(before) + 1
                    /\ SubSeq(after, 1, Len(before)) = before
                 \/ before # <<>> /\ after = Tail(before)
    BY <2>1 DEF Fifo!Next, Fifo!Join, Fifo!Leave, Fifo!Clear
  <2>4. CASE queue' = queue
    BY <2>2, <2>4
  <2>5. CASE queue' = queue_init
    <3>1. queue_init.count = 0
      BY DEF queue_init
    <3> QED BY <2>2, <2>5, <3>1 DEF Contents
  <2>6. ASSUME NEW x, queue' = queue_enqueue(queue, x)
        PROVE  \/ after = before
               \/ /\ Len(before) < Capacity /\ Len(after) = Len(before) + 1
                  /\ SubSeq(after, 1, Len(before)) = before
    BY <2>2, <2>6, EnqueueJoins
  <2>7. CASE queue.count > 0 /\ queue' = queue_pop(queue)
    BY <2>2, <2>7, PopLeaves
  <2>8. \/ queue' = queue \/ queue' = queue_init
        \/ \E x : queue' = queue_enqueue(queue, x)
        \/ queue.count > 0 /\ queue' = queue_pop(queue)
    BY DEF Next, vars, host_start, host_stop, connection_opened, connection_closed,
           state_changes, output_report, send_next
  <2> QED BY <2>4, <2>5, <2>6, <2>7, <2>8
<1> QED BY <1>1, <1>2, OutputInvariance, PTL DEF Spec, ImplementsReplyFifo, Fifo!Spec
=============================================================================
