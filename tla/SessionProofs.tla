---------------------------- MODULE SessionProofs ----------------------------
(***************************************************************************)
(* Proofs about Session: what a line may do to the controller, and what    *)
(* the exit code of a debug client is worth.                               *)
(***************************************************************************)
EXTENDS Session, DomainProofs, WellFoundedInduction

-----------------------------------------------------------------------------
(* The search for a key.                                                   *)

\* A nonempty set of naturals has a least element.
LEMMA LeastNatural ==
    ASSUME NEW T, T \subseteq Nat, T # {}
    PROVE  \E n \in T : \A m \in T : n <= m
<1>1. PICK R : R = OpToRel(<, Nat)
  OBVIOUS
<1>2. IsWellFoundedOn(R, Nat)
  BY <1>1, NatLessThanWellFounded
<1>3. PICK n \in T : \A m \in T : ~(<<m, n>> \in R)
  BY <1>2, WFMin
<1>4. R = {ss \in Nat \X Nat : ss[1] < ss[2]}
  BY <1>1 DEF OpToRel
<1>5. \A m \in T : n <= m
  <2> SUFFICES ASSUME NEW m \in T, m < n PROVE FALSE
    OBVIOUS
  <2>1. PICK p : p = <<m, n>>
    OBVIOUS
  <2>2. p \in Nat \X Nat /\ p[1] = m /\ p[2] = n
    BY <2>1
  <2>3. p \in R
    BY <2>2, <1>4
  <2> QED BY <1>3, <2>1, <2>3
<1> QED BY <1>5

\* The search finds at most one value.
LEMMA FindUnique ==
    ASSUME NEW fields, DOMAIN fields \subseteq Nat \ {0}, NEW key,
           NEW u \in find_key_value(fields, key), NEW v \in find_key_value(fields, key)
    PROVE  u = v
<1>1. PICK i \in DOMAIN fields :
         /\ u = fields[i].value /\ fields[i].key = key
         /\ \A k \in 1 .. i - 1 : fields[k].key # key
  BY DEF find_key_value
<1>2. PICK j \in DOMAIN fields :
         /\ v = fields[j].value /\ fields[j].key = key
         /\ \A k \in 1 .. j - 1 : fields[k].key # key
  BY DEF find_key_value
<1>3. i \in Nat \ {0} /\ j \in Nat \ {0}
  OBVIOUS
<1>4. ~(i < j) /\ ~(j < i)
  BY <1>1, <1>2, <1>3
<1>5. i = j
  BY <1>3, <1>4
<1> QED BY <1>1, <1>2, <1>5

\* What the search finds is said by the line.
LEMMA FindIsSaid ==
    ASSUME NEW line, NEW key PROVE find_key_value(line.fields, key) \subseteq Says(line, key)
BY DEF find_key_value, Says

\* Without escapes the search finds a key that is there.
LEMMA FindFirst ==
    ASSUME NEW line, IsLine(line), ~HasEscapes(line), NEW key, Says(line, key) # {}
    PROVE  find_key_value(line.fields, key) # {}
<1>1. PICK fields : fields = line.fields
  OBVIOUS
<1>2. /\ DOMAIN fields \subseteq Nat \ {0}
      /\ \A i \in DOMAIN fields : ~IsEscaped(fields[i].value)
  BY <1>1 DEF IsLine, HasEscapes
<1>3. PICK T : T = {j \in DOMAIN fields : fields[j].key = key}
  OBVIOUS
<1>4. T # {} /\ T \subseteq Nat
  BY <1>1, <1>2, <1>3 DEF Says
<1>5. PICK n \in T : \A m \in T : n <= m
  BY <1>4, LeastNatural
<1>6. \A k \in 1 .. n - 1 : fields[k].key # key /\ ~IsEscaped(fields[k].value)
  <2> SUFFICES ASSUME NEW k \in 1 .. n - 1
               PROVE  fields[k].key # key /\ ~IsEscaped(fields[k].value)
    OBVIOUS
  <2>1. n \in 1 .. Len(fields) /\ Len(fields) \in Nat
    BY <1>1, <1>3 DEF IsLine
  <2>2. k \in DOMAIN fields /\ ~(n <= k)
    BY <1>1, <2>1 DEF IsLine
  <2> QED BY <1>2, <1>3, <1>5, <2>2
<1>7. fields[n].value \in find_key_value(fields, key)
  BY <1>3, <1>6 DEF find_key_value
<1> QED BY <1>1, <1>7

-----------------------------------------------------------------------------
(* What a line that is executed may do.                                    *)

\* The three promises of LineDoesWhatItSays about one line.
DoesWhatItSays(before, after, id, line) ==
    LET types == {v.text : v \in {u \in Says(line, "type") : u.kind = "string"}}
        mine == format_owner_id(id) \in Says(line, "owner_id")
    IN  /\ after.lease.has_owner /\ ~before.lease.has_owner => "acquire" \in types
        /\ ~after.lease.has_owner /\ before.lease.has_owner => "release" \in types /\ mine
        /\ (after.accepted # before.accepted) =>
             /\ "set_state" \in types /\ mine
             /\ \E v \in Says(line, "state") : StateOf(v) = after.state
             /\ IF Says(line, "seq") = {} THEN after.lease.last_sequence = 0
                ELSE Number(after.lease.last_sequence) \in Says(line, "seq")

\* A line that decodes has one of the five types, as a plain or a hex string.
LEMMA DecodedType ==
    ASSUME NEW line, IsLine(line), decode_error(line) = "none",
           NEW command, command = decode_command(line)
    PROVE  /\ command.type \in Commands
           /\ \E v \in Says(line, "type") : v.kind = "string" /\ v.text = command.type
<1>1. PICK found : found = find_key_value(line.fields, "type")
  OBVIOUS
<1>2. read_string(found) # "invalid" /\ read_string(found) # "absent"
      /\ TextOf(found) \in Commands
  BY <1>1 DEF decode_error
<1>3. command.type = TextOf(found)
  BY <1>1 DEF decode_command, init_command
<1>4. PICK v \in found : v.kind = "string"
  BY <1>2 DEF read_string
<1>5. \A u \in found : u = v
  BY <1>1, <1>4, FindUnique DEF IsLine
<1>6. TextOf(found) = v.text
  BY <1>4, <1>5 DEF TextOf
<1>7. v \in Says(line, "type")
  BY <1>1, <1>4, FindIsSaid
<1> QED BY <1>2, <1>3, <1>4, <1>6, <1>7

\* A command that names its sender says so in its owner_id.
LEMMA DecodedOwner ==
    ASSUME NEW line, IsLine(line), NEW id,
           NEW command, command = decode_command(line),
           command_owner_matches_client(command, id)
    PROVE  format_owner_id(id) \in Says(line, "owner_id")
<1>1. PICK type, owners :
         /\ type = TextOf(find_key_value(line.fields, "type"))
         /\ owners = {v \in find_key_value(line.fields, "owner_id") :
                        /\ type \in {"release", "set_state"}
                        /\ v.kind = "string" /\ v.form = "hex"}
  OBVIOUS
<1>2. /\ command.has_owner_id = (owners # {})
      /\ command.owner_client_id = IF owners = {} THEN 0 ELSE (CHOOSE v \in owners : TRUE).id
  BY <1>1 DEF decode_command, init_command
<1>3. owners # {} /\ (CHOOSE v \in owners : TRUE).id = id
  BY <1>2 DEF command_owner_matches_client
<1>4. PICK v \in owners : v.id = id
  BY <1>3
<1>5. v \in Says(line, "owner_id") /\ v.kind = "string" /\ v.form = "hex"
  BY <1>1, <1>4, FindIsSaid
<1>6. IsLexeme(v)
  BY <1>5 DEF Says, IsLine
<1> QED BY <1>4, <1>5, <1>6 DEF IsLexeme

\* The state and the sequence number of a set_state are the line's.
LEMMA DecodedState ==
    ASSUME NEW line, IsLine(line), decode_error(line) = "none",
           NEW command, command = decode_command(line), command.type = "set_state"
    PROVE  /\ \E v \in Says(line, "state") : StateOf(v) = command.state
           /\ command.sequence \in Nat
           /\ find_key_value(line.fields, "seq") = {} => command.sequence = 0
           /\ find_key_value(line.fields, "seq") # {} =>
                Number(command.sequence) \in Says(line, "seq")
<1>1. PICK type, states, found :
         /\ type = TextOf(find_key_value(line.fields, "type"))
         /\ states = find_key_value(line.fields, "state")
         /\ found = find_key_value(line.fields, "seq")
  OBVIOUS
<1>2. type = "set_state"
  BY <1>1 DEF decode_command, init_command
<1>3. state_is_valid(line)
  BY <1>1, <1>2 DEF decode_error
<1>4. PICK sequences :
         sequences = {v \in find_key_value(line.fields, "seq") : type = "set_state"}
  OBVIOUS
<1>5. command.state = StateOf(CHOOSE v \in states : TRUE)
  BY <1>1, <1>2 DEF decode_command, init_command
<1>6. command.sequence = IF sequences = {} THEN 0 ELSE (CHOOSE v \in sequences : TRUE).n
  BY <1>1, <1>4 DEF decode_command, init_command
<1>7. sequences = found
  BY <1>1, <1>2, <1>4
<1>8. command.sequence = IF found = {} THEN 0 ELSE (CHOOSE v \in found : TRUE).n
  BY <1>6, <1>7
<1>9. \E v \in Says(line, "state") : StateOf(v) = command.state
  <2>1. PICK v : v \in states /\ v = (CHOOSE u \in states : TRUE)
    BY <1>1, <1>3 DEF state_is_valid
  <2> QED BY <1>1, <1>5, <2>1, FindIsSaid
<1>10. CASE found = {}
  <2>1. command.sequence = 0
    BY <1>10, <1>8
  <2> QED BY <1>1, <1>9, <1>10, <2>1
<1>11. CASE found # {}
  <2>1. PICK v : v \in found /\ v = (CHOOSE u \in found : TRUE)
    BY <1>11
  <2>2. v.kind = "number" /\ v.n \in -(I64Max + 1) .. I64Max /\ v.n >= 0
    BY <1>1, <1>3, <2>1 DEF state_is_valid, read_i64
  <2>3. command.sequence = v.n
    BY <1>11, <1>8, <2>1
  <2>4. v.n \in Nat
    BY <2>2, IpcJsonAssumption
  <2>5. v \in Says(line, "seq")
    BY <1>1, <2>1, FindIsSaid
  <2>6. v = Number(v.n)
    BY <2>2, <2>5 DEF Says, IsLine, IsLexeme
  <2> QED BY <1>1, <1>9, <1>11, <2>3, <2>4, <2>5, <2>6
<1> QED BY <1>10, <1>11

\* The domain after a line.
LEMMA HandledApp ==
    ASSUME NEW a, NEW id, NEW line, NEW command, command = decode_command(line),
           NEW handled, handled = handle_line(a, id, line)
    PROVE  /\ decode_error(line) = "none" =>
                /\ handled.app = execute_command(a, id, command).app
                /\ handled.sent = encode_response(execute_command(a, id, command).response)
           /\ decode_error(line) # "none" =>
                /\ handled.app = a
                /\ handled.sent = encode_response(
                                    set_error(parse_request_id(line), decode_error(line)))
<1>1. PICK error : error = decode_error(line)
  OBVIOUS
<1>2. PICK e : e = IF error = "none" THEN execute_command(a, id, command)
                   ELSE [app |-> a, response |-> set_error(parse_request_id(line), error)]
  OBVIOUS
<1>3. PICK executed :
         executed = IF error = "none"
                    THEN {execute_command(a, id, c) : c \in {decode_command(line)}}
                    ELSE {[app |-> a, response |-> set_error(parse_request_id(line), error)]}
  OBVIOUS
<1>4. executed = {e}
  BY <1>2, <1>3
<1>5. PICK T : T = {[app |-> f.app, sent |-> encode_response(f.response)] : f \in executed}
  OBVIOUS
<1>6. T = {[app |-> e.app, sent |-> encode_response(e.response)]}
  BY <1>4, <1>5
<1>7. handled = CHOOSE h \in T : TRUE
  BY <1>1, <1>3, <1>5 DEF handle_line
<1>8. handled = [app |-> e.app, sent |-> encode_response(e.response)]
  BY <1>6, <1>7
<1>9. CASE error = "none"
  BY <1>1, <1>2, <1>8, <1>9
<1>10. CASE error # "none"
  BY <1>1, <1>2, <1>8, <1>10
<1> QED BY <1>1, <1>9, <1>10

\* What a command does to the domain.
Executed(before, after, id, command) ==
    /\ after \in DomainValue
    /\ UnownedIsNeutral(before) => UnownedIsNeutral(after)
    /\ after.lease.has_owner =>
         \/ after.lease.owner_client_id = id
         \/ before.lease.has_owner /\ after.lease.owner_client_id = before.lease.owner_client_id
    /\ after.lease.has_owner /\ ~before.lease.has_owner => after.state = before.state
    /\ after.lease.has_owner /\ ~before.lease.has_owner => command.type = "acquire"
    /\ ~after.lease.has_owner /\ before.lease.has_owner =>
         command.type = "release" /\ command_owner_matches_client(command, id)
    /\ after.accepted # before.accepted =>
         /\ command.type = "set_state" /\ command_owner_matches_client(command, id)
         /\ after.state = command.state /\ after.lease.last_sequence = command.sequence

\* Every command keeps to that.
LEMMA ExecuteFacts ==
    ASSUME NEW a \in DomainValue, NEW id \in Nat, NEW command, command.type \in Commands,
           command.state \in States, command.sequence \in Nat,
           NEW after, after = execute_command(a, id, command).app
    PROVE  Executed(a, after, id, command)
<1>1. CASE command.type = "hello" \/ command.type = "get_status"
  <2>1. after = a
    BY <1>1 DEF execute_command, Responded
  <2> QED BY <2>1 DEF Executed
<1>2. CASE command.type = "acquire"
  <2>1. after = domain_acquire(a, id).app
    BY <1>2 DEF execute_command, Responded
  <2>2. after \in DomainValue
    BY <2>1, AcquireFacts
  <2>3. CASE after = a
    BY <2>3 DEF Executed
  <2>4. CASE /\ a.lease.has_owner => a.lease.owner_client_id = id
             /\ after = [a EXCEPT !.lease = [has_owner |-> TRUE, owner_client_id |-> id,
                                             last_sequence |-> a.lease.last_sequence]]
    <3>1. /\ after.lease.has_owner /\ after.lease.owner_client_id = id
          /\ after.accepted = a.accepted /\ after.state = a.state
      BY <2>4 DEF DomainValue
    <3> QED BY <1>2, <2>2, <3>1 DEF Executed, UnownedIsNeutral
  <2> QED BY <2>1, <2>3, <2>4, AcquireFacts
<1>3. CASE command.type = "release"
  <2>1. CASE ~command_owner_matches_client(command, id)
    <3>1. after = a
      BY <1>3, <2>1 DEF execute_command, Responded
    <3> QED BY <3>1 DEF Executed
  <2>2. CASE command_owner_matches_client(command, id)
    <3>1. after = domain_revoke(a, "RELEASE", id).app
      BY <1>3, <2>2 DEF execute_command, Responded
    <3>2. "RELEASE" \in RevokeReasons
      BY DEF RevokeReasons
    <3>3. PICK r : r = domain_revoke(a, "RELEASE", id)
      OBVIOUS
    <3>4. /\ r.app \in DomainValue /\ r.app.accepted = a.accepted
          /\ r.app = a \/ (r.app.lease = lease_init /\ r.app.state = Neutral)
      BY <3>2, <3>3, RevokeFacts
    <3>5. CASE r.app = a
      BY <3>1, <3>3, <3>5 DEF Executed
    <3>6. CASE r.app.lease = lease_init /\ r.app.state = Neutral
      <4>1. ~after.lease.has_owner /\ UnownedIsNeutral(after)
        BY <3>1, <3>3, <3>6 DEF lease_init, UnownedIsNeutral
      <4> QED BY <1>3, <2>2, <3>1, <3>3, <3>4, <4>1 DEF Executed
    <3> QED BY <3>4, <3>5, <3>6
  <2> QED BY <2>1, <2>2
<1>4. CASE command.type = "set_state"
  <2>1. CASE after = record_state_update_rejected(a)
    <3>1. after = [a EXCEPT !.rejected = a.rejected + 1]
      BY <2>1 DEF record_state_update_rejected
    <3>2. after \in DomainValue
      BY <3>1 DEF DomainValue
    <3>3. after.lease = a.lease /\ after.state = a.state /\ after.accepted = a.accepted
      BY <3>1 DEF DomainValue
    <3> QED BY <3>2, <3>3 DEF Executed, UnownedIsNeutral
  <2>2. CASE /\ command_owner_matches_client(command, id)
             /\ lease_held_by(a.lease, id)
             /\ after = [lease |-> lease_accept_sequence(a.lease, command.sequence),
                         state |-> command.state, accepted |-> a.accepted + 1,
                         rejected |-> a.rejected]
    <3>1. PICK l : l = lease_accept_sequence(a.lease, command.sequence)
      OBVIOUS
    <3>2. /\ l = [has_owner |-> a.lease.has_owner,
                  owner_client_id |-> a.lease.owner_client_id,
                  last_sequence |-> command.sequence]
          /\ a.lease.has_owner /\ a.lease.owner_client_id = id
      BY <2>2, <3>1 DEF lease_accept_sequence, lease_held_by
    <3>3. l \in Lease
      BY <3>2 DEF DomainValue, Lease
    <3>4. after.lease = l /\ after.state = command.state
      BY <2>2, <3>1
    <3>5. after \in DomainValue
      BY <2>2, <3>1, <3>3 DEF DomainValue
    <3>6. after.lease.has_owner /\ after.lease.owner_client_id = id
          /\ after.lease.last_sequence = command.sequence
      BY <3>2, <3>4
    <3> QED BY <1>4, <2>2, <3>2, <3>4, <3>5, <3>6 DEF Executed, UnownedIsNeutral
  <2>3. CASE command_owner_matches_client(command, id)
    <3>1. after = domain_set_state(a, id, command.state, command.sequence).app
      BY <1>4, <2>3 DEF execute_command, Responded
    <3> QED BY <2>1, <2>2, <2>3, <3>1 DEF domain_set_state
  <2>4. CASE ~command_owner_matches_client(command, id)
    <3>1. after = record_state_update_rejected(a)
      BY <1>4, <2>4 DEF execute_command, Responded
    <3> QED BY <2>1, <3>1
  <2> QED BY <2>3, <2>4
<1> QED BY <1>1, <1>2, <1>3, <1>4 DEF Commands

\* A command that is not a set_state carries the neutral state and sequence 0.
LEMMA DecodedOther ==
    ASSUME NEW line, NEW command, command = decode_command(line), command.type # "set_state"
    PROVE  command.sequence = 0 /\ command.state = Neutral
<1>1. PICK type : type = TextOf(find_key_value(line.fields, "type"))
  OBVIOUS
<1>2. type # "set_state"
  BY <1>1 DEF decode_command, init_command
<1>3. PICK sequences :
         sequences = {v \in find_key_value(line.fields, "seq") : type = "set_state"}
  OBVIOUS
<1>4. sequences = {}
  BY <1>2, <1>3
<1>5. command.sequence = IF sequences = {} THEN 0 ELSE (CHOOSE v \in sequences : TRUE).n
  BY <1>1, <1>3 DEF decode_command, init_command
<1>6. command.state = Neutral
  BY <1>1, <1>2 DEF decode_command, init_command
<1> QED BY <1>4, <1>5, <1>6

\* What a line does to the domain, whoever sends it.
HandledWell(before, after, id, line) ==
    /\ after \in DomainValue
    /\ UnownedIsNeutral(before) => UnownedIsNeutral(after)
    /\ after.lease.has_owner =>
         \/ after.lease.owner_client_id = id
         \/ before.lease.has_owner /\ after.lease.owner_client_id = before.lease.owner_client_id
    /\ after.lease.has_owner /\ ~before.lease.has_owner => after.state = before.state
    /\ ~HasEscapes(line) => DoesWhatItSays(before, after, id, line)

\* A line executes as its fields say.
LEMMA HandleFacts ==
    ASSUME NEW a \in DomainValue, NEW id \in Nat, NEW line, IsLine(line),
           decode_error(line) = "none" => decode_command(line).state \in States,
           NEW after, after = handle_line(a, id, line).app
    PROVE  HandledWell(a, after, id, line)
<1>1. PICK command : command = decode_command(line)
  OBVIOUS
<1>2. CASE decode_error(line) # "none"
  <2>1. after = a
    BY <1>1, <1>2, HandledApp
  <2> QED BY <2>1 DEF HandledWell, DoesWhatItSays
<1>3. CASE decode_error(line) = "none"
  <2>1. after = execute_command(a, id, command).app
    BY <1>1, <1>3, HandledApp
  <2>2. command.type \in Commands /\ command.state \in States
    BY <1>1, <1>3, DecodedType
  <2>3. command.sequence \in Nat
    <3>1. CASE command.type = "set_state"
      BY <1>1, <1>3, <3>1, DecodedState
    <3>2. CASE command.type # "set_state"
      BY <1>1, <3>2, DecodedOther
    <3> QED BY <3>1, <3>2
  <2>4. Executed(a, after, id, command)
    BY <2>1, <2>2, <2>3, ExecuteFacts
  <2>5. ASSUME ~HasEscapes(line) PROVE DoesWhatItSays(a, after, id, line)
    <3>1. PICK types : types = {v.text : v \in {u \in Says(line, "type") : u.kind = "string"}}
      OBVIOUS
    <3>2. command.type \in types
      BY <1>1, <1>3, <3>1, DecodedType
    <3>3. after.lease.has_owner /\ ~a.lease.has_owner => "acquire" \in types
      BY <2>4, <3>2 DEF Executed
    <3>4. ~after.lease.has_owner /\ a.lease.has_owner =>
             "release" \in types /\ format_owner_id(id) \in Says(line, "owner_id")
      BY <1>1, <2>4, <3>2, DecodedOwner DEF Executed
    <3>5. ASSUME after.accepted # a.accepted
          PROVE  /\ "set_state" \in types /\ format_owner_id(id) \in Says(line, "owner_id")
                 /\ \E v \in Says(line, "state") : StateOf(v) = after.state
                 /\ IF Says(line, "seq") = {} THEN after.lease.last_sequence = 0
                    ELSE Number(after.lease.last_sequence) \in Says(line, "seq")
      <4>1. /\ command.type = "set_state" /\ command_owner_matches_client(command, id)
            /\ after.state = command.state /\ after.lease.last_sequence = command.sequence
        BY <2>4, <3>5 DEF Executed
      <4>2. "set_state" \in types /\ format_owner_id(id) \in Says(line, "owner_id")
        BY <1>1, <3>2, <4>1, DecodedOwner
      <4>3. \E v \in Says(line, "state") : StateOf(v) = after.state
        BY <1>1, <1>3, <4>1, DecodedState
      <4>4. CASE Says(line, "seq") = {}
        <5>1. find_key_value(line.fields, "seq") = {}
          BY <4>4, FindIsSaid
        <5>2. command.sequence = 0
          BY <1>1, <1>3, <4>1, <5>1, DecodedState
        <5> QED BY <4>1, <4>2, <4>3, <4>4, <5>2
      <4>5. CASE Says(line, "seq") # {}
        <5>1. find_key_value(line.fields, "seq") # {}
          BY <2>5, <4>5, FindFirst
        <5>2. Number(command.sequence) \in Says(line, "seq")
          BY <1>1, <1>3, <4>1, <5>1, DecodedState
        <5> QED BY <4>1, <4>2, <4>3, <4>5, <5>2
      <4> QED BY <4>4, <4>5
    <3> QED BY <3>1, <3>3, <3>4, <3>5 DEF DoesWhatItSays
  <2> QED BY <2>4, <2>5 DEF HandledWell, Executed
<1> QED BY <1>2, <1>3

-----------------------------------------------------------------------------
(* The lines of the debug client.                                          *)

\* The field i is the first with its key, and no field in front has an escape.
FirstAt(fields, n, i) ==
    /\ n \in Nat /\ DOMAIN fields = 1 .. n /\ i \in 1 .. n
    /\ \A k \in 1 .. i - 1 : fields[k].key # fields[i].key /\ ~IsEscaped(fields[k].value)

\* The search finds the first field with the key.
LEMMA FindAt ==
    ASSUME NEW fields, NEW n, NEW i, FirstAt(fields, n, i)
    PROVE  find_key_value(fields, fields[i].key) = {fields[i].value}
<1>1. DOMAIN fields \subseteq Nat \ {0}
  BY DEF FirstAt
<1>2. fields[i].value \in find_key_value(fields, fields[i].key)
  BY DEF find_key_value, FirstAt
<1>3. \A v \in find_key_value(fields, fields[i].key) : v = fields[i].value
  BY <1>1, <1>2, FindUnique
<1> QED BY <1>2, <1>3

\* A request of this type and with this request_id.
IsRequest(line, type, id) ==
    /\ IsLine(line) /\ line.complete
    /\ find_key_value(line.fields, "type") = {Text(type)}
    /\ find_key_value(line.fields, "request_id") = {Text(id)}

\* Plain texts and client ids are lexemes without escapes.
LEMMA LexemeFacts ==
    /\ \A t : IsLexeme(Text(t)) /\ ~IsEscaped(Text(t))
    /\ \A n : IsLexeme(Number(n)) /\ ~IsEscaped(Number(n))
    /\ \A n : IsLexeme(format_owner_id(n)) /\ ~IsEscaped(format_owner_id(n))
    /\ \A f : IsLexeme(Object(f)) /\ ~IsEscaped(Object(f))
BY DEF IsLexeme, IsEscaped, Text, Number, format_owner_id, Object

\* hello is a request.
LEMMA HelloIsRequest == IsRequest(send_hello, "hello", "h1")
<1>1. PICK line, fields : line = send_hello /\ fields = line.fields
  OBVIOUS
<1>2. /\ fields = << Field("v", Number(1)),
                     Field("type", Text("hello")),
                     Field("client_name", Text("swbt-debug-client")),
                     Field("request_id", Text("h1")) >>
      /\ line.complete
  BY <1>1 DEF send_hello, Request, Type, RequestId
<1>3. /\ Len(fields) = 4 /\ DOMAIN fields = 1 .. 4
      /\ fields[1].key = "v" /\ fields[1].value = Number(1)
      /\ fields[2].key = "type" /\ fields[2].value = Text("hello")
      /\ fields[3].key = "client_name" /\ fields[3].value = Text("swbt-debug-client")
      /\ fields[4].key = "request_id" /\ fields[4].value = Text("h1")
  BY <1>2 DEF Field
<1>4. \A i \in 1 .. 4 : IsLexeme(fields[i].value) /\ ~IsEscaped(fields[i].value)
  BY <1>3, LexemeFacts
<1>5. FirstAt(fields, 4, 2) /\ FirstAt(fields, 4, 4)
  BY <1>3, <1>4 DEF FirstAt
<1>6. /\ find_key_value(fields, "type") = {Text("hello")}
      /\ find_key_value(fields, "request_id") = {Text("h1")}
  BY <1>3, <1>5, FindAt
<1>7. IsLine(line)
  BY <1>1, <1>3, <1>4 DEF IsLine
<1> QED BY <1>1, <1>2, <1>6, <1>7 DEF IsRequest

\* acquire is a request.
LEMMA AcquireIsRequest == IsRequest(send_acquire, "acquire", "a1")
<1>1. PICK line, fields : line = send_acquire /\ fields = line.fields
  OBVIOUS
<1>2. /\ fields = << Field("v", Number(1)),
                     Field("type", Text("acquire")),
                     Field("mode", Text("exclusive")),
                     Field("request_id", Text("a1")) >>
      /\ line.complete
  BY <1>1 DEF send_acquire, Request, Type, RequestId
<1>3. /\ Len(fields) = 4 /\ DOMAIN fields = 1 .. 4
      /\ fields[1].key = "v" /\ fields[1].value = Number(1)
      /\ fields[2].key = "type" /\ fields[2].value = Text("acquire")
      /\ fields[3].key = "mode" /\ fields[3].value = Text("exclusive")
      /\ fields[4].key = "request_id" /\ fields[4].value = Text("a1")
  BY <1>2 DEF Field
<1>4. \A i \in 1 .. 4 : IsLexeme(fields[i].value) /\ ~IsEscaped(fields[i].value)
  BY <1>3, LexemeFacts
<1>5. FirstAt(fields, 4, 2) /\ FirstAt(fields, 4, 4)
  BY <1>3, <1>4 DEF FirstAt
<1>6. /\ find_key_value(fields, "type") = {Text("acquire")}
      /\ find_key_value(fields, "request_id") = {Text("a1")}
  BY <1>3, <1>5, FindAt
<1>7. IsLine(line)
  BY <1>1, <1>3, <1>4 DEF IsLine
<1> QED BY <1>1, <1>2, <1>6, <1>7 DEF IsRequest

\* get_status is a request.
LEMMA GetStatusIsRequest == IsRequest(send_get_status, "get_status", "g1")
<1>1. PICK line, fields : line = send_get_status /\ fields = line.fields
  OBVIOUS
<1>2. /\ fields = << Field("v", Number(1)),
                     Field("type", Text("get_status")),
                     Field("request_id", Text("g1")) >>
      /\ line.complete
  BY <1>1 DEF send_get_status, Request, Type, RequestId
<1>3. /\ Len(fields) = 3 /\ DOMAIN fields = 1 .. 3
      /\ fields[1].key = "v" /\ fields[1].value = Number(1)
      /\ fields[2].key = "type" /\ fields[2].value = Text("get_status")
      /\ fields[3].key = "request_id" /\ fields[3].value = Text("g1")
  BY <1>2 DEF Field
<1>4. \A i \in 1 .. 3 : IsLexeme(fields[i].value) /\ ~IsEscaped(fields[i].value)
  BY <1>3, LexemeFacts
<1>5. FirstAt(fields, 3, 2) /\ FirstAt(fields, 3, 3)
  BY <1>3, <1>4 DEF FirstAt
<1>6. /\ find_key_value(fields, "type") = {Text("get_status")}
      /\ find_key_value(fields, "request_id") = {Text("g1")}
  BY <1>3, <1>5, FindAt
<1>7. IsLine(line)
  BY <1>1, <1>3, <1>4 DEF IsLine
<1> QED BY <1>1, <1>2, <1>6, <1>7 DEF IsRequest

\* release is a request, in the name of a client id.
LEMMA ReleaseIsRequest ==
    ASSUME NEW k
    PROVE  IsRequest(send_release(format_owner_id(k)), "release", "r1")
<1>1. PICK line, fields : line = send_release(format_owner_id(k)) /\ fields = line.fields
  OBVIOUS
<1>2. /\ fields = << Field("v", Number(1)),
                     Field("type", Text("release")),
                     Field("owner_id", format_owner_id(k)),
                     Field("request_id", Text("r1")) >>
      /\ line.complete
  BY <1>1 DEF send_release, Request, Type, RequestId
<1>3. /\ Len(fields) = 4 /\ DOMAIN fields = 1 .. 4
      /\ fields[1].key = "v" /\ fields[1].value = Number(1)
      /\ fields[2].key = "type" /\ fields[2].value = Text("release")
      /\ fields[3].key = "owner_id" /\ fields[3].value = format_owner_id(k)
      /\ fields[4].key = "request_id" /\ fields[4].value = Text("r1")
  BY <1>2 DEF Field
<1>4. \A i \in 1 .. 4 : IsLexeme(fields[i].value) /\ ~IsEscaped(fields[i].value)
  BY <1>3, LexemeFacts
<1>5. FirstAt(fields, 4, 2) /\ FirstAt(fields, 4, 4)
  BY <1>3, <1>4 DEF FirstAt
<1>6. /\ find_key_value(fields, "type") = {Text("release")}
      /\ find_key_value(fields, "request_id") = {Text("r1")}
  BY <1>3, <1>5, FindAt
<1>7. IsLine(line)
  BY <1>1, <1>3, <1>4 DEF IsLine
<1> QED BY <1>1, <1>2, <1>6, <1>7 DEF IsRequest

\* set_state is a request, in the name of a client id and with a state.
LEMMA SetStateIsRequest ==
    ASSUME NEW k, NEW state, NEW q
    PROVE  LET line == send_set_state(format_owner_id(k), state, q)
           IN  /\ IsRequest(line, "set_state", "s1")
               /\ find_key_value(line.fields, "owner_id") = {format_owner_id(k)}
               /\ find_key_value(line.fields, "seq") = {Number(q)}
               /\ find_key_value(line.fields, "state") = {Object(state_fields(state))}
<1>1. PICK line, fields : line = send_set_state(format_owner_id(k), state, q) /\ fields = line.fields
  OBVIOUS
<1>2. /\ fields = << Field("v", Number(1)),
                     Field("type", Text("set_state")),
                     Field("owner_id", format_owner_id(k)),
                     Field("seq", Number(q)),
                     Field("request_id", Text("s1")),
                     Field("state", Object(state_fields(state))) >>
      /\ line.complete
  BY <1>1 DEF send_set_state, Request, Type, RequestId
<1>3. /\ Len(fields) = 6 /\ DOMAIN fields = 1 .. 6
      /\ fields[1].key = "v" /\ fields[1].value = Number(1)
      /\ fields[2].key = "type" /\ fields[2].value = Text("set_state")
      /\ fields[3].key = "owner_id" /\ fields[3].value = format_owner_id(k)
      /\ fields[4].key = "seq" /\ fields[4].value = Number(q)
      /\ fields[5].key = "request_id" /\ fields[5].value = Text("s1")
      /\ fields[6].key = "state" /\ fields[6].value = Object(state_fields(state))
  BY <1>2 DEF Field
<1>4. \A i \in 1 .. 6 : IsLexeme(fields[i].value) /\ ~IsEscaped(fields[i].value)
  BY <1>3, LexemeFacts
<1>5. /\ FirstAt(fields, 6, 2) /\ FirstAt(fields, 6, 3) /\ FirstAt(fields, 6, 4)
      /\ FirstAt(fields, 6, 5) /\ FirstAt(fields, 6, 6)
  BY <1>3, <1>4 DEF FirstAt
<1>6. /\ find_key_value(fields, "type") = {Text("set_state")}
      /\ find_key_value(fields, "request_id") = {Text("s1")}
      /\ find_key_value(fields, "owner_id") = {format_owner_id(k)}
      /\ find_key_value(fields, "seq") = {Number(q)}
      /\ find_key_value(fields, "state") = {Object(state_fields(state))}
  BY <1>3, <1>5, FindAt
<1>7. IsLine(line)
  BY <1>1, <1>3, <1>4 DEF IsLine
<1> QED BY <1>1, <1>2, <1>6, <1>7 DEF IsRequest

\* The names of the fields of a state are different.
LEMMA KeysDiffer == \A i, j \in 1 .. 11 : KeyOrder[i] = KeyOrder[j] => i = j
BY DEF KeyOrder

\* The names of the fields of a state.
LEMMA KeysAre == \A key \in StateKeys : \E i \in 1 .. 11 : KeyOrder[i] = key
BY DEF StateKeys, StickKeys, ImuKeys, KeyOrder

\* A state that was written and read again is the same.
LEMMA StateRoundTrip ==
    ASSUME NEW state \in States PROVE StateOf(Object(state_fields(state))) = state
<1>1. PICK fields : fields = state_fields(state)
  OBVIOUS
<1>2. /\ DOMAIN fields = 1 .. 11
      /\ \A i \in 1 .. 11 :
           /\ fields[i].key = KeyOrder[i]
           /\ fields[i].value = IF KeyOrder[i] = "buttons" THEN Bits(state.buttons)
                                ELSE Number(state[KeyOrder[i]])
  BY <1>1 DEF state_fields, Field
<1>3. \A i \in 1 .. 11 : ~IsEscaped(fields[i].value)
  BY <1>2 DEF IsEscaped, Bits, Number
<1>4. ASSUME NEW i \in 1 .. 11
      PROVE  find_key_value(fields, KeyOrder[i]) = {fields[i].value}
  <2>1. FirstAt(fields, 11, i)
    BY <1>2, <1>3, KeysDiffer DEF FirstAt
  <2> QED BY <1>2, <2>1, FindAt
<1>5. ASSUME NEW key \in StateKeys
      PROVE  LET value == CHOOSE v \in find_key_value(fields, key) : TRUE
             IN  (IF key = "buttons" THEN value.bits ELSE value.n) = state[key]
  <2>1. PICK i \in 1 .. 11 : KeyOrder[i] = key
    BY KeysAre
  <2>2. PICK found : found = find_key_value(fields, key)
    OBVIOUS
  <2>3. found = {fields[i].value}
    BY <1>4, <2>1, <2>2
  <2>4. (CHOOSE v \in found : TRUE) = fields[i].value
    BY <2>3
  <2>5. (IF key = "buttons" THEN fields[i].value.bits ELSE fields[i].value.n) = state[key]
    BY <1>2, <2>1 DEF Bits, Number
  <2> QED BY <2>2, <2>4, <2>5
<1>6. state = [key \in StateKeys |-> state[key]]
  BY StatesAssumption
<1>7. Object(fields).fields = fields
  BY DEF Object
<1> QED BY <1>1, <1>5, <1>6, <1>7 DEF StateOf

-----------------------------------------------------------------------------
(* The answers.                                                            *)

IsConcatenation(S, u, s, t) ==
    /\ u \in Seq(S) /\ Len(u) = Len(s) + Len(t)
    /\ \A i \in 1 .. Len(s) : u[i] = s[i]
    /\ \A i \in 1 .. Len(t) : u[Len(s) + i] = t[i]

\* Sequences, one after the other.
LEMMA Concatenated ==
    ASSUME NEW S, NEW s \in Seq(S), NEW t \in Seq(S), NEW u, u = s \o t
    PROVE  IsConcatenation(S, u, s, t)
BY DEF IsConcatenation

\* The fields of an answer with a request_id: version, type, request_id, rest.
IsAnswer(r, type, n, rest) ==
    /\ n \in Nat /\ DOMAIN r.fields = 1 .. 3 + n
    /\ r.fields[1] = Field("v", Number(1)) /\ r.fields[2] = Field("type", Text(type))
    /\ r.fields[3].key = "request_id" /\ ~IsEscaped(r.fields[3].value)
    /\ \A i \in 1 .. n : r.fields[3 + i] = rest[i]

\* An answer with a request_id is always sent.
LEMMA Encoded ==
    ASSUME NEW response, response.type # "none", response.request_id # NoId,
           NEW S, NEW rest \in Seq(S), rest = response_fields(response)
    PROVE  \E r : /\ encode_response(response) = <<r>>
                  /\ IsAnswer(r, response.type, Len(rest), rest)
<1>1. PICK front, id, all :
         /\ front = << Field("v", Number(1)), Field("type", Text(response.type)) >>
         /\ id = <<Field("request_id", Text(response.request_id))>>
         /\ all = front \o id \o rest
  OBVIOUS
<1>2. PICK r : r = [complete |-> TRUE, fields |-> all]
  OBVIOUS
<1>3. encode_response(response) = <<r>>
  BY <1>1, <1>2 DEF encode_response
<1>4. PICK U : U = S \union {Field("v", Number(1)), Field("type", Text(response.type)),
                             Field("request_id", Text(response.request_id))}
  OBVIOUS
<1>5. front \in Seq(U) /\ id \in Seq(U) /\ rest \in Seq(U) /\ Len(front) = 2 /\ Len(id) = 1
      /\ front[1] = Field("v", Number(1)) /\ front[2] = Field("type", Text(response.type))
      /\ id[1] = Field("request_id", Text(response.request_id))
  BY <1>1, <1>4
<1>6. PICK begin : begin = front \o id
  OBVIOUS
<1>7. begin \in Seq(U) /\ Len(begin) = 3 /\ begin[1] = front[1] /\ begin[2] = front[2]
      /\ begin[3] = id[1]
  <2>1. IsConcatenation(U, begin, front, id)
    BY <1>5, <1>6, Concatenated
  <2> QED BY <1>5, <2>1 DEF IsConcatenation
<1>8. PICK n \in Nat : n = Len(rest)
  OBVIOUS
<1>9. all \in Seq(U) /\ Len(all) = 3 + n
      /\ all[1] = begin[1] /\ all[2] = begin[2] /\ all[3] = begin[3]
      /\ \A i \in 1 .. n : all[3 + i] = rest[i]
  <2>1. all = begin \o rest
    BY <1>1, <1>6
  <2>2. IsConcatenation(U, all, begin, rest)
    BY <1>5, <1>7, <2>1, Concatenated
  <2>3. all \in Seq(U) /\ Len(all) = 3 + n
    BY <1>7, <1>8, <2>2 DEF IsConcatenation
  <2>4. all[1] = begin[1] /\ all[2] = begin[2] /\ all[3] = begin[3]
    BY <1>7, <2>2 DEF IsConcatenation
  <2>5. \A i \in 1 .. n : all[3 + i] = rest[i]
    BY <1>7, <1>8, <2>2 DEF IsConcatenation
  <2> QED BY <2>3, <2>4, <2>5
<1>10. DOMAIN all = 1 .. 3 + n
  BY <1>9
<1>11. all[3].key = "request_id" /\ ~IsEscaped(all[3].value)
  BY <1>5, <1>7, <1>9, LexemeFacts DEF Field
<1>12. r.fields = all
  BY <1>2
<1>13. IsAnswer(r, response.type, n, rest)
  BY <1>5, <1>7, <1>9, <1>10, <1>11, <1>12 DEF IsAnswer
<1> QED BY <1>3, <1>8, <1>13

\* At most one line is sent for a line.
LEMMA AtMostOneSent ==
    ASSUME NEW response
    PROVE  encode_response(response) = <<>> \/ \E r : encode_response(response) = <<r>>
BY DEF encode_response

\* An error is recognized by the debug client.
LEMMA ErrorIsSeen ==
    ASSUME NEW id, id # NoId, NEW code, NEW r, encode_response(set_error(id, code)) = <<r>>
    PROVE  response_contains(r, "error")
<1>1. PICK response : response = set_error(id, code)
  OBVIOUS
<1>2. response.type = "error" /\ response.request_id = id /\ response.code = code
  BY <1>1 DEF set_error, init_response
<1>3. PICK rest : rest = <<Field("code", Text(code))>>
  OBVIOUS
<1>4. rest = response_fields(response) /\ rest \in Seq({Field("code", Text(code))})
  BY <1>2, <1>3 DEF response_fields
<1>5. PICK r2 : /\ encode_response(response) = <<r2>>
                /\ IsAnswer(r2, "error", Len(rest), rest)
  BY <1>2, <1>4, Encoded
<1>6. r2 = r
  <2>1. <<r2>> = <<r>>
    BY <1>1, <1>5
  <2>2. <<r2>>[1] = <<r>>[1]
    BY <2>1
  <2> QED BY <2>2
<1>7. 2 \in DOMAIN r.fields /\ r.fields[2] = Field("type", Text("error"))
  BY <1>5, <1>6 DEF IsAnswer
<1> QED BY <1>7 DEF response_contains

\* A request of the debug client is decoded to its own type and request_id.
LEMMA RequestDecoded ==
    ASSUME NEW line, NEW type, NEW id, IsRequest(line, type, id),
           NEW command, command = decode_command(line)
    PROVE  command.type = type /\ command.request_id = id /\ parse_request_id(line) = id
<1>1. PICK types, ids : /\ types = find_key_value(line.fields, "type")
                        /\ ids = find_key_value(line.fields, "request_id")
  OBVIOUS
<1>2. types = {Text(type)} /\ ids = {Text(id)} /\ line.complete
  BY <1>1 DEF IsRequest
<1>3. TextOf(types) = type /\ TextOf(ids) = id
  <2>1. \A t : TextOf({Text(t)}) = t
    <3> TAKE t
    <3>1. PICK v : v = Text(t)
      OBVIOUS
    <3>2. v.text = t
      BY <3>1 DEF Text
    <3>3. (CHOOSE u \in {v} : TRUE) = v
      OBVIOUS
    <3> QED BY <3>1, <3>2, <3>3 DEF TextOf
  <2> QED BY <1>2, <2>1
<1>4. read_string(ids) = "ok"
  BY <1>2 DEF read_string, Text
<1>5. parse_request_id(line) = id
  BY <1>1, <1>2, <1>3, <1>4 DEF parse_request_id
<1>6. command.type = TextOf(types) /\ command.request_id = parse_request_id(line)
  BY <1>1 DEF decode_command, init_command
<1> QED BY <1>3, <1>5, <1>6

\* A request that does not decode is answered by an error and changes nothing.
LEMMA RefusedRequest ==
    ASSUME NEW a, NEW id, NEW line, NEW type, NEW name, name # NoId,
           IsRequest(line, type, name), decode_error(line) # "none",
           NEW handled, handled = handle_line(a, id, line)
    PROVE  /\ handled.app = a
           /\ \A r : handled.sent = <<r>> => response_contains(r, "error")
<1>1. PICK command : command = decode_command(line)
  OBVIOUS
<1>2. /\ handled.app = a
      /\ handled.sent = encode_response(set_error(parse_request_id(line), decode_error(line)))
  BY <1>1, HandledApp
<1>3. parse_request_id(line) = name
  BY <1>1, RequestDecoded
<1> QED BY <1>2, <1>3, ErrorIsSeen

\* A set_state of the debug client is decoded to the state it was given.
LEMMA SetStateDecoded ==
    ASSUME NEW k, NEW state \in States, NEW q, NEW line,
           line = send_set_state(format_owner_id(k), state, q),
           NEW command, command = decode_command(line)
    PROVE  command.state = state
<1>1. PICK states : states = find_key_value(line.fields, "state")
  OBVIOUS
<1>2. states = {Object(state_fields(state))} /\ IsRequest(line, "set_state", "s1")
  BY <1>1, SetStateIsRequest
<1>3. command.type = "set_state"
  BY <1>2, RequestDecoded
<1>4. command.state = StateOf(CHOOSE v \in states : TRUE)
  <2>1. PICK type : type = TextOf(find_key_value(line.fields, "type"))
    OBVIOUS
  <2>2. type = "set_state"
    BY <1>3, <2>1 DEF decode_command, init_command
  <2> QED BY <1>1, <2>1, <2>2 DEF decode_command, init_command
<1>5. (CHOOSE v \in states : TRUE) = Object(state_fields(state))
  BY <1>2
<1> QED BY <1>4, <1>5, StateRoundTrip

\* Two tuples of one element.
LEMMA OneIsOne == ASSUME NEW x, NEW y, <<x>> = <<y>> PROVE x = y
<1>1. <<x>>[1] = <<y>>[1]
  OBVIOUS
<1> QED BY <1>1

\* A hello gives the controller to nobody.
LEMMA HelloAnswer ==
    ASSUME NEW a \in DomainValue, NEW id \in Nat,
           NEW handled, handled = handle_line(a, id, send_hello)
    PROVE  handled.app = a
<1>1. PICK line, command : line = send_hello /\ command = decode_command(line)
  OBVIOUS
<1>2. IsRequest(line, "hello", "h1") /\ "h1" # NoId
  BY <1>1, HelloIsRequest DEF NoId
<1>3. command.type = "hello"
  BY <1>1, <1>2, RequestDecoded
<1>4. CASE decode_error(line) # "none"
  BY <1>1, <1>2, <1>4, RefusedRequest
<1>5. CASE decode_error(line) = "none"
  <2>1. handled.app = execute_command(a, id, command).app
    BY <1>1, <1>5, HandledApp
  <2> QED BY <1>3, <2>1 DEF execute_command, Responded
<1> QED BY <1>4, <1>5

\* An acquire of a free controller that is answered with acquired: the lease
\* is the sender's and fresh, and the answer names the sender.
LEMMA AcquireAnswer ==
    ASSUME NEW a \in DomainValue, NEW id \in Nat, ~a.lease.has_owner, UnownedIsNeutral(a),
           NEW handled, handled = handle_line(a, id, send_acquire),
           NEW r, handled.sent = <<r>>, Accepts("acquire", r)
    PROVE  /\ response_string(r, "owner_id") = {format_owner_id(id)}
           /\ lease_held_by(handled.app.lease, id) /\ handled.app.lease.last_sequence = 0
<1>1. PICK line, command : line = send_acquire /\ command = decode_command(line)
  OBVIOUS
<1>2. IsRequest(line, "acquire", "a1") /\ "a1" # NoId
  BY <1>1, AcquireIsRequest DEF NoId
<1>3. command.type = "acquire" /\ command.request_id = "a1"
  BY <1>1, <1>2, RequestDecoded
<1>4. ~response_contains(r, "error")
  BY DEF Accepts
<1>5. decode_error(line) = "none"
  BY <1>1, <1>2, <1>4, RefusedRequest
<1>6. PICK executed : executed = execute_command(a, id, command)
  OBVIOUS
<1>7. handled.app = executed.app /\ handled.sent = encode_response(executed.response)
  BY <1>1, <1>5, <1>6, HandledApp
<1>8. PICK success : success = [init_response EXCEPT !.type = "acquired", !.owner_client_id = id]
  OBVIOUS
<1>9. /\ executed.app = domain_acquire(a, id).app
      /\ executed.response = map_control_result(command, domain_acquire(a, id).result, success)
  BY <1>3, <1>6, <1>8 DEF execute_command, Responded
<1>10. /\ domain_acquire(a, id).result = "OK"
       /\ domain_acquire(a, id).app =
            [a EXCEPT !.lease = [has_owner |-> TRUE, owner_client_id |-> id,
                                 last_sequence |-> a.lease.last_sequence]]
  BY AcquireFacts
<1>11. lease_held_by(handled.app.lease, id) /\ handled.app.lease.last_sequence = 0
  <2>1. a.lease.last_sequence = 0
    BY DEF UnownedIsNeutral
  <2>2. handled.app.lease = [has_owner |-> TRUE, owner_client_id |-> id, last_sequence |-> 0]
    BY <1>7, <1>9, <1>10, <2>1 DEF DomainValue
  <2> QED BY <2>2 DEF lease_held_by
<1>12. PICK response : response = [success EXCEPT !.request_id = command.request_id]
  OBVIOUS
<1>13. executed.response = response
  BY <1>9, <1>10, <1>12 DEF map_control_result
<1>14. response.type = "acquired" /\ response.request_id = "a1"
       /\ response.owner_client_id = id
  BY <1>3, <1>8, <1>12 DEF init_response
<1>15. PICK rest : rest = <<Field("owner_id", format_owner_id(id))>>
  OBVIOUS
<1>16. rest = response_fields(response) /\ rest \in Seq({Field("owner_id", format_owner_id(id))})
       /\ Len(rest) = 1
  BY <1>14, <1>15 DEF response_fields
<1>17. PICK r2 : encode_response(response) = <<r2>> /\ IsAnswer(r2, "acquired", 1, rest)
  BY <1>2, <1>14, <1>16, Encoded
<1>18. r2 = r
  BY <1>7, <1>13, <1>17, OneIsOne
<1>19. PICK fields : fields = r.fields
  OBVIOUS
<1>20. /\ DOMAIN fields = 1 .. 4
       /\ fields[1].key = "v" /\ ~IsEscaped(fields[1].value)
       /\ fields[2].key = "type" /\ ~IsEscaped(fields[2].value)
       /\ fields[3].key = "request_id" /\ ~IsEscaped(fields[3].value)
       /\ fields[4].key = "owner_id" /\ fields[4].value = format_owner_id(id)
  <2>1. fields[1] = Field("v", Number(1)) /\ fields[2] = Field("type", Text("acquired"))
        /\ DOMAIN fields = 1 .. 4
        /\ fields[3].key = "request_id" /\ ~IsEscaped(fields[3].value)
    BY <1>17, <1>18, <1>19 DEF IsAnswer
  <2>2. fields[4] = rest[1]
    BY <1>17, <1>18, <1>19 DEF IsAnswer
  <2> QED BY <1>15, <2>1, <2>2, LexemeFacts DEF Field
<1>21. FirstAt(fields, 4, 4)
  BY <1>20 DEF FirstAt
<1>22. find_key_value(fields, "owner_id") = {format_owner_id(id)}
  BY <1>20, <1>21, FindAt
<1>23. response_string(r, "owner_id") = {format_owner_id(id)}
  <2>1. PICK v : v = format_owner_id(id)
    OBVIOUS
  <2>2. v.kind = "string"
    BY <2>1 DEF format_owner_id
  <2>3. response_string(r, "owner_id") = {u \in {v} : u.kind = "string"}
    BY <1>19, <1>22, <2>1 DEF response_string
  <2> QED BY <2>1, <2>2, <2>3
<1> QED BY <1>11, <1>23

\* A set_state of the owner of a fresh lease that is not refused is applied.
LEMMA SetStateAnswer ==
    ASSUME NEW a \in DomainValue, NEW id \in Nat, lease_held_by(a.lease, id),
           a.lease.last_sequence = 0, NEW state \in States, NEW q,
           NEW handled, handled = handle_line(a, id, send_set_state(format_owner_id(id), state, q)),
           NEW r, handled.sent = <<r>>, Accepts("set_state", r)
    PROVE  handled.app.state = state /\ lease_held_by(handled.app.lease, id)
<1>1. PICK line, command : /\ line = send_set_state(format_owner_id(id), state, q)
                           /\ command = decode_command(line)
  OBVIOUS
<1>2. IsRequest(line, "set_state", "s1") /\ "s1" # NoId
  BY <1>1, SetStateIsRequest DEF NoId
<1>3. command.type = "set_state" /\ command.request_id = "s1"
  BY <1>1, <1>2, RequestDecoded
<1>4. ~response_contains(r, "error")
  BY DEF Accepts
<1>5. decode_error(line) = "none"
  BY <1>1, <1>2, <1>4, RefusedRequest
<1>6. PICK executed : executed = execute_command(a, id, command)
  OBVIOUS
<1>7. handled.app = executed.app /\ handled.sent = encode_response(executed.response)
  BY <1>1, <1>5, <1>6, HandledApp
<1>8. command.state = state /\ command.sequence \in Nat
  BY <1>1, <1>2, <1>3, <1>5, SetStateDecoded, DecodedState DEF IsRequest
<1>9. CASE ~command_owner_matches_client(command, id)
  <2>1. executed.response = set_error("s1", "not_owner")
    BY <1>3, <1>6, <1>9 DEF execute_command, Responded, map_control_result
  <2> QED BY <1>2, <1>4, <1>7, <2>1, ErrorIsSeen
<1>10. CASE command_owner_matches_client(command, id)
  <2>1. executed.app = domain_set_state(a, id, command.state, command.sequence).app
    BY <1>3, <1>6, <1>10 DEF execute_command, Responded
  <2>2. ~(command.sequence < a.lease.last_sequence)
    BY <1>8
  <2>3. executed.app = [lease |-> lease_accept_sequence(a.lease, command.sequence),
                        state |-> command.state, accepted |-> a.accepted + 1,
                        rejected |-> a.rejected]
    BY <2>1, <2>2 DEF domain_set_state
  <2>4. executed.app.state = state
        /\ executed.app.lease = lease_accept_sequence(a.lease, command.sequence)
    BY <1>8, <2>3
  <2>5. lease_held_by(executed.app.lease, id)
    BY <2>4 DEF lease_accept_sequence, lease_held_by
  <2> QED BY <1>7, <2>4, <2>5
<1> QED BY <1>9, <1>10

\* A release that is not refused ends the lease.
LEMMA ReleaseAnswer ==
    ASSUME NEW a \in DomainValue, NEW id \in Nat, NEW k,
           NEW handled, handled = handle_line(a, id, send_release(format_owner_id(k))),
           NEW r, handled.sent = <<r>>, ~response_contains(r, "error")
    PROVE  ~handled.app.lease.has_owner
<1>1. PICK line, command : /\ line = send_release(format_owner_id(k))
                           /\ command = decode_command(line)
  OBVIOUS
<1>2. IsRequest(line, "release", "r1") /\ "r1" # NoId
  BY <1>1, ReleaseIsRequest DEF NoId
<1>3. command.type = "release" /\ command.request_id = "r1"
  BY <1>1, <1>2, RequestDecoded
<1>4. decode_error(line) = "none"
  BY <1>1, <1>2, RefusedRequest
<1>5. PICK executed : executed = execute_command(a, id, command)
  OBVIOUS
<1>6. handled.app = executed.app /\ handled.sent = encode_response(executed.response)
  BY <1>1, <1>4, <1>5, HandledApp
<1>7. CASE ~(command_owner_matches_client(command, id) /\ lease_held_by(a.lease, id))
  <2>1. executed.response = set_error("r1", "not_owner")
    BY <1>3, <1>5, <1>7
    DEF execute_command, Responded, map_control_result, domain_revoke
  <2> QED BY <1>2, <1>6, <2>1, ErrorIsSeen
<1>8. CASE command_owner_matches_client(command, id) /\ lease_held_by(a.lease, id)
  <2>1. executed.app = revoke_all(a)
    BY <1>3, <1>5, <1>8 DEF execute_command, Responded, domain_revoke
  <2>2. revoke_all(a).lease = lease_init
    BY DEF revoke_all, apply_neutral, lease_revoke, DomainValue
  <2> QED BY <1>6, <2>1, <2>2 DEF lease_init
<1> QED BY <1>7, <1>8

\* A status that shows a state in force, under the owner_id of a client.
Shows(r, state, owner) ==
    /\ \E value \in find_key_value(r.fields, "state") : StateOf(value) = state
    /\ \E value \in find_key_value(r.fields, "owner") :
         /\ \E present \in find_key_value(value.fields, "present") : present.b
         /\ find_key_value(value.fields, "owner_id") = owner

\* The owner in the status of a controller that has one.
LEMMA OwnerShown ==
    ASSUME NEW id, NEW q, NEW here, here.kind = "boolean", here.b, NEW fields,
           fields = << Field("present", here), Field("owner_id", format_owner_id(id)),
                       Field("last_seq", Number(q)) >>
    PROVE  /\ \E present \in find_key_value(fields, "present") : present.b
           /\ find_key_value(fields, "owner_id") = {format_owner_id(id)}
<1>1. /\ DOMAIN fields = 1 .. 3
      /\ fields[1].key = "present" /\ fields[1].value = here
      /\ fields[2].key = "owner_id" /\ fields[2].value = format_owner_id(id)
  BY DEF Field
<1>2. ~IsEscaped(here)
  BY DEF IsEscaped
<1>3. FirstAt(fields, 3, 1)
  BY <1>1 DEF FirstAt
<1>4. FirstAt(fields, 3, 2)
  BY <1>1, <1>2 DEF FirstAt
<1>5. find_key_value(fields, "present") = {here}
  BY <1>1, <1>3, FindAt
<1>6. find_key_value(fields, "owner_id") = {format_owner_id(id)}
  BY <1>1, <1>4, FindAt
<1> QED BY <1>5, <1>6

\* The status of a controller that a client holds shows its state and that client.
LEMMA StatusAnswer ==
    ASSUME NEW a \in DomainValue, NEW id \in Nat, lease_held_by(a.lease, id),
           NEW handled, handled = handle_line(a, id, send_get_status),
           NEW r, handled.sent = <<r>>, ~response_contains(r, "error")
    PROVE  Shows(r, a.state, {format_owner_id(id)})
<1>1. PICK line, command : line = send_get_status /\ command = decode_command(line)
  OBVIOUS
<1>2. IsRequest(line, "get_status", "g1") /\ "g1" # NoId
  BY <1>1, GetStatusIsRequest DEF NoId
<1>3. command.type = "get_status" /\ command.request_id = "g1"
  BY <1>1, <1>2, RequestDecoded
<1>4. decode_error(line) = "none"
  BY <1>1, <1>2, RefusedRequest
<1>5. PICK executed : executed = execute_command(a, id, command)
  OBVIOUS
<1>6. handled.sent = encode_response(executed.response)
  BY <1>1, <1>4, <1>5, HandledApp
<1>7. PICK success : success = [init_response EXCEPT !.type = "status", !.status = Status(a)]
  OBVIOUS
<1>8. executed.response = map_control_result(command, "OK", success)
  BY <1>3, <1>5, <1>7 DEF execute_command, Responded
<1>9. PICK response : response = [success EXCEPT !.request_id = command.request_id]
  OBVIOUS
<1>10. executed.response = response
  BY <1>8, <1>9 DEF map_control_result
<1>11. response.type = "status" /\ response.request_id = "g1" /\ response.status = Status(a)
  BY <1>3, <1>7, <1>9 DEF init_response
<1>12. response.status.has_owner = TRUE /\ response.status.owner_client_id = id
       /\ response.status.state = a.state
  BY <1>11 DEF Status, lease_held_by, DomainValue
<1>13. PICK q, here, owner :
                       /\ q = response.status.last_sequence
                       /\ here = Boolean_(response.status.has_owner)
                       /\ owner = << Field("present", here),
                                     Field("owner_id", format_owner_id(id)),
                                     Field("last_seq", Number(q)) >>
  OBVIOUS
<1>14. PICK first, second : /\ first = Field("owner", Object(owner))
                            /\ second = Field("state", Object(state_fields(a.state)))
  OBVIOUS
<1>15. PICK rest : rest = <<first, second>>
  OBVIOUS
<1>16. rest = response_fields(response)
  BY <1>11, <1>12, <1>13, <1>14, <1>15 DEF response_fields
<1>17. rest \in Seq({first, second}) /\ Len(rest) = 2 /\ rest[1] = first /\ rest[2] = second
  BY <1>15
<1>18. PICK r2 : encode_response(response) = <<r2>> /\ IsAnswer(r2, "status", 2, rest)
  BY <1>2, <1>11, <1>16, <1>17, Encoded
<1>19. r2 = r
  BY <1>6, <1>10, <1>18, OneIsOne
<1>20. PICK fields : fields = r.fields
  OBVIOUS
<1>21. /\ DOMAIN fields = 1 .. 5
       /\ fields[1] = Field("v", Number(1)) /\ fields[2] = Field("type", Text("status"))
       /\ fields[3].key = "request_id" /\ ~IsEscaped(fields[3].value)
  BY <1>18, <1>19, <1>20 DEF IsAnswer
<1>22. fields[4] = first /\ fields[5] = second
  BY <1>17, <1>18, <1>19, <1>20 DEF IsAnswer
<1>23. /\ fields[1].key = "v" /\ ~IsEscaped(fields[1].value)
       /\ fields[2].key = "type" /\ ~IsEscaped(fields[2].value)
       /\ fields[4].key = "owner" /\ fields[4].value = Object(owner)
       /\ fields[5].key = "state" /\ fields[5].value = Object(state_fields(a.state))
  BY <1>14, <1>21, <1>22, LexemeFacts DEF Field
<1>24. ~IsEscaped(fields[4].value)
  BY <1>23 DEF Object, IsEscaped
<1>25. FirstAt(fields, 5, 4) /\ FirstAt(fields, 5, 5)
  BY <1>21, <1>23, <1>24 DEF FirstAt
<1>26. find_key_value(fields, "owner") = {Object(owner)}
  BY <1>21, <1>23, <1>25, FindAt
<1>27. find_key_value(fields, "state") = {Object(state_fields(a.state))}
  BY <1>21, <1>23, <1>25, FindAt
<1>28. StateOf(Object(state_fields(a.state))) = a.state
  BY StateRoundTrip DEF DomainValue
<1>29. Object(owner).fields = owner
  BY DEF Object
<1>30. here.kind = "boolean" /\ here.b
  BY <1>12, <1>13 DEF Boolean_
<1>31. /\ \E present \in find_key_value(owner, "present") : present.b
       /\ find_key_value(owner, "owner_id") = {format_owner_id(id)}
  BY <1>13, <1>30, OwnerShown
<1> QED BY <1>20, <1>26, <1>27, <1>28, <1>29, <1>31 DEF Shows

-----------------------------------------------------------------------------
(* The inductive invariant.                                                *)

Steps == {"ready", "hello", "acquire", "set_state", "get_status", "hold", "release",
          "release_best_effort", "lines", "done"}

\* The daemon: only the client that is connected can own the controller.
Served ==
    /\ app \in DomainValue /\ UnownedIsNeutral(app)
    /\ running \in BOOLEAN /\ starts \in 0 .. MaxStarts
    /\ next_client_id \in Nat \ {0} /\ client_id \in 0 .. next_client_id - 1
    /\ connection = {} => client_id = 0
    /\ connection = {} \/ \E c \in Clients : connection = {c}
    /\ app.lease.has_owner => connection # {} /\ app.lease.owner_client_id = client_id
    /\ ~running => connection = {} /\ backlog = <<>>

\* The variables of the clients are functions of the clients.
ClientTypes ==
    /\ socket \in [Clients -> Sockets]
    /\ exit \in [Clients -> {Running, 0, 2, 3, 4}]
    /\ at \in [Clients -> [step : Steps, sent : BOOLEAN, lines : Nat]]
    /\ DOMAIN requests = Clients /\ DOMAIN responses = DebugClients
    /\ DOMAIN config = DebugClients /\ DOMAIN owner_id = DebugClients
    /\ DOMAIN printed = DebugClients
    /\ \A c \in OtherClients : requests[c] \in Seq(Lines)

\* Who is connected and who waits to be: a client that did not connect yet is
\* neither, nobody waits twice, and a debug client that waits is at its hello.
Queue ==
    /\ \A c \in Clients : at[c].step = "ready" => socket[c] = "none"
    /\ \A c \in connection : socket[c] \in {"open", "client_closed"}
    /\ backlog \in Seq(Clients)
    /\ \A i, j \in 1 .. Len(backlog) : backlog[i] = backlog[j] => i = j
    /\ \A i \in 1 .. Len(backlog) :
        /\ backlog[i] \notin connection
        /\ socket[backlog[i]] \in {"open", "client_closed"}
        /\ backlog[i] \in DebugClients =>
             at[backlog[i]].step = "hello" /\ responses[backlog[i]] = <<>>

\* One request at a time, and its answer.
Conversation(c) ==
    /\ config[c].state \in States
    /\ at[c].sent => Talks(c)
    /\ at[c].step # "lines"
    /\ exit[c] = 0 => at[c].step = "done"
    /\ requests[c] # <<>> => /\ requests[c] = <<Line(c)>> /\ responses[c] = <<>>
                             /\ at[c].sent /\ socket[c] = "open"
    /\ responses[c] # <<>> => at[c].sent /\ \E r \in {responses[c][1]} : responses[c] = <<r>>

\* The current request was not read by the daemon.
Unserved(c) == ~at[c].sent \/ requests[c] # <<>>

\* The answer the client goes on with has arrived.
Granted(c) == responses[c] # <<>> /\ Accepts(at[c].step, responses[c][1])

\* An owner_id is the name of some client id.
IsName(owner) == \E v \in owner : owner = {v} /\ v = format_owner_id(v.id)

Free(c) == c \in connection => ~app.lease.has_owner

Owns(c, owner) ==
    c \in connection => owner = {format_owner_id(client_id)} /\ lease_held_by(app.lease, client_id)

\* How far the client has come, and what the daemon then knows of it.
Progress(c) ==
    /\ at[c].step = "hello" => Free(c)
    /\ at[c].step = "acquire" /\ Unserved(c) => Free(c)
    /\ at[c].step = "acquire" /\ Granted(c) =>
         /\ IsName(response_string(responses[c][1], "owner_id"))
         /\ Owns(c, response_string(responses[c][1], "owner_id"))
         /\ c \in connection => app.lease.last_sequence = 0
    /\ at[c].step \in {"set_state", "get_status", "hold", "release", "release_best_effort"} =>
         IsName(owner_id[c])
    /\ at[c].step = "set_state" /\ Unserved(c) =>
         Owns(c, owner_id[c]) /\ (c \in connection => app.lease.last_sequence = 0)
    /\ at[c].step = "set_state" /\ Granted(c) =>
         Owns(c, owner_id[c]) /\ (c \in connection => app.state = config[c].state)
    /\ at[c].step = "get_status" /\ Unserved(c) =>
         Owns(c, owner_id[c]) /\ (c \in connection => app.state = config[c].state)
    /\ at[c].step = "get_status" /\ Granted(c) =>
         Shows(responses[c][1], config[c].state, owner_id[c])
    /\ at[c].step \in {"hold", "release"} \/ exit[c] = 0 =>
         printed[c] # <<>> /\ Shows(printed[c][1], config[c].state, owner_id[c])
    /\ at[c].step = "release" /\ Granted(c) => Free(c)
    /\ exit[c] = 0 /\ ~config[c].skip_release => Free(c)

IInv ==
    /\ Served
    /\ ClientTypes
    /\ Queue
    /\ \A c \in DebugClients : Conversation(c) /\ Progress(c)

\* A name, and the name itself.
LEMMA NameFacts ==
    /\ \A k : IsName({format_owner_id(k)})
    /\ \A owner : IsName(owner) => \E k : owner = {format_owner_id(k)}
<1>1. ASSUME NEW k PROVE IsName({format_owner_id(k)})
  <2>1. PICK v : v = format_owner_id(k)
    OBVIOUS
  <2>2. v.id = k
    BY <2>1 DEF format_owner_id
  <2>3. IsName({v})
    BY <2>1, <2>2 DEF IsName
  <2> QED BY <2>1, <2>3
<1>2. ASSUME NEW owner, IsName(owner) PROVE \E k : owner = {format_owner_id(k)}
  <2>1. PICK v \in owner : owner = {v} /\ v = format_owner_id(v.id)
    BY <1>2 DEF IsName
  <2>2. PICK k : k = v.id
    OBVIOUS
  <2>3. owner = {format_owner_id(k)}
    BY <2>1, <2>2
  <2> QED BY <2>3
<1> QED BY <1>1, <1>2

\* What the daemon may be sent.
Proper(line) ==
    /\ IsLine(line)
    /\ decode_error(line) = "none" => decode_command(line).state \in States

\* A request of the debug client that is no set_state is proper.
LEMMA RequestIsProper ==
    ASSUME NEW line, NEW type, NEW id, type # "set_state", IsRequest(line, type, id)
    PROVE  Proper(line)
<1>1. PICK command : command = decode_command(line)
  OBVIOUS
<1>2. command.type = type
  BY <1>1, RequestDecoded
<1>3. command.state \in States
  BY <1>1, <1>2, DecodedOther, NeutralAssumption
<1> QED BY <1>1, <1>3 DEF Proper, IsRequest

\* The line of a debug client, step by step.
LEMMA LineFacts ==
    ASSUME NEW c \in DebugClients, Conversation(c), Progress(c)
    PROVE  /\ at[c].step = "hello" => Line(c) = send_hello
           /\ at[c].step = "acquire" => Line(c) = send_acquire
           /\ at[c].step = "get_status" => Line(c) = send_get_status
           /\ at[c].step = "set_state" => \E k :
                /\ owner_id[c] = {format_owner_id(k)}
                /\ Line(c) = send_set_state(format_owner_id(k), config[c].state,
                                            config[c].sequence)
           /\ at[c].step \in {"release", "release_best_effort"} => \E k :
                /\ owner_id[c] = {format_owner_id(k)}
                /\ Line(c) = send_release(format_owner_id(k))
<1>1. PICK step, owner, mine : step = at[c].step /\ owner = OwnerId(c) /\ mine = owner_id[c]
  OBVIOUS
<1>2. /\ step = "hello" => Line(c) = send_hello
      /\ step = "acquire" => Line(c) = send_acquire
      /\ step = "get_status" => Line(c) = send_get_status
      /\ step = "set_state" => Line(c) = send_set_state(owner, config[c].state, config[c].sequence)
      /\ step \in {"release", "release_best_effort"} => Line(c) = send_release(owner)
  BY <1>1 DEF Line
<1>3. ASSUME step \in {"set_state", "release", "release_best_effort"}
      PROVE  \E k : mine = {format_owner_id(k)} /\ owner = format_owner_id(k)
  <2>1. IsName(mine)
    BY <1>1, <1>3 DEF Progress
  <2>2. PICK k : mine = {format_owner_id(k)}
    BY <2>1, NameFacts
  <2>3. owner = CHOOSE v \in mine : TRUE
    BY <1>1 DEF OwnerId
  <2>4. owner = format_owner_id(k)
    BY <2>2, <2>3
  <2> QED BY <2>2, <2>4
<1> QED BY <1>1, <1>2, <1>3

\* Every line of a debug client is proper.
LEMMA LineIsProper ==
    ASSUME NEW c \in DebugClients, Conversation(c), Progress(c), Talks(c),
           at[c].step \in Steps
    PROVE  Proper(Line(c))
<1>1. CASE at[c].step = "hello"
  BY <1>1, LineFacts, HelloIsRequest, RequestIsProper
<1>2. CASE at[c].step = "acquire"
  BY <1>2, LineFacts, AcquireIsRequest, RequestIsProper
<1>3. CASE at[c].step = "get_status"
  BY <1>3, LineFacts, GetStatusIsRequest, RequestIsProper
<1>4. CASE at[c].step \in {"release", "release_best_effort"}
  BY <1>4, LineFacts, ReleaseIsRequest, RequestIsProper
<1>5. CASE at[c].step = "set_state"
  <2>1. PICK state, q : state = config[c].state /\ q = config[c].sequence
    OBVIOUS
  <2>2. PICK k : Line(c) = send_set_state(format_owner_id(k), state, q)
    BY <1>5, <2>1, LineFacts
  <2>3. PICK line, command : line = Line(c) /\ command = decode_command(line)
    OBVIOUS
  <2>4. state \in States
    BY <2>1 DEF Conversation
  <2>5. command.state = state
    BY <2>2, <2>3, <2>4, SetStateDecoded
  <2>6. IsRequest(line, "set_state", "s1")
    BY <2>2, <2>3, SetStateIsRequest
  <2>7. IsLine(line)
    BY <2>6 DEF IsRequest
  <2> QED BY <2>3, <2>4, <2>5, <2>7 DEF Proper
<1>6. at[c].step # "lines"
  BY DEF Conversation
<1> QED BY <1>1, <1>2, <1>3, <1>4, <1>5, <1>6 DEF Talks, Steps

\* Whatever the daemon reads is proper.
LEMMA HeadIsProper ==
    ASSUME IInv, NEW c \in connection, requests[c] # <<>>
    PROVE  /\ c \in Clients /\ connection = {c} /\ Proper(Head(requests[c]))
           /\ c \in DebugClients => /\ requests[c] = <<Line(c)>>
                                    /\ Head(requests[c]) = Line(c) /\ Tail(requests[c]) = <<>>
           /\ c \in OtherClients => Tail(requests[c]) \in Seq(Lines)
<1>1. c \in Clients /\ connection = {c}
  BY DEF IInv, Served
<1>2. CASE c \in DebugClients
  <2>1. Conversation(c) /\ Progress(c) /\ at[c].step \in Steps
    BY <1>1, <1>2 DEF IInv, ClientTypes
  <2>2. requests[c] = <<Line(c)>> /\ Talks(c)
    BY <2>1 DEF Conversation
  <2>3. Proper(Line(c))
    BY <1>2, <2>1, <2>2, LineIsProper
  <2>4. Head(requests[c]) = Line(c) /\ Tail(requests[c]) = <<>>
    BY <2>2
  <2> QED BY <1>1, <1>2, <2>2, <2>3, <2>4, SessionAssumption
<1>3. CASE c \in OtherClients
  <2>1. requests[c] \in Seq(Lines)
    BY <1>3 DEF IInv, ClientTypes
  <2>2. Head(requests[c]) \in Lines /\ Tail(requests[c]) \in Seq(Lines)
    BY <2>1
  <2>3. Proper(Head(requests[c]))
    BY <2>2, InputAssumption DEF Proper
  <2> QED BY <1>1, <1>3, <2>2, <2>3, SessionAssumption
<1> QED BY <1>1, <1>2, <1>3 DEF Clients

-----------------------------------------------------------------------------
(* What leaves a client as it is.                                          *)

\* The variables of a debug client that only its own steps change.
OwnKept(c) ==
    /\ at'[c] = at[c] /\ config'[c] = config[c] /\ owner_id'[c] = owner_id[c]
    /\ printed'[c] = printed[c] /\ exit'[c] = exit[c]

\* A step of somebody else leaves the conversation alone, or takes the request
\* away with the connection.
LEMMA ConversationKept ==
    ASSUME NEW c \in DebugClients, Conversation(c), OwnKept(c), responses'[c] = responses[c],
           \/ requests'[c] = requests[c] /\ socket'[c] = socket[c]
           \/ requests'[c] = <<>>
    PROVE  Conversation(c)'
<1>1. OwnerId(c)' = OwnerId(c)
  BY DEF OwnerId, OwnKept
<1>2. Line(c)' = Line(c)
  BY <1>1 DEF Line, OwnKept
<1>3. Talks(c)' = Talks(c)
  BY DEF Talks, OwnKept
<1> QED BY <1>2, <1>3 DEF Conversation, OwnKept

\* What was reached stays, as long as the controller is left alone or the
\* client is no longer connected.
LEMMA ProgressKept ==
    ASSUME NEW c \in DebugClients, Progress(c), OwnKept(c), responses'[c] = responses[c],
           requests'[c] # <<>> => requests[c] # <<>>,
           \/ c \notin connection'
           \/ c \in connection /\ app' = app /\ client_id' = client_id
    PROVE  Progress(c)'
<1>1. Unserved(c)' => Unserved(c)
  BY DEF Unserved, OwnKept
<1>2. Granted(c)' = Granted(c)
  BY DEF Granted, OwnKept
<1>3. Free(c) => Free(c)'
  BY DEF Free
<1>4. \A owner : Owns(c, owner) => Owns(c, owner)'
  BY DEF Owns
<1> QED BY <1>1, <1>2, <1>3, <1>4 DEF Progress, OwnKept

-----------------------------------------------------------------------------
(* The steps of the daemon.                                                *)

\* Before anything happens.
LEMMA InitHolds == Init => IInv
<1> SUFFICES ASSUME Init PROVE IInv
  OBVIOUS
<1>1. Served
  <2>1. app \in DomainValue /\ UnownedIsNeutral(app) /\ ~app.lease.has_owner
    BY InitFacts DEF Init, UnownedIsNeutral
  <2>2. starts \in 0 .. MaxStarts
    BY SessionAssumption DEF Init
  <2>3. running \in BOOLEAN
    BY DEF Init
  <2>4. /\ next_client_id \in Nat \ {0} /\ client_id \in 0 .. next_client_id - 1
        /\ client_id = 0 /\ connection = {} /\ backlog = <<>>
    BY DEF Init
  <2> QED BY <2>1, <2>2, <2>3, <2>4 DEF Served
<1>2. ClientTypes
  BY DEF Init, ClientTypes, Sockets, Steps, Clients
<1>3. Queue
  BY DEF Init, Queue
<1>4. ASSUME NEW c \in DebugClients PROVE Conversation(c)
  <2>1. config[c].state \in States
    BY NeutralAssumption DEF Init, default_options
  <2> QED BY <2>1 DEF Init, Conversation, Running, Clients
<1>5. ASSUME NEW c \in DebugClients PROVE Progress(c)
  BY DEF Init, Progress, Running, Clients
<1> QED BY <1>1, <1>2, <1>3, <1>4, <1>5 DEF IInv

\* A revocation in the name of the connected client leaves no owner.
LEMMA RevokedFacts ==
    ASSUME Served, NEW reason \in RevokeReasons, NEW id,
           id = client_id \/ (reason = "SHUTDOWN" /\ id = 0),
           NEW after, after = domain_revoke(app, reason, id).app
    PROVE  after \in DomainValue /\ UnownedIsNeutral(after) /\ ~after.lease.has_owner
<1>1. PICK before : before = app
  OBVIOUS
<1>2. before \in DomainValue /\ id \in Nat /\ UnownedIsNeutral(before)
  BY <1>1 DEF Served
<1>3. /\ after \in DomainValue
      /\ \/ after = before /\ reason # "SHUTDOWN" /\ ~lease_held_by(before.lease, id)
         \/ after.lease = lease_init /\ after.state = Neutral
  BY <1>1, <1>2, RevokeFacts
<1>4. CASE after = before /\ reason # "SHUTDOWN" /\ ~lease_held_by(before.lease, id)
  <2>1. ~before.lease.has_owner
    BY <1>1, <1>4 DEF Served, lease_held_by
  <2> QED BY <1>2, <1>4, <2>1
<1>5. CASE after.lease = lease_init /\ after.state = Neutral
  BY <1>3, <1>5, InitFacts DEF UnownedIsNeutral
<1> QED BY <1>3, <1>4, <1>5

\* start.
LEMMA StartKeeps == ASSUME IInv, start PROVE IInv'
<1>1. connection = {} /\ backlog = <<>> /\ client_id = 0
  BY DEF start, IInv, Served
<1>2. Served'
  <2>1. app' \in DomainValue /\ UnownedIsNeutral(app') /\ ~app'.lease.has_owner
    BY InitFacts DEF start, UnownedIsNeutral
  <2>2. starts' \in 0 .. MaxStarts
    BY SessionAssumption DEF start, IInv, Served
  <2> QED BY <1>1, <2>1, <2>2 DEF start, Served
<1>3. ClientTypes'
  BY DEF start, client_vars, IInv, ClientTypes
<1>4. Queue'
  BY DEF start, client_vars, IInv, Queue
<1>5. ASSUME NEW c \in DebugClients PROVE Conversation(c)' /\ Progress(c)'
  <2>1. OwnKept(c) /\ responses'[c] = responses[c] /\ requests'[c] = requests[c]
        /\ socket'[c] = socket[c] /\ c \notin connection'
    BY <1>1 DEF start, client_vars, OwnKept
  <2>2. Conversation(c) /\ Progress(c)
    BY DEF IInv
  <2> QED BY <2>1, <2>2, ConversationKept, ProgressKept
<1> QED BY <1>2, <1>3, <1>4, <1>5 DEF IInv

\* The connection ends: the clients keep what they know.
LEMMA CloseKeeps ==
    ASSUME IInv, NEW S, connection_close(S), UNCHANGED <<responses, client_vars>>,
           \A c \in S : socket[c] \in {"open", "client_closed"},
           \/ backlog' = <<>>
           \/ backlog' = backlog /\ \A i \in 1 .. Len(backlog) : backlog[i] \notin S
    PROVE  /\ ClientTypes' /\ Queue'
           /\ \A c \in DebugClients : Conversation(c)' /\ Progress(c)'
<1>1. /\ socket' = [c \in Clients |-> IF c \in S THEN close_by_server(c) ELSE socket[c]]
      /\ requests' = [c \in Clients |-> IF c \in S THEN <<>> ELSE requests[c]]
      /\ connection' = {}
      /\ at' = at /\ config' = config /\ owner_id' = owner_id /\ printed' = printed
      /\ exit' = exit /\ responses' = responses
  BY DEF connection_close, client_vars
<1>2. ClientTypes'
  <2>1. socket' \in [Clients -> Sockets]
    BY <1>1 DEF close_by_server, Sockets, IInv, ClientTypes
  <2>2. ASSUME NEW c \in OtherClients PROVE requests'[c] \in Seq(Lines)
    BY <1>1 DEF IInv, ClientTypes, Clients
  <2>3. DOMAIN requests' = Clients
    BY <1>1
  <2> QED BY <1>1, <2>1, <2>2, <2>3 DEF ClientTypes, IInv
<1>3. Queue'
  <2>1. ASSUME NEW c \in Clients, at'[c].step = "ready" PROVE socket'[c] = "none"
    BY <1>1, <2>1 DEF IInv, Queue
  <2>2. CASE backlog' = <<>>
    BY <1>1, <2>1, <2>2 DEF Queue
  <2>3. CASE backlog' = backlog /\ \A i \in 1 .. Len(backlog) : backlog[i] \notin S
    <3>1. backlog \in Seq(Clients)
      BY DEF IInv, Queue
    <3>2. ASSUME NEW i \in 1 .. Len(backlog) PROVE socket'[backlog[i]] = socket[backlog[i]]
      BY <1>1, <2>3, <3>1
    <3> QED BY <1>1, <2>1, <2>3, <3>1, <3>2 DEF IInv, Queue
  <2> QED BY <2>2, <2>3
<1>4. ASSUME NEW c \in DebugClients PROVE Conversation(c)' /\ Progress(c)'
  <2>1. OwnKept(c) /\ responses'[c] = responses[c] /\ c \notin connection'
    BY <1>1 DEF OwnKept
  <2>2. \/ requests'[c] = requests[c] /\ socket'[c] = socket[c]
        \/ requests'[c] = <<>>
    BY <1>1 DEF Clients
  <2>3. Conversation(c) /\ Progress(c)
    BY DEF IInv
  <2> QED BY <2>1, <2>2, <2>3, ConversationKept, ProgressKept
<1> QED BY <1>2, <1>3, <1>4

\* stop.
LEMMA StopKeeps == ASSUME IInv, stop PROVE IInv'
<1>1. PICK S : S = connection \union ToSet(backlog)
  OBVIOUS
<1>2. connection_close(S) /\ UNCHANGED <<responses, client_vars>> /\ backlog' = <<>>
      /\ starts' = starts /\ next_client_id' = next_client_id /\ running' = FALSE
  BY <1>1 DEF stop
<1>3. \A c \in S : socket[c] \in {"open", "client_closed"}
  <2>1. ASSUME NEW c \in ToSet(backlog) PROVE socket[c] \in {"open", "client_closed"}
    <3>1. PICK i \in DOMAIN backlog : c = backlog[i]
      BY DEF ToSet
    <3>2. DOMAIN backlog = 1 .. Len(backlog)
      BY DEF IInv, Queue
    <3> QED BY <3>1, <3>2 DEF IInv, Queue
  <2> QED BY <1>1, <2>1 DEF IInv, Queue
<1>4. ClientTypes' /\ Queue' /\ \A c \in DebugClients : Conversation(c)' /\ Progress(c)'
  BY <1>2, <1>3, CloseKeeps
<1>5. app' \in DomainValue /\ UnownedIsNeutral(app') /\ ~app'.lease.has_owner
  <2>1. PICK after : after = app'
    OBVIOUS
  <2>2. Served /\ "DISCONNECT" \in RevokeReasons /\ "SHUTDOWN" \in RevokeReasons
    BY DEF IInv, RevokeReasons
  <2>3. CASE connection # {}
    <3>1. after = domain_revoke(app, "DISCONNECT", client_id).app
      BY <2>1, <2>3 DEF stop
    <3> QED BY <2>1, <2>2, <3>1, RevokedFacts
  <2>4. CASE connection = {}
    <3>1. after = domain_revoke(app, "SHUTDOWN", 0).app
      BY <2>1, <2>4 DEF stop
    <3> QED BY <2>1, <2>2, <3>1, RevokedFacts
  <2> QED BY <2>3, <2>4
<1>6. Served'
  <2>1. connection' = {} /\ client_id' = 0 /\ running' \in BOOLEAN
    BY <1>2 DEF connection_close
  <2>2. /\ next_client_id' \in Nat \ {0} /\ client_id' \in 0 .. next_client_id' - 1
        /\ starts' \in 0 .. MaxStarts
    BY <1>2, <2>1 DEF Served, IInv
  <2> QED BY <1>2, <1>5, <2>1, <2>2 DEF Served
<1> QED BY <1>4, <1>6 DEF IInv

\* The end of a connection, by its client or by a timeout.
LEMMA RevokeKeeps ==
    ASSUME IInv, NEW reason \in RevokeReasons, NEW c \in connection,
           app' = domain_revoke(app, reason, client_id).app, connection_close({c}),
           UNCHANGED <<running, starts, next_client_id, backlog, responses, client_vars>>
    PROVE  IInv'
<1>1. connection = {c} /\ Served
  BY DEF IInv, Served
<1>2. \A d \in {c} : socket[d] \in {"open", "client_closed"}
  BY DEF IInv, Queue
<1>3. \A i \in 1 .. Len(backlog) : backlog[i] \notin {c}
  BY DEF IInv, Queue
<1>4. backlog' = backlog /\ UNCHANGED <<responses, client_vars>>
  OBVIOUS
<1>5. ClientTypes' /\ Queue' /\ \A d \in DebugClients : Conversation(d)' /\ Progress(d)'
  BY <1>2, <1>3, <1>4, CloseKeeps
<1>6. app' \in DomainValue /\ UnownedIsNeutral(app') /\ ~app'.lease.has_owner
  BY <1>1, RevokedFacts
<1>7. Served'
  BY <1>1, <1>6 DEF connection_close, Served
<1> QED BY <1>5, <1>7 DEF IInv

\* accept.
LEMMA AcceptKeeps == ASSUME IInv, accept PROVE IInv'
<1>1. PICK h, rest, n : h = Head(backlog) /\ rest = Tail(backlog) /\ n = Len(backlog)
  OBVIOUS
<1>2. /\ connection = {} /\ connection' = {h} /\ backlog' = rest
      /\ client_id' = next_client_id /\ next_client_id' = next_client_id + 1
      /\ UNCHANGED <<app, running, starts, socket, requests, responses>>
      /\ at' = at /\ config' = config /\ owner_id' = owner_id /\ printed' = printed
      /\ exit' = exit
  BY <1>1 DEF accept, client_vars
<1>3. /\ n \in Nat /\ n > 0 /\ h = backlog[1] /\ h \in Clients
      /\ rest \in Seq(Clients) /\ Len(rest) = n - 1
      /\ \A i \in 1 .. n - 1 : rest[i] = backlog[i + 1]
  BY <1>1 DEF accept, IInv, Queue
<1>4. ~app.lease.has_owner
  BY <1>2 DEF IInv, Served
<1>5. Served'
  <2>1. /\ app' \in DomainValue /\ UnownedIsNeutral(app') /\ running' \in BOOLEAN
        /\ starts' \in 0 .. MaxStarts /\ ~app'.lease.has_owner
    BY <1>2, <1>4 DEF IInv, Served
  <2>2. /\ next_client_id' \in Nat \ {0} /\ client_id' \in 0 .. next_client_id' - 1
    <3>1. next_client_id \in Nat \ {0}
      BY DEF IInv, Served
    <3> QED BY <1>2, <3>1
  <2>3. running' /\ connection' # {} /\ \E c \in Clients : connection' = {c}
    BY <1>2, <1>3 DEF accept
  <2> QED BY <2>1, <2>2, <2>3 DEF Served
<1>6. ClientTypes'
  BY <1>2 DEF IInv, ClientTypes
<1>7. Queue'
  <2>1. \A i, j \in 1 .. n : backlog[i] = backlog[j] => i = j
    BY <1>1 DEF IInv, Queue
  <2>2. ASSUME NEW i \in 1 .. n
        PROVE  /\ socket[backlog[i]] \in {"open", "client_closed"}
               /\ backlog[i] \in DebugClients =>
                    at[backlog[i]].step = "hello" /\ responses[backlog[i]] = <<>>
    BY <1>1 DEF IInv, Queue
  <2>3. ASSUME NEW i \in 1 .. n - 1
        PROVE  /\ rest[i] \notin {h} /\ socket[rest[i]] \in {"open", "client_closed"}
               /\ rest[i] \in DebugClients =>
                    at[rest[i]].step = "hello" /\ responses[rest[i]] = <<>>
    <3>1. rest[i] = backlog[i + 1] /\ i + 1 \in 1 .. n /\ 1 \in 1 .. n /\ i + 1 # 1
      BY <1>3
    <3> QED BY <1>3, <2>1, <2>2, <3>1
  <2>4. \A i, j \in 1 .. n - 1 : rest[i] = rest[j] => i = j
    <3> SUFFICES ASSUME NEW i \in 1 .. n - 1, NEW j \in 1 .. n - 1, rest[i] = rest[j]
                 PROVE  i = j
      OBVIOUS
    <3>1. i + 1 \in 1 .. n /\ j + 1 \in 1 .. n /\ backlog[i + 1] = backlog[j + 1]
      BY <1>3
    <3>2. i + 1 = j + 1
      BY <2>1, <3>1
    <3> QED BY <3>2
  <2>5. socket[h] \in {"open", "client_closed"}
    BY <1>3, <2>2
  <2>6. \A c \in Clients : at[c].step = "ready" => socket[c] = "none"
    BY DEF IInv, Queue
  <2> QED BY <1>2, <1>3, <2>3, <2>4, <2>5, <2>6 DEF Queue
<1>8. ASSUME NEW c \in DebugClients PROVE Conversation(c)' /\ Progress(c)'
  <2>1. OwnKept(c) /\ responses'[c] = responses[c] /\ requests'[c] = requests[c]
        /\ socket'[c] = socket[c]
    BY <1>2 DEF OwnKept
  <2>2. Conversation(c) /\ Progress(c)
    BY DEF IInv
  <2>3. Conversation(c)'
    BY <2>1, <2>2, ConversationKept
  <2>4. CASE c # h
    <3>1. c \notin connection'
      BY <1>2, <2>4
    <3> QED BY <2>1, <2>2, <2>3, <3>1, ProgressKept
  <2>5. CASE c = h
    <3>1. at'[c].step = "hello" /\ exit'[c] # 0
      <4>1. at[c].step = "hello"
        BY <1>1, <1>3, <2>5 DEF IInv, Queue
      <4> QED BY <1>2, <2>2, <4>1 DEF Conversation
    <3>2. Free(c)'
      BY <1>2, <1>4 DEF Free
    <3>3. Progress(c)'
      BY <3>1, <3>2 DEF Progress
    <3> QED BY <2>3, <3>3
  <2> QED BY <2>4, <2>5
<1> QED BY <1>5, <1>6, <1>7, <1>8 DEF IInv

\* What the daemon answers to the line of a debug client that is connected.
LEMMA AnswerFacts ==
    ASSUME IInv, NEW c \in DebugClients, c \in connection, requests[c] # <<>>,
           NEW handled, handled = handle_line(app, client_id, Line(c)),
           app' = handled.app, responses'[c] = handled.sent, requests'[c] = <<>>,
           OwnKept(c), connection' = connection, client_id' = client_id
    PROVE  Progress(c)'
<1>1. PICK a, id, step, state, q, owner :
         /\ a = app /\ id = client_id /\ step = at[c].step
         /\ state = config[c].state /\ q = config[c].sequence /\ owner = owner_id[c]
  OBVIOUS
<1>2. Served /\ Conversation(c) /\ Progress(c)
  BY DEF IInv
<1>3. a \in DomainValue /\ UnownedIsNeutral(a) /\ id \in Nat /\ state \in States
  BY <1>1, <1>2 DEF Served, Conversation
<1>4. PICK line : line = Line(c)
  OBVIOUS
<1>5. handled = handle_line(a, id, line)
  BY <1>1, <1>4
<1>6. /\ at[c].sent /\ Unserved(c) /\ ~Unserved(c)' /\ exit'[c] # 0
      /\ step \in {"hello", "acquire", "set_state", "get_status", "release", "release_best_effort"}
  <2>1. at[c].sent /\ Talks(c) /\ exit[c] # 0 /\ step # "lines"
    BY <1>1, <1>2 DEF Conversation, Talks
  <2>2. step \in Steps
    BY <1>1 DEF IInv, ClientTypes, Clients
  <2> QED BY <1>1, <2>1, <2>2 DEF Unserved, OwnKept, Talks, Steps
<1>7. at'[c].step = step /\ config'[c] = config[c] /\ owner_id'[c] = owner
  BY <1>1 DEF OwnKept
<1>8. step \in {"set_state", "get_status", "hold", "release", "release_best_effort"} => IsName(owner)
  BY <1>1, <1>2 DEF Progress
<1>9. ASSUME Granted(c)'
      PROVE  \E r : handled.sent = <<r>> /\ responses'[c][1] = r /\ Accepts(step, r)
  <2>1. handled.sent # <<>> /\ Accepts(step, responses'[c][1])
    BY <1>7, <1>9 DEF Granted
  <2>2. \E response : handled.sent = encode_response(response)
    BY <1>5, HandledApp
  <2>3. PICK r : handled.sent = <<r>>
    BY <2>1, <2>2, AtMostOneSent
  <2>4. <<r>>[1] = r
    OBVIOUS
  <2> QED BY <2>1, <2>3, <2>4
<1>10. CASE step = "hello"
  <2>1. line = send_hello
    BY <1>1, <1>2, <1>4, <1>10, LineFacts
  <2>2. handled.app = a
    BY <1>3, <1>5, <2>1, HelloAnswer
  <2>3. Free(c)'
    BY <1>1, <1>2, <1>10, <2>2 DEF Progress, Free
  <2> QED BY <1>6, <1>7, <1>10, <2>3 DEF Progress
<1>11. CASE step = "acquire"
  <2>1. line = send_acquire
    BY <1>1, <1>2, <1>4, <1>11, LineFacts
  <2>2. ~a.lease.has_owner
    BY <1>1, <1>2, <1>6, <1>11 DEF Progress, Free
  <2>3. ASSUME Granted(c)'
        PROVE  /\ IsName(response_string(responses[c][1], "owner_id"))'
               /\ Owns(c, response_string(responses[c][1], "owner_id"))'
               /\ app'.lease.last_sequence = 0
    <3>1. PICK r : handled.sent = <<r>> /\ responses'[c][1] = r /\ Accepts(step, r)
      BY <1>9, <2>3
    <3>2. /\ response_string(r, "owner_id") = {format_owner_id(id)}
          /\ lease_held_by(handled.app.lease, id) /\ handled.app.lease.last_sequence = 0
      BY <1>3, <1>5, <1>11, <2>1, <2>2, <3>1, AcquireAnswer
    <3>3. IsName(response_string(r, "owner_id"))
      BY <3>2, NameFacts
    <3>4. Owns(c, response_string(responses[c][1], "owner_id"))'
      BY <1>1, <3>1, <3>2 DEF Owns
    <3> QED BY <3>1, <3>2, <3>3, <3>4
  <2> QED BY <1>6, <1>7, <1>11, <2>3 DEF Progress
<1>12. CASE step = "set_state"
  <2>1. owner = {format_owner_id(id)} /\ lease_held_by(a.lease, id) /\ a.lease.last_sequence = 0
    BY <1>1, <1>2, <1>6, <1>12 DEF Progress, Owns
  <2>2. PICK k : owner = {format_owner_id(k)} /\ line = send_set_state(format_owner_id(k), state, q)
    BY <1>1, <1>2, <1>4, <1>12, LineFacts
  <2>3. format_owner_id(k) = format_owner_id(id)
    BY <2>1, <2>2
  <2>4. line = send_set_state(format_owner_id(id), state, q)
    BY <2>2, <2>3
  <2>5. ASSUME Granted(c)' PROVE Owns(c, owner)' /\ app'.state = state
    <3>1. PICK r : handled.sent = <<r>> /\ Accepts(step, r)
      BY <1>9, <2>5
    <3>2. handled.app.state = state /\ lease_held_by(handled.app.lease, id)
      BY <1>3, <1>5, <1>12, <2>1, <2>4, <3>1, SetStateAnswer
    <3> QED BY <1>1, <2>1, <3>2 DEF Owns
  <2> QED BY <1>1, <1>6, <1>7, <1>8, <1>12, <2>5 DEF Progress
<1>13. CASE step = "get_status"
  <2>1. owner = {format_owner_id(id)} /\ lease_held_by(a.lease, id) /\ a.state = state
    BY <1>1, <1>2, <1>6, <1>13 DEF Progress, Owns
  <2>2. line = send_get_status
    BY <1>1, <1>2, <1>4, <1>13, LineFacts
  <2>3. ASSUME Granted(c)' PROVE Shows(responses'[c][1], state, owner)
    <3>1. PICK r : handled.sent = <<r>> /\ responses'[c][1] = r /\ Accepts(step, r)
      BY <1>9, <2>3
    <3>2. ~response_contains(r, "error")
      BY <3>1 DEF Accepts
    <3>3. Shows(r, a.state, {format_owner_id(id)})
      BY <1>3, <1>5, <2>1, <2>2, <3>1, <3>2, StatusAnswer
    <3> QED BY <2>1, <3>1, <3>3
  <2> QED BY <1>1, <1>6, <1>7, <1>8, <1>13, <2>3 DEF Progress
<1>14. CASE step = "release"
  <2>1. PICK k : line = send_release(format_owner_id(k))
    BY <1>1, <1>2, <1>4, <1>14, LineFacts
  <2>2. ASSUME Granted(c)' PROVE Free(c)'
    <3>1. PICK r : handled.sent = <<r>> /\ Accepts(step, r)
      BY <1>9, <2>2
    <3>2. ~response_contains(r, "error")
      BY <3>1 DEF Accepts
    <3>3. ~handled.app.lease.has_owner
      BY <1>3, <1>5, <2>1, <3>1, <3>2, ReleaseAnswer
    <3> QED BY <3>3 DEF Free
  <2>3. printed'[c] # <<>> /\ Shows(printed'[c][1], state, owner)
    BY <1>1, <1>2, <1>14 DEF Progress, OwnKept
  <2> QED BY <1>1, <1>6, <1>7, <1>8, <1>14, <2>2, <2>3 DEF Progress
<1>15. CASE step = "release_best_effort"
  BY <1>6, <1>7, <1>8, <1>15 DEF Progress
<1> QED BY <1>6, <1>10, <1>11, <1>12, <1>13, <1>14, <1>15

\* serve_line.
LEMMA ServeLineKeeps == ASSUME IInv, NEW c \in Clients, serve_line(c) PROVE IInv'
<1>1. PICK handled :
         /\ handled = handle_line(app, client_id, Head(requests[c])) /\ app' = handled.app
         /\ responses' = IF c \in DebugClients /\ socket[c] = "open"
                         THEN [responses EXCEPT ![c] = @ \o handled.sent]
                         ELSE responses
  BY DEF serve_line
<1>2. /\ c \in connection /\ requests[c] # <<>>
      /\ requests' = [requests EXCEPT ![c] = Tail(@)]
      /\ UNCHANGED <<running, starts, next_client_id, backlog, connection, client_id, socket>>
      /\ at' = at /\ config' = config /\ owner_id' = owner_id /\ printed' = printed
      /\ exit' = exit
  BY DEF serve_line, client_vars
<1>3. /\ connection = {c} /\ Proper(Head(requests[c]))
      /\ c \in DebugClients => /\ requests[c] = <<Line(c)>>
                               /\ Head(requests[c]) = Line(c) /\ Tail(requests[c]) = <<>>
      /\ c \in OtherClients => Tail(requests[c]) \in Seq(Lines)
  BY <1>2, HeadIsProper
<1>4. Served'
  <2>1. PICK a, id, line : a = app /\ id = client_id /\ line = Head(requests[c])
    OBVIOUS
  <2>2. a \in DomainValue /\ UnownedIsNeutral(a) /\ id \in Nat
    BY <2>1 DEF IInv, Served
  <2>3. PICK after : after = handle_line(a, id, line).app
    OBVIOUS
  <2>4. HandledWell(a, after, id, line)
    BY <1>3, <2>1, <2>2, <2>3, HandleFacts DEF Proper
  <2>5. app' = after
    BY <1>1, <2>1, <2>3
  <2>6. after \in DomainValue /\ UnownedIsNeutral(after)
    BY <2>2, <2>4 DEF HandledWell
  <2>7. after.lease.has_owner => after.lease.owner_client_id = id
    BY <2>1, <2>4 DEF HandledWell, IInv, Served
  <2> QED BY <1>2, <1>3, <2>1, <2>5, <2>6, <2>7 DEF IInv, Served
<1>5. DOMAIN requests = Clients /\ DOMAIN responses = DebugClients
  BY DEF IInv, ClientTypes
<1>6. /\ requests'[c] = Tail(requests[c])
      /\ \A d \in Clients : d # c => requests'[d] = requests[d]
      /\ \A d \in DebugClients : d # c => responses'[d] = responses[d]
      /\ DOMAIN requests' = Clients /\ DOMAIN responses' = DebugClients
  BY <1>1, <1>2, <1>5
<1>7. ClientTypes'
  <2>1. ASSUME NEW d \in OtherClients PROVE requests'[d] \in Seq(Lines)
    BY <1>3, <1>6 DEF IInv, ClientTypes, Clients
  <2> QED BY <1>2, <1>6, <2>1 DEF IInv, ClientTypes
<1>8. Queue'
  <2>1. ASSUME NEW i \in 1 .. Len(backlog), backlog[i] \in DebugClients
        PROVE  at[backlog[i]].step = "hello" /\ responses'[backlog[i]] = <<>>
    BY <1>2, <1>6, <2>1 DEF IInv, Queue
  <2> QED BY <1>2, <2>1 DEF IInv, Queue
<1>9. ASSUME NEW d \in DebugClients PROVE Conversation(d)' /\ Progress(d)'
  <2>1. Conversation(d) /\ Progress(d) /\ OwnKept(d)
    BY <1>2 DEF IInv, OwnKept
  <2>2. CASE d # c
    <3>1. responses'[d] = responses[d] /\ requests'[d] = requests[d] /\ socket'[d] = socket[d]
          /\ d \notin connection'
      BY <1>2, <1>3, <1>6, <2>2 DEF Clients
    <3> QED BY <2>1, <3>1, ConversationKept, ProgressKept
  <2>3. CASE d = c
    <3>1. requests'[c] = <<>> /\ responses[c] = <<>> /\ at[c].sent /\ socket[c] = "open"
      BY <1>2, <1>3, <1>6, <2>1, <2>3 DEF Conversation
    <3>2. handled = handle_line(app, client_id, Line(c))
      BY <1>1, <1>3, <2>3
    <3>3. PICK response : handled.sent = encode_response(response)
      <4>1. PICK a, id, line : a = app /\ id = client_id /\ line = Line(c)
        OBVIOUS
      <4>2. handled = handle_line(a, id, line)
        BY <3>2, <4>1
      <4> QED BY <4>2, HandledApp
    <3>4. handled.sent = <<>> \/ \E r : handled.sent = <<r>>
      BY <3>3, AtMostOneSent
    <3>5. responses'[c] = handled.sent
      <4>1. responses'[c] = <<>> \o handled.sent
        BY <1>1, <1>5, <2>3, <3>1
      <4>2. <<>> \o handled.sent = handled.sent
        BY <3>4
      <4> QED BY <4>1, <4>2
    <3>6. Progress(c)'
      BY <1>1, <1>2, <2>1, <2>3, <3>1, <3>2, <3>5, AnswerFacts
    <3>7. responses'[c] # <<>> => \E r \in {responses'[c][1]} : responses'[c] = <<r>>
      BY <3>4, <3>5
    <3>8. Talks(c)' = Talks(c)
      BY <1>2 DEF Talks
    <3>9. Conversation(c)'
      BY <1>2, <2>1, <2>3, <3>1, <3>7, <3>8 DEF Conversation
    <3> QED BY <2>3, <3>6, <3>9
  <2> QED BY <2>2, <2>3
<1> QED BY <1>4, <1>7, <1>8, <1>9 DEF IInv

\* The poll of the daemon.
LEMMA PollKeeps == ASSUME IInv, poll_once_at PROVE IInv'
<1>1. CASE accept
  BY <1>1, AcceptKeeps
<1>2. ASSUME NEW c \in Clients, serve_line(c) PROVE IInv'
  BY <1>2, ServeLineKeeps
<1>3. ASSUME NEW c \in Clients, serve_disconnect(c) PROVE IInv'
  BY <1>3, RevokeKeeps DEF serve_disconnect, RevokeReasons
<1>4. ASSUME NEW c \in Clients, poll_heartbeat(c) PROVE IInv'
  BY <1>4, RevokeKeeps DEF poll_heartbeat, RevokeReasons
<1> QED BY <1>1, <1>2, <1>3, <1>4 DEF poll_once_at, poll_serves

-----------------------------------------------------------------------------
(* The steps of the clients.                                               *)

\* A client that was not connected joins the queue, at its end.
LEMMA ConnectKeeps ==
    ASSUME IInv, NEW c \in Clients, at[c].step = "ready", connect(c), connection' = connection,
           responses' = responses, \A d \in Clients : d # c => at'[d] = at[d],
           at'[c].step # "ready",
           c \in DebugClients => at'[c].step = "hello" /\ responses[c] = <<>>
    PROVE  socket' \in [Clients -> Sockets] /\ Queue'
<1>1. PICK n : n = Len(backlog)
  OBVIOUS
<1>2. /\ socket \in [Clients -> Sockets] /\ backlog \in Seq(Clients) /\ n \in Nat
      /\ socket' = [socket EXCEPT ![c] = "open"] /\ backlog' = Append(backlog, c)
  BY <1>1 DEF IInv, ClientTypes, Queue, connect
<1>3. /\ \A i, j \in 1 .. n : backlog[i] = backlog[j] => i = j
      /\ \A i \in 1 .. n :
           /\ backlog[i] \notin connection
           /\ socket[backlog[i]] \in {"open", "client_closed"}
           /\ backlog[i] \in DebugClients =>
                at[backlog[i]].step = "hello" /\ responses[backlog[i]] = <<>>
  BY <1>1 DEF IInv, Queue
<1>4. socket[c] = "none" /\ c \notin connection
  BY DEF IInv, Queue
<1>5. \A i \in 1 .. n : backlog[i] # c /\ backlog[i] \in Clients
  BY <1>1, <1>2, <1>3, <1>4
<1>6. /\ socket' \in [Clients -> Sockets] /\ socket'[c] = "open"
      /\ \A d \in Clients : d # c => socket'[d] = socket[d]
  BY <1>2 DEF Sockets
<1>7. /\ backlog' \in Seq(Clients) /\ Len(backlog') = n + 1 /\ backlog'[n + 1] = c
      /\ \A i \in 1 .. n : backlog'[i] = backlog[i]
  BY <1>1, <1>2
<1>8. \A i, j \in 1 .. n + 1 : backlog'[i] = backlog'[j] => i = j
  <2> SUFFICES ASSUME NEW i \in 1 .. n + 1, NEW j \in 1 .. n + 1, backlog'[i] = backlog'[j]
               PROVE  i = j
    OBVIOUS
  <2>1. (i \in 1 .. n \/ i = n + 1) /\ (j \in 1 .. n \/ j = n + 1)
    BY <1>2
  <2> QED BY <1>3, <1>5, <1>7, <2>1
<1>9. ASSUME NEW i \in 1 .. n + 1
      PROVE  /\ backlog'[i] \notin connection'
             /\ socket'[backlog'[i]] \in {"open", "client_closed"}
             /\ backlog'[i] \in DebugClients =>
                  at'[backlog'[i]].step = "hello" /\ responses'[backlog'[i]] = <<>>
  <2>1. CASE i = n + 1
    BY <1>4, <1>6, <1>7, <2>1
  <2>2. CASE i \in 1 .. n
    <3>1. PICK d : d = backlog[i]
      OBVIOUS
    <3>2. backlog'[i] = d /\ d # c /\ d \in Clients
      BY <1>5, <1>7, <2>2, <3>1
    <3>3. socket'[d] = socket[d] /\ at'[d] = at[d]
      BY <1>6, <3>2
    <3> QED BY <1>3, <2>2, <3>1, <3>2, <3>3
  <2>3. i = n + 1 \/ i \in 1 .. n
    BY <1>2
  <2> QED BY <2>1, <2>2, <2>3
<1>10. \A d \in Clients : at'[d].step = "ready" => socket'[d] = "none"
  BY <1>6 DEF IInv, Queue
<1>11. \A d \in connection' : socket'[d] \in {"open", "client_closed"}
  <2> SUFFICES ASSUME NEW d \in connection PROVE socket'[d] \in {"open", "client_closed"}
    OBVIOUS
  <2>1. d \in Clients /\ d # c
    BY <1>4 DEF IInv, Served
  <2> QED BY <1>6, <2>1 DEF IInv, Queue
<1>12. Queue'
  BY <1>7, <1>8, <1>9, <1>10, <1>11 DEF Queue
<1> QED BY <1>6, <1>12

\* The other clients and the daemon are left alone.
OthersKept(c) ==
    /\ \A d \in Clients : d # c =>
         /\ at'[d] = at[d] /\ socket'[d] = socket[d] /\ exit'[d] = exit[d]
         /\ requests'[d] = requests[d]
    /\ \A d \in DebugClients : d # c =>
         /\ config'[d] = config[d] /\ owner_id'[d] = owner_id[d] /\ printed'[d] = printed[d]
         /\ responses'[d] = responses[d]

\* A step of one client leaves the others where they are.
LEMMA OthersStay ==
    ASSUME IInv, NEW c \in Clients, OthersKept(c), UNCHANGED <<app, connection, client_id>>,
           NEW d \in DebugClients, d # c
    PROVE  Conversation(d)' /\ Progress(d)'
<1>1. d \in Clients /\ Conversation(d) /\ Progress(d)
  BY DEF IInv, Clients
<1>2. OwnKept(d) /\ responses'[d] = responses[d] /\ requests'[d] = requests[d]
      /\ socket'[d] = socket[d]
  BY <1>1 DEF OthersKept, OwnKept
<1>3. \/ d \notin connection'
      \/ d \in connection /\ app' = app /\ client_id' = client_id
  OBVIOUS
<1>4. Conversation(d)'
  BY <1>1, <1>2, ConversationKept
<1>5. Progress(d)'
  BY <1>1, <1>2, <1>3, ProgressKept
<1> QED BY <1>4, <1>5

\* A step of a client that leaves the queue as it is.
LEMMA OwnStepKeeps ==
    ASSUME IInv, NEW c \in Clients, UNCHANGED server_vars, ClientTypes', OthersKept(c),
           at'[c].step # "ready",
           socket[c] \in {"open", "client_closed"} => socket'[c] \in {"open", "client_closed"},
           \A i \in 1 .. Len(backlog) : backlog[i] = c =>
                (c \in DebugClients => at'[c].step = "hello" /\ responses'[c] = <<>>),
           c \in DebugClients => Conversation(c)' /\ Progress(c)'
    PROVE  IInv'
<1>1. UNCHANGED <<app, running, starts, next_client_id, backlog, connection, client_id>>
  BY DEF server_vars
<1>2. Served'
  BY <1>1 DEF IInv, Served
<1>3. Queue'
  <2>1. \A d \in Clients : at'[d].step = "ready" => socket'[d] = "none"
    BY DEF IInv, Queue, OthersKept
  <2>2. ASSUME NEW d \in Clients, socket[d] \in {"open", "client_closed"}
        PROVE  socket'[d] \in {"open", "client_closed"}
    BY <2>2 DEF OthersKept
  <2>3. \A d \in connection : socket'[d] \in {"open", "client_closed"}
    <3> SUFFICES ASSUME NEW d \in connection PROVE socket'[d] \in {"open", "client_closed"}
      OBVIOUS
    <3>1. d \in Clients
      BY DEF IInv, Served
    <3>2. socket[d] \in {"open", "client_closed"}
      BY DEF IInv, Queue
    <3> QED BY <2>2, <3>1, <3>2
  <2>4. ASSUME NEW i \in 1 .. Len(backlog)
        PROVE  /\ backlog[i] \notin connection
               /\ socket'[backlog[i]] \in {"open", "client_closed"}
               /\ backlog[i] \in DebugClients =>
                    at'[backlog[i]].step = "hello" /\ responses'[backlog[i]] = <<>>
    <3>1. PICK d : d = backlog[i]
      OBVIOUS
    <3>2. /\ d \in Clients /\ d \notin connection /\ socket[d] \in {"open", "client_closed"}
          /\ d \in DebugClients => at[d].step = "hello" /\ responses[d] = <<>>
      BY <3>1 DEF IInv, Queue
    <3>3. socket'[d] \in {"open", "client_closed"}
      BY <2>2, <3>2
    <3>4. d \in DebugClients => at'[d].step = "hello" /\ responses'[d] = <<>>
      BY <3>1, <3>2 DEF OthersKept
    <3> QED BY <3>1, <3>2, <3>3, <3>4
  <2>5. backlog \in Seq(Clients) /\ \A i, j \in 1 .. Len(backlog) : backlog[i] = backlog[j] => i = j
    BY DEF IInv, Queue
  <2> QED BY <1>1, <2>1, <2>3, <2>4, <2>5 DEF Queue
<1>4. ASSUME NEW d \in DebugClients PROVE Conversation(d)' /\ Progress(d)'
  BY <1>1, OthersStay
<1> QED BY <1>2, <1>3, <1>4 DEF IInv

\* The client goes to another step, with its code and what is left of its socket.
Moved(c, step, code) ==
    /\ at'[c].step = step /\ at'[c].sent = FALSE /\ exit'[c] = code
    /\ at' \in [Clients -> [step : Steps, sent : BOOLEAN, lines : Nat]]
    /\ socket' \in [Clients -> Sockets] /\ exit' \in [Clients -> {Running, 0, 2, 3, 4}]
    /\ \A d \in Clients : d # c => at'[d] = at[d] /\ socket'[d] = socket[d] /\ exit'[d] = exit[d]
    /\ socket[c] \in {"open", "client_closed"} => socket'[c] \in {"open", "client_closed"}

\* go_to and finish.
LEMMA MoveFacts ==
    ASSUME ClientTypes, NEW c \in Clients
    PROVE  /\ \A step \in Steps : go_to(c, step) => Moved(c, step, exit[c])
           /\ \A code \in {0, 4} : finish(c, code) => Moved(c, "done", code)
<1>1. /\ at \in [Clients -> [step : Steps, sent : BOOLEAN, lines : Nat]]
      /\ socket \in [Clients -> Sockets] /\ exit \in [Clients -> {Running, 0, 2, 3, 4}]
  BY DEF ClientTypes
<1>2. ASSUME NEW step \in Steps, at' = [at EXCEPT ![c].step = step, ![c].sent = FALSE]
      PROVE  /\ at' \in [Clients -> [step : Steps, sent : BOOLEAN, lines : Nat]]
             /\ at'[c].step = step /\ at'[c].sent = FALSE
             /\ \A d \in Clients : d # c => at'[d] = at[d]
  BY <1>1, <1>2
<1>3. ASSUME NEW step \in Steps, go_to(c, step) PROVE Moved(c, step, exit[c])
  BY <1>1, <1>2, <1>3 DEF go_to, Moved
<1>4. ASSUME NEW code \in {0, 4}, finish(c, code) PROVE Moved(c, "done", code)
  <2>1. /\ at' \in [Clients -> [step : Steps, sent : BOOLEAN, lines : Nat]]
        /\ at'[c].step = "done" /\ at'[c].sent = FALSE
        /\ \A d \in Clients : d # c => at'[d] = at[d]
    BY <1>2, <1>4 DEF finish, Steps
  <2>2. /\ exit' \in [Clients -> {Running, 0, 2, 3, 4}] /\ exit'[c] = code
        /\ \A d \in Clients : d # c => exit'[d] = exit[d]
    BY <1>1, <1>4 DEF finish
  <2>3. /\ close_by_client(c) \in Sockets
        /\ socket[c] \in {"open", "client_closed"} =>
             close_by_client(c) \in {"open", "client_closed"}
    BY <1>1 DEF close_by_client, Sockets
  <2>4. /\ socket' \in [Clients -> Sockets] /\ socket'[c] = close_by_client(c)
        /\ \A d \in Clients : d # c => socket'[d] = socket[d]
    BY <1>1, <1>4, <2>3 DEF finish
  <2> QED BY <2>1, <2>2, <2>3, <2>4 DEF Moved
<1> QED BY <1>3, <1>4

\* fail: one more attempt to release, or the end.
LEMMA FailFacts ==
    ASSUME ClientTypes, NEW c \in Clients, fail(c)
    PROVE  \/ /\ at[c].step \in {"set_state", "get_status"}
              /\ Moved(c, "release_best_effort", exit[c])
           \/ Moved(c, "done", 4)
BY MoveFacts DEF fail, Steps

\* The debug client fails: whatever was under way is over.
LEMMA FailKeeps ==
    ASSUME IInv, NEW c \in DebugClients, fail(c), Talks(c), UNCHANGED server_vars,
           UNCHANGED <<requests, config, owner_id, printed>>, requests[c] = <<>>,
           DOMAIN responses' = DebugClients, responses'[c] = <<>>,
           \A d \in DebugClients : d # c => responses'[d] = responses[d],
           \A i \in 1 .. Len(backlog) : backlog[i] # c
    PROVE  IInv'
<1>1. c \in Clients /\ ClientTypes /\ Conversation(c) /\ Progress(c)
  BY DEF IInv, Clients
<1>2. PICK step, code : /\ Moved(c, step, code)
                        /\ \/ step = "done" /\ code = 4
                           \/ /\ at[c].step \in {"set_state", "get_status"}
                              /\ step = "release_best_effort" /\ code = exit[c]
  BY <1>1, FailFacts
<1>3. code # 0
  BY <1>1, <1>2 DEF Conversation
<1>4. ClientTypes'
  BY <1>1, <1>2 DEF ClientTypes, Moved
<1>5. OthersKept(c)
  BY <1>1, <1>2 DEF OthersKept, Moved
<1>6. Conversation(c)'
  BY <1>1, <1>2, <1>3 DEF Conversation, Moved
<1>7. Progress(c)'
  <2>1. ~Granted(c)' /\ at'[c].step = step /\ exit'[c] # 0
    BY <1>2, <1>3 DEF Granted, Moved
  <2>2. step = "release_best_effort" => IsName(owner_id[c])
    BY <1>1, <1>2 DEF Progress
  <2> QED BY <1>2, <2>1, <2>2 DEF Progress
<1>8. at'[c].step # "ready"
      /\ (socket[c] \in {"open", "client_closed"} => socket'[c] \in {"open", "client_closed"})
  BY <1>2 DEF Moved
<1> QED BY <1>1, <1>4, <1>5, <1>6, <1>7, <1>8, OwnStepKeeps

\* launch.
LEMMA LaunchKeeps == ASSUME IInv, NEW c \in DebugClients, launch(c) PROVE IInv'
<1>1. c \in Clients /\ ClientTypes /\ Conversation(c) /\ Progress(c)
  BY DEF IInv, Clients
<1>2. PICK argv \in Argvs :
          LET parsed == parse_args(argv)
              code == IF ~parsed.ok THEN 2 ELSE IF ~running THEN 3 ELSE Running
          IN  /\ exit' = [exit EXCEPT ![c] = code]
              /\ at' = [at EXCEPT ![c].step = IF code = Running THEN "hello" ELSE "done"]
              /\ config' = IF parsed.ok THEN [config EXCEPT ![c] = parsed.options] ELSE config
              /\ IF code = Running THEN connect(c) ELSE UNCHANGED <<socket, backlog>>
  BY DEF launch
<1>3. PICK parsed : parsed = parse_args(argv)
  OBVIOUS
<1>4. PICK code : code = IF ~parsed.ok THEN 2 ELSE IF ~running THEN 3 ELSE Running
  OBVIOUS
<1>5. /\ exit' = [exit EXCEPT ![c] = code]
      /\ at' = [at EXCEPT ![c].step = IF code = Running THEN "hello" ELSE "done"]
      /\ config' = IF parsed.ok THEN [config EXCEPT ![c] = parsed.options] ELSE config
      /\ IF code = Running THEN connect(c) ELSE UNCHANGED <<socket, backlog>>
  BY <1>2, <1>3, <1>4, Zenon
<1>6. /\ at[c].step = "ready"
      /\ UNCHANGED <<app, running, starts, next_client_id, connection, client_id, requests,
                     responses, owner_id, printed>>
  BY DEF launch
<1>7. /\ socket[c] = "none" /\ c \notin connection /\ requests[c] = <<>>
      /\ at[c].sent = FALSE /\ responses[c] = <<>>
  <2>1. socket[c] = "none" /\ c \notin connection
    BY <1>1, <1>6 DEF IInv, Queue
  <2>2. at[c].sent \in BOOLEAN
    BY <1>1 DEF ClientTypes
  <2> QED BY <1>1, <1>6, <2>1, <2>2 DEF Conversation, Talks
<1>8. /\ code \in {Running, 2, 3}
      /\ exit' \in [Clients -> {Running, 0, 2, 3, 4}] /\ exit'[c] = code
      /\ \A d \in Clients : d # c => exit'[d] = exit[d]
  BY <1>1, <1>5, <1>4 DEF ClientTypes, Running
<1>9. /\ at' \in [Clients -> [step : Steps, sent : BOOLEAN, lines : Nat]]
      /\ at'[c].step = (IF code = Running THEN "hello" ELSE "done") /\ at'[c].sent = at[c].sent
      /\ \A d \in Clients : d # c => at'[d] = at[d]
  BY <1>1, <1>5 DEF ClientTypes, Steps
<1>10. /\ DOMAIN config' = DebugClients /\ config'[c].state \in States
      /\ \A d \in DebugClients : d # c => config'[d] = config[d]
  <2>1. CASE parsed.ok
    <3>1. parsed.options.state \in States
      BY <1>3, <2>1, InputAssumption
    <3> QED BY <1>1, <1>5, <2>1, <3>1 DEF ClientTypes
  <2>2. CASE ~parsed.ok
    BY <1>1, <1>5, <2>2 DEF ClientTypes, Conversation
  <2> QED BY <2>1, <2>2
<1>11. socket' \in [Clients -> Sockets] /\ Queue'
      /\ (~running => connection' = {} /\ backlog' = <<>>)
  <2>1. CASE code = Running
    <3>1. connect(c) /\ at'[c].step = "hello"
      BY <1>5, <1>9, <2>1
    <3>2. running
      BY <1>4, <2>1 DEF Running
    <3> QED BY <1>1, <1>6, <1>7, <1>9, <3>1, <3>2, ConnectKeeps
  <2>2. CASE code # Running
    <3>1. UNCHANGED <<socket, backlog>> /\ at'[c].step = "done"
      BY <1>5, <1>9, <2>2
    <3>2. \A d \in Clients : at'[d].step = "ready" => socket'[d] = "none"
      BY <1>9, <3>1 DEF IInv, Queue
    <3>3. \A i \in 1 .. Len(backlog) : backlog[i] # c /\ backlog[i] \in Clients
      BY <1>7 DEF IInv, Queue
    <3>4. ASSUME NEW i \in 1 .. Len(backlog) PROVE at'[backlog[i]] = at[backlog[i]]
      BY <1>9, <3>3
    <3>5. Queue'
      BY <1>6, <3>1, <3>2, <3>4 DEF IInv, Queue
    <3>6. socket' \in [Clients -> Sockets] /\ (~running => connection' = {} /\ backlog' = <<>>)
      BY <1>1, <1>6, <3>1 DEF IInv, Served, ClientTypes
    <3> QED BY <3>5, <3>6
  <2> QED BY <2>1, <2>2
<1>12. \A d \in Clients : d # c => socket'[d] = socket[d]
  BY <1>1, <1>5 DEF connect, ClientTypes
<1>13. Served'
  BY <1>6, <1>11 DEF IInv, Served
<1>14. ClientTypes'
  BY <1>1, <1>6, <1>8, <1>9, <1>10, <1>11 DEF ClientTypes
<1>15. OthersKept(c)
  BY <1>6, <1>8, <1>9, <1>10, <1>12 DEF OthersKept
<1>16. ASSUME NEW d \in DebugClients, d # c PROVE Conversation(d)' /\ Progress(d)'
  BY <1>1, <1>6, <1>15, <1>16, OthersStay
<1>17. Conversation(c)'
  BY <1>6, <1>7, <1>8, <1>9, <1>10 DEF Conversation, Running
<1>18. Progress(c)'
  <2>1. ~Granted(c)' /\ Free(c)' /\ exit'[c] # 0 /\ at'[c].step \in {"hello", "done"}
    BY <1>6, <1>7, <1>8, <1>9 DEF Granted, Free, Running
  <2> QED BY <2>1 DEF Progress
<1> QED BY <1>11, <1>13, <1>14, <1>16, <1>17, <1>18 DEF IInv

\* A client in the queue has its socket open and sent nothing but its hello.
LEMMA QueuedFacts ==
    ASSUME IInv, NEW c \in DebugClients,
           socket[c] = "server_closed" \/ responses[c] # <<>> \/ at[c].step # "hello"
    PROVE  \A i \in 1 .. Len(backlog) : backlog[i] # c
BY DEF IInv, Queue

\* send: the line is on its way, or lost.
LEMMA SendKeeps ==
    ASSUME IInv, NEW c \in DebugClients, Talks(c), ~at[c].sent, UNCHANGED server_vars,
           UNCHANGED <<responses, config, owner_id, printed, exit, socket>>,
           at' = [at EXCEPT ![c].sent = TRUE],
           requests' = IF socket[c] = "open"
                       THEN [requests EXCEPT ![c] = Append(@, Line(c))]
                       ELSE requests
    PROVE  IInv'
<1>1. c \in Clients /\ ClientTypes /\ Conversation(c) /\ Progress(c) /\ c \notin OtherClients
  BY SessionAssumption DEF IInv, Clients
<1>2. requests[c] = <<>> /\ responses[c] = <<>>
  BY <1>1 DEF Conversation
<1>3. /\ at' \in [Clients -> [step : Steps, sent : BOOLEAN, lines : Nat]]
      /\ at'[c].sent = TRUE /\ at'[c].step = at[c].step
      /\ \A d \in Clients : d # c => at'[d] = at[d]
  BY <1>1 DEF ClientTypes
<1>4. /\ DOMAIN requests' = Clients /\ \A d \in Clients : d # c => requests'[d] = requests[d]
      /\ \/ requests'[c] = <<>>
         \/ socket[c] = "open" /\ requests'[c] = Append(<<>>, Line(c))
  BY <1>1, <1>2 DEF ClientTypes
<1>5. PICK line : line = Line(c)
  OBVIOUS
<1>6. Append(<<>>, line) = <<line>>
  OBVIOUS
<1>7. OwnerId(c)' = OwnerId(c)
  BY DEF OwnerId
<1>8. Line(c)' = Line(c)
  BY <1>3, <1>7 DEF Line
<1>9. requests'[c] = <<>> \/ (socket'[c] = "open" /\ requests'[c] = <<Line(c)'>>)
  BY <1>4, <1>5, <1>6, <1>8
<1>10. Talks(c)' /\ at'[c].step \notin {"lines", "ready"}
  BY <1>1, <1>3 DEF Talks, Conversation
<1>11. Conversation(c)'
  BY <1>1, <1>2, <1>3, <1>9, <1>10 DEF Conversation
<1>12. Progress(c)'
  <2>1. Unserved(c) /\ ~Granted(c)'
    BY <1>2 DEF Unserved, Granted
  <2>2. Free(c)' = Free(c) /\ Owns(c, owner_id[c])' = Owns(c, owner_id[c])
    BY DEF Free, Owns, server_vars
  <2>3. app' = app /\ connection' = connection
    BY DEF server_vars
  <2> QED BY <1>1, <1>3, <2>1, <2>2, <2>3 DEF Progress
<1>13. OthersKept(c)
  BY <1>3, <1>4 DEF OthersKept
<1>14. ClientTypes'
  <2>1. ASSUME NEW d \in OtherClients PROVE requests'[d] \in Seq(Lines)
    BY <1>1, <1>4 DEF ClientTypes, Clients
  <2> QED BY <1>1, <1>3, <1>4, <2>1 DEF ClientTypes
<1>15. \A i \in 1 .. Len(backlog) : backlog[i] = c => at'[c].step = "hello" /\ responses'[c] = <<>>
  BY <1>2, <1>3 DEF IInv, Queue
<1>16. socket[c] \in {"open", "client_closed"} => socket'[c] \in {"open", "client_closed"}
  OBVIOUS
<1> QED BY <1>1, <1>10, <1>11, <1>12, <1>13, <1>14, <1>15, <1>16, OwnStepKeeps

\* send, or what becomes of it once the daemon has closed the connection.
LEMMA SendStepKeeps == ASSUME IInv, NEW c \in DebugClients, send(c) PROVE IInv'
<1>1. Talks(c) /\ ~at[c].sent /\ UNCHANGED server_vars
      /\ UNCHANGED <<responses, config, owner_id, printed>>
  BY DEF send
<1>2. Conversation(c) /\ ClientTypes
  BY DEF IInv
<1>3. requests[c] = <<>> /\ responses[c] = <<>>
  BY <1>1, <1>2 DEF Conversation
<1>4. CASE socket[c] = "server_closed" /\ fail(c) /\ UNCHANGED requests
  <2>1. \A i \in 1 .. Len(backlog) : backlog[i] # c
    BY <1>4, QueuedFacts
  <2>2. DOMAIN responses' = DebugClients /\ responses'[c] = <<>>
        /\ \A d \in DebugClients : d # c => responses'[d] = responses[d]
    BY <1>1, <1>2, <1>3 DEF ClientTypes
  <2>3. UNCHANGED <<requests, config, owner_id, printed>>
    BY <1>1, <1>4
  <2> QED BY <1>1, <1>3, <1>4, <2>1, <2>2, <2>3, FailKeeps
<1>5. CASE /\ at' = [at EXCEPT ![c].sent = TRUE]
           /\ requests' = IF socket[c] = "open"
                          THEN [requests EXCEPT ![c] = Append(@, Line(c))]
                          ELSE requests
           /\ UNCHANGED <<exit, socket>>
  <2>1. UNCHANGED <<responses, config, owner_id, printed, exit, socket>>
    BY <1>1, <1>5
  <2> QED BY <1>1, <1>5, <2>1, SendKeeps
<1> QED BY <1>4, <1>5 DEF send

\* receive_fails.
LEMMA ReceiveFailsKeeps == ASSUME IInv, NEW c \in DebugClients, receive_fails(c) PROVE IInv'
<1>1. at[c].sent /\ socket[c] = "server_closed" /\ fail(c) /\ UNCHANGED server_vars
      /\ UNCHANGED <<requests, config, owner_id, printed>>
      /\ responses' = [responses EXCEPT ![c] = <<>>]
  BY DEF receive_fails
<1>2. Conversation(c) /\ DOMAIN responses = DebugClients
  BY DEF IInv, ClientTypes
<1>3. Talks(c) /\ requests[c] = <<>>
  BY <1>1, <1>2 DEF Conversation
<1>4. \A i \in 1 .. Len(backlog) : backlog[i] # c
  BY <1>1, QueuedFacts
<1>5. DOMAIN responses' = DebugClients /\ responses'[c] = <<>>
      /\ \A d \in DebugClients : d # c => responses'[d] = responses[d]
  BY <1>1, <1>2
<1> QED BY <1>1, <1>3, <1>4, <1>5, FailKeeps

\* The debug client goes on with its answer, or without one.
LEMMA MoveKeeps ==
    ASSUME IInv, NEW c \in DebugClients, NEW step \in Steps \ {"ready", "lines"}, NEW code,
           Moved(c, step, code), code = 0 => step = "done",
           UNCHANGED server_vars, UNCHANGED <<requests, config>>, requests[c] = <<>>,
           DOMAIN responses' = DebugClients, responses'[c] = <<>>,
           DOMAIN owner_id' = DebugClients, DOMAIN printed' = DebugClients,
           \A d \in DebugClients : d # c => /\ responses'[d] = responses[d]
                                            /\ owner_id'[d] = owner_id[d]
                                            /\ printed'[d] = printed[d],
           \A i \in 1 .. Len(backlog) : backlog[i] # c,
           Progress(c)'
    PROVE  IInv'
<1>1. c \in Clients /\ ClientTypes /\ Conversation(c)
  BY DEF IInv, Clients
<1>2. ClientTypes'
  BY <1>1 DEF ClientTypes, Moved
<1>3. OthersKept(c)
  BY DEF OthersKept, Moved
<1>4. Conversation(c)'
  BY <1>1 DEF Conversation, Moved
<1>5. at'[c].step # "ready"
      /\ (socket[c] \in {"open", "client_closed"} => socket'[c] \in {"open", "client_closed"})
  BY DEF Moved
<1> QED BY <1>1, <1>2, <1>3, <1>4, <1>5, OwnStepKeeps

\* Nothing is known of an answer that has not come.
LEMMA NotGranted == ASSUME NEW c, responses'[c] = <<>> PROVE ~Granted(c)'
BY DEF Granted

\* receive: every answer that is accepted leads to the next step.
LEMMA ReceiveKeeps == ASSUME IInv, NEW c \in DebugClients, receive(c) PROVE IInv'
<1>1. PICK r, step : r = Head(responses[c]) /\ step = at[c].step
  OBVIOUS
<1>2. /\ at[c].sent /\ responses[c] # <<>> /\ responses' = [responses EXCEPT ![c] = Tail(@)]
      /\ UNCHANGED server_vars /\ UNCHANGED <<requests, config>>
      /\ IF step = "release_best_effort" \/ ~Accepts(step, r) THEN fail(c)
         ELSE IF step = "release" THEN finish(c, 0)
         ELSE go_to(c, Following[step])
      /\ owner_id' = IF step = "acquire" /\ Accepts(step, r)
                     THEN [owner_id EXCEPT ![c] = response_string(r, "owner_id")]
                     ELSE owner_id
      /\ printed' = IF step = "get_status" /\ Accepts(step, r)
                    THEN [printed EXCEPT ![c] = <<r>>]
                    ELSE printed
  BY <1>1 DEF receive
<1>3. c \in Clients /\ ClientTypes /\ Conversation(c) /\ Progress(c)
  BY DEF IInv, Clients
<1>4. DOMAIN responses = DebugClients /\ DOMAIN owner_id = DebugClients
      /\ DOMAIN printed = DebugClients /\ at[c].step \in Steps
  BY <1>3 DEF ClientTypes
<1>5. Talks(c) /\ requests[c] = <<>> /\ responses[c] = <<r>> /\ responses[c][1] = r
  <2>1. Talks(c) /\ requests[c] = <<>> /\ responses[c] = <<responses[c][1]>>
    BY <1>2, <1>3 DEF Conversation
  <2>2. PICK s : s = responses[c][1]
    OBVIOUS
  <2>3. Head(<<s>>) = s
    OBVIOUS
  <2> QED BY <1>1, <2>1, <2>2, <2>3
<1>6. /\ DOMAIN responses' = DebugClients /\ responses'[c] = <<>>
      /\ \A d \in DebugClients : d # c => responses'[d] = responses[d]
  <2>1. Tail(<<r>>) = <<>>
    OBVIOUS
  <2> QED BY <1>2, <1>4, <1>5, <2>1
<1>7. \A i \in 1 .. Len(backlog) : backlog[i] # c
  BY <1>2, QueuedFacts
<1>8. step \in {"hello", "acquire", "set_state", "get_status", "release", "release_best_effort"}
  BY <1>1, <1>3, <1>4, <1>5 DEF Talks, Steps, Conversation
<1>9. /\ DOMAIN owner_id' = DebugClients /\ DOMAIN printed' = DebugClients
      /\ \A d \in DebugClients : d # c => owner_id'[d] = owner_id[d] /\ printed'[d] = printed[d]
  BY <1>2, <1>4
<1>10. app' = app /\ connection' = connection /\ client_id' = client_id
  BY <1>2 DEF server_vars
<1>11. exit[c] # 0 /\ ~Granted(c)'
  BY <1>3, <1>5, <1>6, NotGranted DEF Conversation, Talks
<1>12. CASE step = "release_best_effort" \/ ~Accepts(step, r)
  <2>1. fail(c)
    BY <1>2, <1>12
  <2>2. UNCHANGED <<requests, config, owner_id, printed>>
    BY <1>2, <1>12
  <2> QED BY <1>2, <1>5, <1>6, <1>7, <2>1, <2>2, FailKeeps
<1>13. CASE step # "release_best_effort" /\ Accepts(step, r)
  <2>1. Granted(c)
    BY <1>1, <1>2, <1>5, <1>13 DEF Granted
  <2>2. CASE step = "release"
    <3>1. Moved(c, "done", 0)
      BY <1>2, <1>3, <1>13, <2>2, MoveFacts
    <3>2. owner_id' = owner_id /\ printed' = printed
      BY <1>2, <2>2
    <3>3. printed[c] # <<>> /\ Shows(printed[c][1], config[c].state, owner_id[c]) /\ Free(c)
      BY <1>1, <1>3, <2>1, <2>2 DEF Progress
    <3>4. Free(c)'
      BY <1>10, <3>3 DEF Free
    <3>5. at'[c].step = "done"
      BY <3>1 DEF Moved
    <3>6. Progress(c)'
      BY <1>2, <3>2, <3>3, <3>4, <3>5 DEF Progress
    <3> QED BY <1>2, <1>5, <1>6, <1>7, <1>9, <3>1, <3>6, MoveKeeps DEF Steps
  <2>3. CASE step = "hello"
    <3>1. go_to(c, "acquire")
      BY <1>2, <1>13, <2>3 DEF Following
    <3>2. Moved(c, "acquire", exit[c])
      BY <1>3, <3>1, MoveFacts DEF Steps
    <3>3. Free(c)'
      BY <1>1, <1>3, <1>10, <2>3 DEF Progress, Free
    <3>4. at'[c].step = "acquire" /\ exit'[c] # 0
      BY <1>11, <3>2 DEF Moved
    <3>5. Progress(c)'
      BY <1>11, <3>3, <3>4 DEF Progress
    <3> QED BY <1>2, <1>5, <1>6, <1>7, <1>9, <1>11, <3>2, <3>5, MoveKeeps DEF Steps
  <2>4. CASE step = "acquire"
    <3>1. go_to(c, "set_state")
      BY <1>2, <1>13, <2>4 DEF Following
    <3>2. Moved(c, "set_state", exit[c])
      BY <1>3, <3>1, MoveFacts DEF Steps
    <3>3. owner_id'[c] = response_string(r, "owner_id")
      BY <1>2, <1>4, <1>13, <2>4
    <3>4. /\ IsName(response_string(r, "owner_id")) /\ Owns(c, response_string(r, "owner_id"))
          /\ c \in connection => app.lease.last_sequence = 0
      BY <1>1, <1>3, <1>5, <2>1, <2>4 DEF Progress
    <3>5. Owns(c, owner_id[c])' /\ IsName(owner_id'[c])
      BY <1>10, <3>3, <3>4 DEF Owns
    <3>6. at'[c].step = "set_state" /\ exit'[c] # 0
      BY <1>11, <3>2 DEF Moved
    <3>7. Progress(c)'
      BY <1>10, <1>11, <3>4, <3>5, <3>6 DEF Progress
    <3> QED BY <1>2, <1>5, <1>6, <1>7, <1>9, <1>11, <3>2, <3>7, MoveKeeps DEF Steps
  <2>5. CASE step = "set_state"
    <3>1. go_to(c, "get_status")
      BY <1>2, <1>13, <2>5 DEF Following
    <3>2. Moved(c, "get_status", exit[c])
      BY <1>3, <3>1, MoveFacts DEF Steps
    <3>3. owner_id' = owner_id
      BY <1>2, <2>5
    <3>4. /\ IsName(owner_id[c]) /\ Owns(c, owner_id[c])
          /\ c \in connection => app.state = config[c].state
      BY <1>1, <1>3, <2>1, <2>5 DEF Progress
    <3>5. Owns(c, owner_id[c])' /\ IsName(owner_id'[c])
      BY <1>10, <3>3, <3>4 DEF Owns
    <3>6. at'[c].step = "get_status" /\ exit'[c] # 0
      BY <1>11, <3>2 DEF Moved
    <3>7. Progress(c)'
      BY <1>2, <1>10, <1>11, <3>4, <3>5, <3>6 DEF Progress
    <3> QED BY <1>2, <1>5, <1>6, <1>7, <1>9, <1>11, <3>2, <3>7, MoveKeeps DEF Steps
  <2>6. CASE step = "get_status"
    <3>1. go_to(c, "hold")
      BY <1>2, <1>13, <2>6 DEF Following
    <3>2. Moved(c, "hold", exit[c])
      BY <1>3, <3>1, MoveFacts DEF Steps
    <3>3. owner_id' = owner_id /\ printed'[c] = <<r>>
      BY <1>2, <1>4, <1>13, <2>6
    <3>4. printed'[c] # <<>> /\ printed'[c][1] = r
      BY <3>3
    <3>5. IsName(owner_id[c]) /\ Shows(r, config[c].state, owner_id[c])
      BY <1>1, <1>3, <1>5, <2>1, <2>6 DEF Progress
    <3>6. at'[c].step = "hold" /\ exit'[c] # 0
      BY <1>11, <3>2 DEF Moved
    <3>7. Progress(c)'
      BY <1>2, <1>11, <3>3, <3>4, <3>5, <3>6 DEF Progress
    <3> QED BY <1>2, <1>5, <1>6, <1>7, <1>9, <1>11, <3>2, <3>7, MoveKeeps DEF Steps
  <2> QED BY <1>8, <1>13, <2>2, <2>3, <2>4, <2>5, <2>6
<1> QED BY <1>12, <1>13

\* hold_ends.
LEMMA HoldEndsKeeps == ASSUME IInv, NEW c \in DebugClients, hold_ends(c) PROVE IInv'
<1>1. /\ at[c].step = "hold" /\ UNCHANGED server_vars
      /\ UNCHANGED <<requests, responses, config, owner_id, printed>>
      /\ IF config[c].skip_release THEN finish(c, 0) ELSE go_to(c, "release")
  BY DEF hold_ends
<1>2. c \in Clients /\ ClientTypes /\ Conversation(c) /\ Progress(c)
  BY DEF IInv, Clients
<1>3. requests[c] = <<>> /\ responses[c] = <<>> /\ exit[c] # 0
  BY <1>1, <1>2 DEF Conversation, Talks
<1>4. \A i \in 1 .. Len(backlog) : backlog[i] # c
  BY <1>1, QueuedFacts
<1>5. /\ DOMAIN responses' = DebugClients /\ responses'[c] = <<>>
      /\ DOMAIN owner_id' = DebugClients /\ DOMAIN printed' = DebugClients
      /\ \A d \in DebugClients : d # c => /\ responses'[d] = responses[d]
                                          /\ owner_id'[d] = owner_id[d]
                                          /\ printed'[d] = printed[d]
  BY <1>1, <1>2, <1>3 DEF ClientTypes
<1>6. printed[c] # <<>> /\ Shows(printed[c][1], config[c].state, owner_id[c]) /\ IsName(owner_id[c])
  BY <1>1, <1>2 DEF Progress
<1>7. CASE config[c].skip_release
  <2>1. Moved(c, "done", 0)
    BY <1>1, <1>2, <1>7, MoveFacts
  <2>2. at'[c].step = "done" /\ ~Granted(c)'
    BY <1>5, <2>1, NotGranted DEF Moved
  <2>3. Progress(c)'
    BY <1>1, <1>6, <1>7, <2>2 DEF Progress
  <2> QED BY <1>1, <1>3, <1>4, <1>5, <2>1, <2>3, MoveKeeps DEF Steps
<1>8. CASE ~config[c].skip_release
  <2>1. Moved(c, "release", exit[c])
    BY <1>1, <1>2, <1>8, MoveFacts DEF Steps
  <2>2. at'[c].step = "release" /\ exit'[c] # 0 /\ ~Granted(c)'
    BY <1>3, <1>5, <2>1, NotGranted DEF Moved
  <2>3. Progress(c)'
    BY <1>1, <1>6, <2>2 DEF Progress
  <2> QED BY <1>1, <1>3, <1>4, <1>5, <2>1, <2>3, MoveKeeps DEF Steps
<1> QED BY <1>7, <1>8

\* other_connects.
LEMMA OtherConnectsKeeps == ASSUME IInv, NEW c \in OtherClients, other_connects(c) PROVE IInv'
<1>1. c \in Clients /\ c \notin DebugClients /\ ClientTypes
  BY SessionAssumption DEF IInv, Clients
<1>2. /\ at[c].step = "ready" /\ running /\ connect(c)
      /\ at' = [at EXCEPT ![c].step = "lines"]
      /\ UNCHANGED <<app, running, starts, next_client_id, connection, client_id, requests,
                     responses, config, owner_id, printed, exit>>
  BY DEF other_connects
<1>3. /\ at' \in [Clients -> [step : Steps, sent : BOOLEAN, lines : Nat]]
      /\ at'[c].step = "lines" /\ \A d \in Clients : d # c => at'[d] = at[d]
  <2>1. at \in [Clients -> [step : Steps, sent : BOOLEAN, lines : Nat]] /\ "lines" \in Steps
    BY <1>1 DEF ClientTypes, Steps
  <2>2. at' = [at EXCEPT ![c] = [@ EXCEPT !.step = "lines"]]
    BY <1>2
  <2>3. [at[c] EXCEPT !.step = "lines"] \in [step : Steps, sent : BOOLEAN, lines : Nat]
        /\ [at[c] EXCEPT !.step = "lines"].step = "lines"
    BY <1>1, <2>1
  <2> QED BY <1>1, <2>1, <2>2, <2>3
<1>4. socket' \in [Clients -> Sockets] /\ Queue'
  BY <1>1, <1>2, <1>3, ConnectKeeps
<1>5. \A d \in Clients : d # c => socket'[d] = socket[d]
  BY <1>1, <1>2 DEF connect, ClientTypes
<1>6. Served'
  BY <1>2 DEF IInv, Served
<1>7. ClientTypes'
  BY <1>1, <1>2, <1>3, <1>4 DEF ClientTypes
<1>8. OthersKept(c)
  BY <1>2, <1>3, <1>5 DEF OthersKept
<1>9. ASSUME NEW d \in DebugClients PROVE Conversation(d)' /\ Progress(d)'
  BY <1>1, <1>2, <1>8, OthersStay
<1> QED BY <1>4, <1>6, <1>7, <1>9 DEF IInv

\* other_sends.
LEMMA OtherSendsKeeps == ASSUME IInv, NEW c \in OtherClients, other_sends(c) PROVE IInv'
<1>1. c \in Clients /\ c \notin DebugClients /\ ClientTypes
  BY SessionAssumption DEF IInv, Clients
<1>2. /\ at[c].step = "lines" /\ UNCHANGED server_vars
      /\ UNCHANGED <<socket, responses, config, owner_id, printed, exit>>
  BY DEF other_sends
<1>3. PICK line \in Lines : /\ requests' = [requests EXCEPT ![c] = Append(@, line)]
                            /\ at' = [at EXCEPT ![c].lines = at[c].lines + Updates(line)]
  BY DEF other_sends
<1>4. /\ at' \in [Clients -> [step : Steps, sent : BOOLEAN, lines : Nat]]
      /\ at'[c].step = "lines" /\ \A d \in Clients : d # c => at'[d] = at[d]
  <2>1. at \in [Clients -> [step : Steps, sent : BOOLEAN, lines : Nat]]
    BY <1>1 DEF ClientTypes
  <2>2. PICK n \in Nat : n = at[c].lines + Updates(line)
    BY <1>1, <2>1 DEF Updates
  <2>3. at' = [at EXCEPT ![c].lines = n]
    BY <1>3, <2>2
  <2> QED BY <1>1, <1>2, <2>1, <2>3
<1>5. /\ DOMAIN requests' = Clients /\ requests'[c] \in Seq(Lines)
      /\ \A d \in Clients : d # c => requests'[d] = requests[d]
  BY <1>1, <1>3 DEF ClientTypes
<1>6. ClientTypes'
  <2>1. ASSUME NEW d \in OtherClients PROVE requests'[d] \in Seq(Lines)
    BY <1>1, <1>5 DEF ClientTypes, Clients
  <2> QED BY <1>1, <1>2, <1>4, <1>5, <2>1 DEF ClientTypes
<1>7. OthersKept(c)
  BY <1>2, <1>4, <1>5 DEF OthersKept
<1>8. at'[c].step # "ready"
      /\ (socket[c] \in {"open", "client_closed"} => socket'[c] \in {"open", "client_closed"})
  BY <1>2, <1>4
<1> QED BY <1>1, <1>2, <1>6, <1>7, <1>8, OwnStepKeeps

\* other_leaves.
LEMMA OtherLeavesKeeps == ASSUME IInv, NEW c \in OtherClients, other_leaves(c) PROVE IInv'
<1>1. c \in Clients /\ c \notin DebugClients /\ ClientTypes
  BY SessionAssumption DEF IInv, Clients
<1>2. /\ finish(c, 0) /\ UNCHANGED server_vars
      /\ UNCHANGED <<requests, responses, config, owner_id, printed>>
  BY DEF other_leaves
<1>3. Moved(c, "done", 0)
  BY <1>1, <1>2, MoveFacts
<1>4. ClientTypes'
  BY <1>1, <1>2, <1>3 DEF ClientTypes, Moved
<1>5. OthersKept(c)
  BY <1>2, <1>3 DEF OthersKept, Moved
<1>6. at'[c].step # "ready"
      /\ (socket[c] \in {"open", "client_closed"} => socket'[c] \in {"open", "client_closed"})
  BY <1>3 DEF Moved
<1> QED BY <1>1, <1>2, <1>4, <1>5, <1>6, OwnStepKeeps

\* Every step of the daemon and of its clients keeps the invariant.
LEMMA NextKeeps == IInv /\ [Next]_vars => IInv'
<1> SUFFICES ASSUME IInv, [Next]_vars PROVE IInv'
  OBVIOUS
<1>1. CASE start
  BY <1>1, StartKeeps
<1>2. CASE stop
  BY <1>2, StopKeeps
<1>3. CASE poll_once_at
  BY <1>3, PollKeeps
<1>4. ASSUME NEW c \in DebugClients, launch(c) PROVE IInv'
  BY <1>4, LaunchKeeps
<1>5. ASSUME NEW c \in DebugClients, run_io(c) PROVE IInv'
  BY <1>5, SendStepKeeps, ReceiveKeeps, ReceiveFailsKeeps, HoldEndsKeeps DEF run_io
<1>6. ASSUME NEW c \in OtherClients, other_connects(c) \/ other_sends(c) \/ other_leaves(c)
      PROVE  IInv'
  BY <1>6, OtherConnectsKeeps, OtherSendsKeeps, OtherLeavesKeeps
<1>7. CASE UNCHANGED vars
  <2>1. UNCHANGED <<app, running, starts, next_client_id, backlog, connection, client_id>>
        /\ UNCHANGED <<socket, requests, responses, at, config, owner_id, printed, exit>>
    BY <1>7 DEF vars
  <2>2. Served' /\ ClientTypes' /\ Queue'
    BY <2>1 DEF IInv, Served, ClientTypes, Queue
  <2>3. ASSUME NEW d \in DebugClients PROVE Conversation(d)' /\ Progress(d)'
    <3>1. OwnKept(d) /\ Conversation(d) /\ Progress(d)
      BY <2>1 DEF IInv, OwnKept
    <3>2. \/ d \notin connection'
          \/ d \in connection /\ app' = app /\ client_id' = client_id
      BY <2>1
    <3> QED BY <2>1, <3>1, <3>2, ConversationKept, ProgressKept
  <2> QED BY <2>2, <2>3 DEF IInv
<1> QED BY <1>1, <1>2, <1>3, <1>4, <1>5, <1>6, <1>7 DEF Next

-----------------------------------------------------------------------------
(* The theorems.                                                           *)

\* The invariant holds in every session.
THEOREM SessionInvariance == Spec => []IInv
BY InitHolds, NextKeeps, PTL DEF Spec

\* Every variable keeps its type, a debug client never has more than one
\* answer waiting, and the daemon never serves two connections (ipc_runner.c).
THEOREM SessionTypeCorrect == Spec => []TypeOK
<1>1. IInv => TypeOK
  <2> SUFFICES ASSUME IInv PROVE TypeOK
    OBVIOUS
  <2>1. ToSet(backlog) \subseteq Clients
    BY DEF IInv, Queue, ToSet
  <2>2. ASSUME NEW c \in DebugClients PROVE config[c].state \in States /\ Len(responses[c]) <= 1
    <3>1. config[c].state \in States
          /\ (responses[c] # <<>> => responses[c] = <<responses[c][1]>>)
      BY DEF IInv, Conversation
    <3>2. CASE responses[c] = <<>>
      BY <3>1, <3>2
    <3>3. CASE responses[c] # <<>>
      <4>1. PICK r : responses[c] = <<r>>
        BY <3>1, <3>3
      <4>2. Len(<<r>>) = 1
        OBVIOUS
      <4> QED BY <3>1, <4>1, <4>2
    <3> QED BY <3>2, <3>3
  <2>3. connection \in {{}} \cup {{c} : c \in Clients}
    BY DEF IInv, Served
  <2> QED BY <2>1, <2>2, <2>3 DEF IInv, Served, ClientTypes, TypeOK
<1> QED BY <1>1, SessionInvariance, PTL

\* Exit code 0 of the debug client (debug_client.c) means that the status it
\* printed showed the state of its command line in force under its own
\* owner_id, and that the controller is out of its hands again unless it was
\* told to skip the release.
THEOREM SuccessIsInForce == Spec => []SuccessWasInForce
<1>1. IInv => SuccessWasInForce
  <2> SUFFICES ASSUME IInv, NEW c \in DebugClients, exit[c] = 0
               PROVE  /\ printed[c] # <<>>
                      /\ Shows(printed[c][1], config[c].state, owner_id[c])
                      /\ ~config[c].skip_release => ~Drives(c)
    BY DEF SuccessWasInForce, Shows
  <2>1. Progress(c)
    BY DEF IInv
  <2>2. ~config[c].skip_release => Free(c)
    BY <2>1 DEF Progress
  <2> QED BY <2>1, <2>2 DEF Progress, Free, Drives, lease_held_by
<1> QED BY <1>1, SessionInvariance, PTL

\* A line the daemon executes (ipc_json.c, ipc_adapter.c) does what its JSON
\* object says and nothing else, whoever is connected and whatever was sent
\* before.
THEOREM LinesDoWhatTheySay == Spec => LineDoesWhatItSays
<1> DEFINE Promise(c) ==
        LET line == Head(requests[c])
            types == {v.text : v \in {u \in Says(line, "type") : u.kind = "string"}}
            mine == format_owner_id(client_id) \in Says(line, "owner_id")
        IN  (/\ requests[c] # <<>> /\ c \in connection'
             /\ requests'[c] = Tail(requests[c]) /\ ~HasEscapes(line))
            => /\ app'.lease.has_owner /\ ~app.lease.has_owner => "acquire" \in types
               /\ ~app'.lease.has_owner /\ app.lease.has_owner => "release" \in types /\ mine
               /\ (app'.accepted # app.accepted) =>
                    /\ "set_state" \in types /\ mine
                    /\ \E v \in Says(line, "state") : StateOf(v) = app'.state
                    /\ IF Says(line, "seq") = {} THEN app'.lease.last_sequence = 0
                       ELSE Number(app'.lease.last_sequence) \in Says(line, "seq")
<1>1. IInv /\ [Next]_vars => \A c \in connection : Promise(c)
  <2> SUFFICES ASSUME IInv, [Next]_vars, NEW c \in connection PROVE Promise(c)
    OBVIOUS
  <2>1. DoesWhatItSays(app, app', client_id, Head(requests[c])) => Promise(c)
    BY DEF DoesWhatItSays
  <2>2. app' = app => DoesWhatItSays(app, app', client_id, Head(requests[c]))
    BY DEF DoesWhatItSays
  <2>3. CASE start
    BY <2>3 DEF start, IInv, Served
  <2>4. CASE stop
    BY <2>4 DEF stop, connection_close
  <2>5. CASE accept
    BY <2>1, <2>2, <2>5 DEF accept
  <2>6. ASSUME NEW d \in Clients, serve_line(d) PROVE Promise(c)
    <3>1. connection = {c} /\ d = c /\ requests[c] # <<>> /\ Proper(Head(requests[c]))
      BY <2>6, HeadIsProper DEF serve_line, IInv, Served
    <3>2. PICK a, id, line, after :
             /\ a = app /\ id = client_id /\ line = Head(requests[c])
             /\ after = handle_line(a, id, line).app
      OBVIOUS
    <3>3. app' = after
      BY <2>6, <3>1, <3>2 DEF serve_line
    <3>4. a \in DomainValue /\ id \in Nat
      BY <3>2 DEF IInv, Served
    <3>5. HandledWell(a, after, id, line)
      BY <3>1, <3>2, <3>4, HandleFacts DEF Proper
    <3>6. ASSUME ~HasEscapes(line)
          PROVE  DoesWhatItSays(app, app', client_id, Head(requests[c]))
      BY <3>2, <3>3, <3>5, <3>6 DEF HandledWell
    <3> QED BY <2>1, <3>2, <3>6
  <2>7. ASSUME NEW d \in Clients, serve_disconnect(d) \/ poll_heartbeat(d) PROVE Promise(c)
    BY <2>7 DEF serve_disconnect, poll_heartbeat, connection_close
  <2>8. ASSUME NEW d \in DebugClients, launch(d) PROVE Promise(c)
    BY <2>1, <2>2, <2>8 DEF launch
  <2>9. ASSUME NEW d \in DebugClients, run_io(d) PROVE Promise(c)
    BY <2>1, <2>2, <2>9
    DEF run_io, send, receive, receive_fails, hold_ends, server_vars
  <2>10. ASSUME NEW d \in OtherClients, other_connects(d) \/ other_sends(d) \/ other_leaves(d)
         PROVE  Promise(c)
    BY <2>1, <2>2, <2>10 DEF other_connects, other_sends, other_leaves, server_vars
  <2>11. CASE UNCHANGED vars
    BY <2>1, <2>2, <2>11 DEF vars
  <2> QED BY <2>3, <2>4, <2>5, <2>6, <2>7, <2>8, <2>9, <2>10, <2>11
     DEF Next, poll_once_at, poll_serves
<1>2. IInv /\ [Next]_vars => [\A c \in connection : Promise(c)]_vars
  BY <1>1
<1> QED BY <1>2, SessionInvariance, PTL DEF Spec, LineDoesWhatItSays

-----------------------------------------------------------------------------
(* What the sessions promise.                                              *)

Lease_ == INSTANCE ControllerLease WITH
    Clients  <- Nat,
    NoClient <- -1,
    driver   <- IF app.lease.has_owner THEN app.lease.owner_client_id ELSE -1,
    input    <- app.state

\* No step hands the controller from one owner to another, and a free
\* controller is handed out with its input as it was.
LEMMA OwnersInTurn ==
    ASSUME IInv, [Next]_vars, app'.lease.has_owner
    PROVE  /\ app.lease.has_owner => app'.lease.owner_client_id = app.lease.owner_client_id
           /\ ~app.lease.has_owner => app'.state = app.state
<1>1. CASE app' = app
  BY <1>1
<1>2. ASSUME NEW c \in Clients, serve_line(c)
      PROVE  /\ app.lease.has_owner => app'.lease.owner_client_id = app.lease.owner_client_id
             /\ ~app.lease.has_owner => app'.state = app.state
  <2>1. connection = {c} /\ requests[c] # <<>> /\ Proper(Head(requests[c]))
    BY <1>2, HeadIsProper DEF serve_line, IInv, Served
  <2>2. PICK a, id, line, after :
           /\ a = app /\ id = client_id /\ line = Head(requests[c])
           /\ after = handle_line(a, id, line).app
    OBVIOUS
  <2>3. app' = after
    BY <1>2, <2>2 DEF serve_line
  <2>4. a \in DomainValue /\ id \in Nat
    BY <2>2 DEF IInv, Served
  <2>5. HandledWell(a, after, id, line)
    BY <2>1, <2>2, <2>4, HandleFacts DEF Proper
  <2>6. a.lease.has_owner => a.lease.owner_client_id = id
    BY <2>2 DEF IInv, Served
  <2>7. /\ after.lease.has_owner /\ a.lease.has_owner =>
             after.lease.owner_client_id = a.lease.owner_client_id
        /\ after.lease.has_owner /\ ~a.lease.has_owner => after.state = a.state
    BY <2>5, <2>6 DEF HandledWell
  <2> QED BY <2>2, <2>3, <2>7
<1>3. ASSUME \/ start \/ stop
             \/ \E c \in Clients : serve_disconnect(c) \/ poll_heartbeat(c)
      PROVE  FALSE
  <2>1. CASE start
    BY <2>1, InitFacts DEF start
  <2>2. ASSUME NEW reason \in RevokeReasons, NEW id,
               id = client_id \/ (reason = "SHUTDOWN" /\ id = 0),
               app' = domain_revoke(app, reason, id).app
        PROVE  FALSE
    BY <2>2, RevokedFacts DEF IInv
  <2>3. {"DISCONNECT", "HEARTBEAT_TIMEOUT", "SHUTDOWN"} \subseteq RevokeReasons
    BY DEF RevokeReasons
  <2>4. CASE stop
    BY <2>2, <2>3, <2>4 DEF stop
  <2>5. ASSUME NEW c \in Clients, serve_disconnect(c) \/ poll_heartbeat(c) PROVE FALSE
    BY <2>2, <2>3, <2>5 DEF serve_disconnect, poll_heartbeat
  <2> QED BY <1>3, <2>1, <2>4, <2>5
<1>4. \/ app' = app \/ (\E c \in Clients : serve_line(c))
      \/ start \/ stop
      \/ \E c \in Clients : serve_disconnect(c) \/ poll_heartbeat(c)
  BY DEF Next, vars, poll_once_at, poll_serves, accept, launch, run_io, send, receive,
         receive_fails, hold_ends, other_connects, other_sends, other_leaves, server_vars
<1> QED BY <1>1, <1>2, <1>3, <1>4

\* Seen through owner and input, the daemon with its clients (ipc_runner.c,
\* ipc_json.c, debug_client.c) implements ControllerLease: whatever lines
\* arrive, however connections end and however often the daemon is started
\* again, a step grants the free controller, applies the owner's input,
\* withdraws both, or is invisible.
THEOREM SessionRefinesControllerLease == Spec => Lease_!Spec
<1>1. Init => Lease_!Init
  BY InitFacts DEF Init, Lease_!Init
<1>2. IInv /\ [Next]_vars => [Lease_!Next]_(Lease_!vars)
  <2> SUFFICES ASSUME IInv, [Next]_vars PROVE [Lease_!Next]_(Lease_!vars)
    OBVIOUS
  <2> DEFINE driver == IF app.lease.has_owner THEN app.lease.owner_client_id ELSE -1
  <2>1. IInv'
    BY NextKeeps
  <2>2. /\ app.lease.has_owner => driver \in Nat
        /\ ~app.lease.has_owner => app.state = Neutral
    BY DEF IInv, Served, DomainValue, Lease, UnownedIsNeutral
  <2>3. /\ app'.lease.owner_client_id \in Nat /\ app'.state \in States
        /\ ~app'.lease.has_owner => app'.state = Neutral
    BY <2>1 DEF IInv, Served, DomainValue, Lease, UnownedIsNeutral
  <2>4. CASE app.lease.has_owner /\ app'.lease.has_owner
    <3>1. app'.lease.owner_client_id = app.lease.owner_client_id
      BY <2>4, OwnersInTurn
    <3>2. Lease_!Apply(app'.state)
      BY <2>2, <2>4, <3>1 DEF Lease_!Apply
    <3> QED BY <2>3, <3>2 DEF Lease_!Next
  <2>5. CASE ~app.lease.has_owner /\ app'.lease.has_owner
    <3>1. app'.state = app.state
      BY <2>5, OwnersInTurn
    <3>2. Lease_!Grant(app'.lease.owner_client_id)
      BY <2>5, <3>1 DEF Lease_!Grant
    <3> QED BY <2>3, <3>2 DEF Lease_!Next
  <2>6. CASE app.lease.has_owner /\ ~app'.lease.has_owner
    <3>1. Lease_!Withdraw
      BY <2>2, <2>3, <2>6 DEF Lease_!Withdraw
    <3> QED BY <3>1 DEF Lease_!Next
  <2>7. CASE ~app.lease.has_owner /\ ~app'.lease.has_owner
    BY <2>2, <2>3, <2>7 DEF Lease_!vars
  <2> QED BY <2>4, <2>5, <2>6, <2>7
<1> QED BY <1>1, <1>2, SessionInvariance, PTL DEF Spec, Lease_!Spec
==============================================================================
