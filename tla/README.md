# A TLA+ model of swbt-daemon

swbt-daemon is a Bluetooth HID device that acts as a Nintendo Switch
controller. A client takes the controller over (by JSON lines on a local TCP
port, or by the C API inside a process), submits controller states, and the
daemon reports the state to the Switch every few milliseconds, next to the
answers to the Switch's own subcommands.

This directory models the daemon's logic from the settings it starts with to
the reports it sends and checks it with TLC on small instances. Every safety
property, action property and refinement that the passing runs check is also
proved with TLAPS, for every value of the constants; the liveness properties are
left to TLC. Paths below are relative to the repository.

## 1. Inventory

### Components, state, operations

| component | state | operations |
|---|---|---|
| lease (`swbt/domain/lease.c`) | owner, last sequence number | acquire, held_by, accept_sequence, revoke |
| domain (`swbt/domain/domain.c`) | lease, controller state, counters, rumble, player lights, SPI, status; a spin lock | acquire, set_state, revoke(reason), record a rejection, read, handle output report |
| control (`swbt/control/control.c`) | a domain and the direct client's sequence counter | client operations, submit_state (acquire then set), shutdown, get_status |
| C API (`api/swbt_c_api.c`) | a handle: a domain and a control of its own, no runtime | open, submit_state, submit_neutral, get_status, close |
| IPC server, adapter, runner (`swbt/ipc/*`, `swbt/daemon/ipc_runner.c`) | listener, one connection, its unfinished line, last heartbeat, next client id | start, poll once, stop; line framing; command execution |
| report timer adapter and scheduler (`swbt/btstack_bridge/input_report_*.c`) | running, timer_pending, can_send_pending, neutral_send_pending, holdoff, deadline, timer byte | start, stop, on_timer, on_can_send_now, enqueue reply, send neutral |
| subcommand reply queue (`subcommand_reply_queue.c`) | a ring of 4 replies | init, enqueue, send the next |
| HID session (`swbt/daemon/btstack_hid_session.c`) | the connection's callbacks | opened, closed, can send now, pairing |
| process, runtime host, device (`daemon/process.c`, `runtime/host.c`, `btstack_bridge/device.c`) | which resources are up | start and stop in order, neutral send |
| production runner, shutdown sequence (`daemon/production_runner.c`, `daemon/shutdown_sequence.c`) | powered, requested, neutral and disconnect pending, two timers | main, power off, request, on main thread, finish, timeouts |
| Switch protocol (`swbt/switch/*`, `btstack_bridge/output_report_*.c`) | none of its own; the domain's rumble, player lights and SPI data | parse an output report, answer its subcommand, read the flash, pack reports |
| IPC JSON (`swbt/ipc/ipc_json.c`) | none | decode a request line, encode a response |
| debug client (`apps/swbt-debug-client`) | its options, its owner_id, the step it is at | parse options; hello, acquire, set_state, get_status, hold, release |
| settings (`daemon/config.c`, `config_file.cpp`, `cli.c`, `launch_options.c`, `switch_address.c`, `active_reconnect.c`) | the configuration in force and the TOML file | defaults, file, environment, command line; save the learned Switch address |
| metrics (`swbt/support/metrics.c`) | counters, report intervals | record a tick, a state update |
| logging, tracing, ports, HID registration | - | text, function tables, calls made once |

### Interactions

* The main thread runs BTstack's run loop. Everything that is an event of that
  loop (report timer, CAN_SEND_NOW, connection opened and closed, output
  reports, the IPC pump's timer, the shutdown's timers, callbacks queued for the
  main thread) is one handler at a time, in any order.
* Other threads in the daemon: the console listener, which requests a shutdown.
  It meets the main thread at `atomic_exchange` on the request flag and at
  BTstack's execute-on-main-thread queue.
* The C API is not part of that process: `swbt_open` makes a domain and a control
  that no IPC client and no Bluetooth stack share. The threads that submit on one
  handle meet each other at its domain's spin lock, and at the direct sequence
  counter, which no lock protects.
* The report sender reads the domain's state when it sends; a subcommand reply
  reads it when it is queued.
* An output report is handled on the BTstack thread: it changes the domain
  under its lock and puts the reply into the queue, which the report sender
  empties.
* When a Switch opens a connection, its address goes into the running
  configuration and, by a read, a change and a rewrite in place, into the file
  the user edits too. The next launch reconnects to it.
* A shutdown revokes the owner, sends a neutral report (now, or when BTstack
  lets it), disconnects (or waits 250 ms), switches the radio off, and leaves
  the run loop; main then stops the resources.

### What is hard here, and what makes each part correct

* **Ownership.** Acquires, updates, disconnects, timeouts and shutdowns of
  several clients come in any order. On a handle of the C API a submission takes
  the lock twice and counts without it in between, while other threads do the
  same. Correct: nobody owns the controller only while it is neutral; the input
  in force is the owner's; sequence numbers do not go back; an OK means applied,
  unless another thread was in the way.
* **IPC.** Five ways for a connection to end, data pending together with a
  timeout, lines in pieces, a clock that wraps. Correct: no ghost owner, each
  update counted once, a command that has arrived is not lost to the timeout, a
  silent client is dropped.
* **Reports.** One coalesced CAN_SEND_NOW serves three kinds of report, timers
  are in milliseconds and deadlines in microseconds, sends may fail, the clock
  wraps. Correct: the schedule never ends while connected, no queued reply gets
  stuck or moves to another connection, the holdoff is kept and puts no report
  off for longer.
* **Output reports.** Reports of any size and kind, flash reads at the edge of
  the flash, a ring buffer whose head wraps, a state that changes while replies
  wait. Correct: each reply answers its own subcommand, in order, with the bytes
  asked for and the state of its moment; packing loses nothing.
* **Sessions.** A JSON scanner that reads the text again for each key, a client
  that waits without a timeout, a server with one connection at a time, ids that
  start again with each daemon. Correct: a line does what its outer fields say;
  a client that reports success had its state in force; a client that is
  accepted ends.
* **Settings.** Four sources with a precedence, numbers that wrap when parsed,
  one setting that the program writes back into the user's file, edits, crashes
  and dead machines in between. Correct: usable ranges, the launch's settings
  stay in force, edits that no save crosses are kept, and a launch asks for the
  last Switch.
* **Life cycle.** Each start step may fail, a shutdown waits for up to three
  events that race each other, two threads. Correct: power off once, nothing
  sent afterwards, no timer in a dead run loop, nothing left behind, and a
  requested shutdown ends.

`PROJECT.json` lists the hazards with their lines.

## 2. Modules

```
ControllerLease          abstract: what a client and the Switch may rely on
      ^
      +------------- implemented by ------+
Domain <- Control ------------------------+
   ^  <- IpcRunner -----------------------+
   +--- IpcJson <- Session ---------------+
   +--- Production
ReportTimer
ReplyFifo                abstract: a bounded queue
      ^---- implemented by ---- OutputReports
Settings
MCControl, MCIpcRunner, MCReportTimer, MCProduction,
MCOutputReports, MCSession, MCSettings                 instances for TLC
DomainProofs <- ControlProofs, IpcRunnerProofs,
                ProductionProofs, SessionProofs
ReportTimerProofs, OutputReportsProofs, SettingsProofs theorems for TLAPS
```

* **Domain** has no variables. Each public operation of `domain.c` runs under
  the domain's lock from beginning to end, so it is a function from a domain
  value to a result and a new domain value. A controller state is an opaque
  value, one of which is neutral. The counters are those of state updates.
* **ControllerLease** is the promise: at most one driver; only the driver's
  update changes the input; losing the lease releases the input in the same
  step.
* **Control** is `control.c` in the two ways the program uses it (`use`): in the
  daemon, whose IPC clients call one action per operation; and behind a handle of
  the C API, where `Callers` are threads. `swbt_control_submit_state` is five
  actions: the two lock sections, and between them, without a lock, the load and
  the store of `next_direct_sequence` and the read that passes it on. `origin`
  (who stored the state in force), `overtaken` (whose submission another
  thread's applied update fell into) and `went_back` (an increment stored a
  number below the counter) are history variables.
* **IpcRunner** is the runner's poll, split by the branch it takes (accept,
  heartbeat timeout, overlong line, end of stream, piece of a line, complete
  line), with start and stop. TCP is external: a stream of bytes, newlines and
  an end. A poll is one action because nothing else runs on the main thread
  meanwhile. The unit of the clock is the pump's interval, so that a poll comes
  in each unit, and the clock wraps at `ClockMod`: `check_heartbeat` compares
  clock values as the code does. `silence` is a history variable, the true time
  since the last line.
* **ReportTimer** is the timer adapter with its scheduler and the reply queue,
  one action per handler, and `on_can_send_now` one per branch; the neutral
  report, the reply and the periodic report each increment the timer byte on
  their own path. BTstack's timer
  list, clock and coalesced request are external. `UsPerMs` keeps milliseconds
  and microseconds apart, so that rounding is modelled; the clock is modulo
  `ClockMod`.
* **Production** is main, process start and stop, the HID session and the
  shutdown sequence. The IPC server and the sender appear in it as what their
  own modules say of them: a client may change the domain whenever the pump's
  timer is scheduled; the sender answers CAN_SEND_NOW with the pending neutral
  report, else the oldest reply, else the current state.

* **OutputReports** is the path of an output report: both callbacks, the parser,
  the dispatcher, flash, lights and rumble, and the ring buffer. A callback is
  one action, because it holds the domain's lock while it builds the reply.
  Codes, addresses and sizes have their real values; the rumble data is opaque.
  **ReplyFifo** is what the ring buffer promises.
* **IpcJson** has no variables: it decodes a line into a command, executes it on
  a domain of `Domain`, and encodes the response. A line is its sequence of
  fields; strings are kept apart as far as the scanner does (plain, a client
  id's digits, with a backslash, unreadable).
* **Session** puts debug clients, other clients and the daemon's server
  together over TCP (external), with lost answers and restarts of the daemon.
  An other client may send lines for ever, and so keep the one connection.
  Lines in pieces are left to `IpcRunner`, which in turn knows only commands.
* **Settings** is a launch (command line, defaults, file, environment), the
  choice of the address to reconnect to, and the save of a learned address in
  three steps: read and validate, open (which truncates), write and close. The
  user may edit the file, the process and the machine may die, and the write may
  fail between any two of them. `file` is what processes see and `disk` what
  survives a dead machine; the kernel writes back when it likes, because the code
  does not fsync. The TOML library and the user's editor are external; an edit
  that crosses a rewrite leaves any of the texts the two can leave.

* **DomainProofs** has the lemmas on the operations of `Domain` (the type, the
  owner, the state and the counters each one returns), shared by the four proof
  modules that need them. Every other proof module extends the module it is
  named after and leaves it as TLC checks it.

`PROJECT.json` maps each definition to its lines. Operators whose comment
begins with "Mutant:" are deliberately wrong versions of the definition below
them, one per checked property; no specification uses them. They show that the
property can fail.

## 3. Runs

| run | instance | states | shows |
|---|---|---|---|
| `control` | 2 IPC clients, or 2 threads on a handle; 3 states, sequences 0..2, 5 updates | 53,002 | ownership, sequences, when an OK means applied, refinement of ControllerLease |
| `ipc` | 2 connections, 2 states, timeout 2, a clock that wraps at 4, lines of at most 2 bytes, 2 pieces in flight, 2 updates | 599,955 | no ghost owner, counting, order of command and timeout, dropping of overdue clients, refinement of ControllerLease |
| `ipc_partial` | the same | violation | finding 1 |
| `reports` | 2 us per ms, period 3, holdoff 4, queue 2, timer byte mod 3, time up to 8 ms | 38,769 | scheduling, replies, holdoff, no bursts, no report put off for long |
| `reports_faults` | the same with refused sends and a clock that wraps at 6 ms | 483,330 | the pending neutral report leaves |
| `reports_wrap` | the same, wrap at 8 ms, no refused sends | violation | finding 2 |
| `production` | 1 client, 2 states, 2 queued replies, 3 updates | 3,730 | silence after power off, nothing left behind or used after the run loop, a pending neutral report has its turn coming, a shutdown ends |
| `production_trailing` | the same | violation | finding 4 |
| `output` | queue 2, 5 reports out of 20 kinds, 2 controller states | 86,598 | replies in order and with the right bytes, packing, refinement of ReplyFifo |
| `session` | 1 debug client with 4 command lines, 1 other client with any number of lines out of 12 (1 on its way, 2 updates), 2 starts of the daemon | 97,574 | exit code 0 means in force, a line does what it says, debug clients end |
| `json_unknown_field` | the same, with an escaped unknown field | violation | finding 3 |
| `settings` | 2 Switches, 7 file contents, 7 environments, 16 command lines, 1 edit | 1,669,606 | ranges, precedence, edits survive saves, reconnect to the last Switch |

### Why the bounds are enough

* Two IPC clients give an owner and a rival; five updates let an owner store,
  lose the controller, and the next one store several times; sequence numbers
  0..2 have an older, an equal and a newer one. Two threads on a handle are
  enough for one to be overtaken, and with five submissions between them for the
  counter to go back and a later, undisturbed submission to be stale. The proof
  is for any number of threads.
* Two connections in `ipc` give a client and its successor. The clock wraps at
  twice the timeout, so there are heartbeats whose deadline comes before the wrap
  and heartbeats whose deadline comes after it. With lines of at
  most two bytes and two pieces in flight, a read can end in a piece, a line, a
  line with more behind it, a line that is too long, and an end of stream in the
  middle of a line.
* In `reports` the period (3 us) and the holdoff (4 us) are not both multiples
  of the millisecond (2 us), so that rounding matters, and the holdoff exceeds
  the period (300 ms against 8 ms in the program). Time runs to 8 ms: five
  periods, enough for a late report, its restart and the next one. Without
  wrapping (`ClockMod` 32 against 8) BTstack's signed comparison of clock values
  never sees a difference above half the range.
* In `reports_faults` all time is reached again and again, because the clock
  wraps; the property checked there does not depend on the clock.
* Queue capacity 2 (4 in the code) has an empty, a partly full and a full queue.
* In `output` five reports let the head of a ring of two wrap twice and a reply
  be dropped; the 20 reports have one for every branch of the dispatcher, one
  for every way to be refused, and flash reads that cross two fields, the end of
  the stored 64 KiB and, by zero and by one byte, the end of the flash.
* In `session` the widths are scaled (stick 3, INT16_MAX 3, INT64_MAX 5,
  UINT64_MAX 7), with values on both sides of each; a sequence number above
  INT64_MAX is one the client's parser takes and the daemon's refuses. Two
  starts give a client that outlives its daemon; the other client has lines that
  take the controller, drive it in the first client's name, give it up, and
  seven that are refused. It may send them for ever: only its lines that are on
  their way (`MaxWaiting`) and its state updates, which are counted
  (`MaxUpdates`), are bounded.
* In `settings` the widths are scaled too (UINT16_MAX 3, INT_MAX 4, UINT32_MAX
  and ULONG_MAX 9, as on the Windows build where they are equal); files and
  environments have accepted and refused values. One edit and two addresses let
  an edit come before, in each step of, between and after saves; what a second
  edit repairs after a crossed one is left to the proof, which is for any number.
* `CHECK_DEADLOCK FALSE` is in `production` and in `session`, where processes
  really end.

### Fairness

* `ipc`: weak fairness of the poll (the pump's timer re-arms itself in every
  call) and of time, with a poll in each unit of it.
* `reports`: weak fairness of CAN_SEND_NOW (BTstack owes one answer to a request
  while the connection is up), and for the pending neutral report strong
  fairness of a send that succeeds: a port that refuses the same report for ever
  would keep it for ever.
* `production`: weak fairness of main, of the console thread between its
  exchange and the queueing, of the queued callback, of the disconnect timeout
  and of CAN_SEND_NOW. The last one is an assumption about BTstack that the
  code makes too: a shutdown that waits for its neutral report has no timeout of
  its own. Nothing is assumed of the Switch, the client, or of a connection ever
  closing.

* `session`: weak fairness of the poll that serves (the pump's timer) and of each
  debug client, a process that runs unless it waits. No fairness of the heartbeat
  check: the default of `heartbeat_timeout_ms` is 0, no timeout, and at the
  clock's wrap the check can miss a client altogether. Nothing is assumed of the
  daemon being started again. A debug client that is connected therefore ends in
  any case. One that waits in the backlog depends on the client in front of it: a
  client that goes on sending lines, or stays silent where no timeout strikes,
  keeps the one connection, and the debug client waits in its `recv`, which has
  no timeout. `ClientsFinish` says so: its second half is for behaviours in which
  the other clients leave again and again.
* `output` and `settings` check no liveness and assume no fairness.

## 4. Proofs

Each theorem holds for every value of the module's constants that its named
assumptions allow; TLC evaluates those assumptions on every run.

| module | theorem | states | assumes |
|---|---|---|---|
| `ControlProofs` | `TypeCorrect` | `TypeOK` | `ControlAssumption`, `NeutralAssumption` |
| | `AlwaysNeutralWhenUnowned` | `NeutralWhenUnowned` | |
| | `AlwaysInputIsOwners` | `InputIsOwners` | |
| | `SequencesOnlyGrow` | `SequenceNeverGoesBack` | |
| | `DirectOkIsApplied` | `DirectOkMeansApplied` | |
| | `RefinesControllerLease` | `ImplementsControllerLease` | |
| `IpcRunnerProofs` | `IpcTypeCorrect` | `TypeOK` | `IpcRunnerAssumption`, `NeutralAssumption` |
| | `OwnerIsAlwaysConnected` | `OwnerIsConnected` | |
| | `UpdatesAreCountedOnce` | `EveryUpdateIsCounted` | |
| | `CommandsComeFirst` | `WaitingCommandIsServed` | |
| | `IpcRefinesControllerLease` | `ImplementsControllerLease` | |
| `ReportTimerProofs` | `TimerTypeCorrect` | `TypeOK` | `ReportTimerAssumption` |
| | `OneTimerInTheList` | `TimerListConsistent` | |
| | `NoReplySurvives` | `RepliesOfThisConnection` | |
| | `HoldoffHolds` | `HoldoffIsKept` | |
| | `NoBurst` | `NoCatchUpBurst` | |
| | `PeriodicAlwaysScheduled` | `PeriodicIsScheduled` | and `NoFaults` |
| | `NextReportStaysNear` | `NextReportIsNear` | and `NoFaults`, and no timeout past the wrap |
| `ProductionProofs` | `ProductionTypeCorrect` | `TypeOK` | `ProductionAssumption`, `NeutralAssumption` |
| | `LoopOutlivesUsers` | `RunLoopOutlivesItsUsers` | |
| | `SilentOncePoweredOff` | `SilentAfterPowerOff` | |
| | `NeutralReportIsAwaited` | `PendingNeutralIsAwaited` | |
| | `NothingIsLeftBehind` | `NothingLeftBehind` | |
| | `NoLateFailure` | `NoFailureAfterOpen` | |
| `OutputReportsProofs` | `OutputTypeCorrect` | `TypeOK` | `OutputAssumption`, `FieldAssumption` |
| | `PackingLosesNothing` | `ReportsCarryTheState` | |
| | `RepliesAnswerInOrder` | `RepliesFollowReports` | and `SpiIsSeeded` |
| | `RingIsFifo` | `ImplementsReplyFifo` | |
| `SettingsProofs` | `SettingsTypeCorrect` | `TypeOK` | `WidthAssumption`, `InputAssumption` and `OptionsAreValid` |
| | `EditsSurvive` | `EditsSurviveSaves` | `WidthAssumption`, `InputAssumption` |
| | `LaunchSettingsKept` | `LaunchSettingsStay` | |
| | `ReconnectsToSavedSwitch` | `ReconnectsToLastSwitch` | |
| `SessionProofs` | `SessionTypeCorrect` | `TypeOK` | `SessionAssumption`, `InputAssumption`, `IpcJsonAssumption`, `StatesAssumption`, `NeutralAssumption` |
| | `SuccessIsInForce` | `SuccessWasInForce` | |
| | `LinesDoWhatTheySay` | `LineDoesWhatItSays` | |
| | `SessionRefinesControllerLease` | `Lease_!Spec`, for any client ids | |

Every proof has the same shape: lemmas on the operators, an inductive invariant
that TLC checked on the instance of the module's run first, one step per action, and a last step by temporal logic.
What differs is the invariant.

**Control.** The type invariant and the two state properties, and `CounterAhead`:
while the counter has not gone back, it and every copy of it that a thread holds
are at least the number applied last, unless the thread was overtaken. That an
unowned controller is neutral with sequence 0 is what lets an acquire start
without an origin; that the input is its owner's is kept by a revoke only because
the revoke makes it neutral. `CounterAhead` is what `DirectOkMeansApplied` needs,
because `control.c` turns "stale" into OK: a submission that is neither overtaken
nor preceded by lost increments carries a number that is not stale. In the other
cases a thread can be told OK although its state was dropped. No document
promises more, so this is a property with its exact exceptions and a hazard, and
not a finding. The direct client's id is assumed not to be an IPC client's; the
code uses `UINT32_MAX`.

**IpcRunner.** The three state properties, and: an unowned domain is neutral (for
the refinement); there is a connection only while the server runs, and it has
the id of an accepted client; a client in the backlog leaves room for another
id. `read_line` is defined by the leading bytes of the stream; that they end
somewhere is a lemma from the well-foundedness of inclusion on finite sets.

**ReportTimer.** The types, the three state properties and `ScheduleInv`: the
holdoff in force is that of the last reply, and the deadline lies behind the last
periodic report. Five theorems need no more and hold with refused sends and a
wrapping clock, as in `reports_faults`. That the schedule never ends is false
there (finding 2), so `PeriodicAlwaysScheduled` has the hypothesis `NoFaults`,
which is true of the run `reports`: the port takes every report, the clock has
not wrapped, and it counts at least twice as far as the longest wait. The
invariant is then `DueInv`: the timer in the list stands for a moment not before
what it waits for, and within half the clock's range, so that BTstack's signed
comparison is the true one and an expired timer finds its report due. The same
invariant bounds how far away the next report is (`NextReportStaysNear`).

**Production.** A shutdown is one token (`OneToken`): a requesting thread passes
it to the queued callback, that to the neutral report or the disconnect that is
waited for, and that to the exit. `HeldByLoop` says that whoever has the token
keeps main in the loop; `PowerInv`, that power goes off once, and before the
exit; `TurnInv`, that a sender that runs has a connection, and one that holds the
neutral report is owed a CAN_SEND_NOW; `NotYet`, `LoopInv` and `CleanedUp`, what
each phase of main has brought up or taken down. The properties are about different holders of the token, and none
of them is inductive without it.

**OutputReports.** The queue is a ring whose used slots hold replies to
increasing report numbers behind the last answered one, each built from its own
report and state, and whose other slots are vacant. The lemmas count slots
modulo any capacity; the packing of sticks and 16-bit numbers is undone by its
decoder for every value of the field types (`FieldAssumption`). `SpiIsSeeded`
says that the seed's writes, one after the other, leave the seed's table; it has
no parameters, and TLC evaluates it for every address of the flash.

**Settings.** What a save in progress is about to write is the user's part of
the file and the learned address, unless an edit crossed it (`SaveInv`), and the
process holds the settings of its launch (`ProcInv`), with `FileInv` and
`CountInv` on the file, its copy on the disk and the number of edits.
`EditsSurvive` excepts what the code loses: an edit made while a save is in
progress, and a file torn by a save that fails, dies or is lost with the machine.
An edit afterwards makes the file whole again. The hypothesis `OptionsAreValid` (the backend that a command
line gives is one of the two) is a fact about a fold over the arguments; TLC
evaluates it for the instance's command lines.

**Session.** The longest one. First the codec: `find_key_value` finds the first
field with its key; each request of the debug client decodes to itself; a state
that is written and read again is the same state; each answer is what the client
reads. The invariant then follows a conversation: `Served` (only the connected
client can own; a stopped daemon has no connection), `Queue` (nobody waits in
the backlog twice or is also connected, and a debug client there is still at its
hello), `Conversation` (one request or one answer at a time, and the request is
the line of the client's step) and `Progress` (what the daemon holds for a
connected debug client at each step: nothing until its acquire is served, then
its name and a lease with sequence 0, then its state, then a printed status that
shows it, then nothing after its release). Exit code 0 comes from the last of
these. The refinement of `ControllerLease` needs only `Served` and the lemmas on
commands; it says that lines, broken conversations and restarts of the daemon
add nothing to what `IpcRunner` lets happen to the controller. `StatesAssumption` is that a state is a function on the 11 keys of the
protocol; `InputAssumption`, that lines are well-formed field sequences and that
the states they and the command lines give are in `States`.

### What is only model-checked

* The liveness properties `OverdueClientIsDropped`, `RepliesKeepMoving`,
  `PendingNeutralLeaves`, `ShutdownCompletes` and `ClientsFinish`: fairness is
  out of the prover's reach.
* What a fold computes (the seed table, the arguments of a command line): this
  takes induction over data. The three facts the proofs use, `SpiIsSeeded`,
  `OptionsAreValid` and the second half of `Session`'s `InputAssumption`, are
  named and evaluated by TLC.

## 5. Findings

1. **A piece of a line puts the heartbeat check off** (`ipc_partial`).
   `spec/protocols/daemon-ipc-v1.md:60` says that the partial line of a slow
   client does not keep the heartbeat timeout from being checked. `poll_once_at`
   (`ipc_runner.c:229`) checks it only when no data is pending. The client is
   dropped in the end (`OverdueClientIsDropped`), at the latest when its line is
   too long.
2. **The periodic reports end when the clock wraps** (`reports_wrap`). BTstack's
   millisecond clock is 32 bit; the adapter multiplies it into microseconds and
   compares them with an absolute deadline. After the wrap a due report is "not
   due", and `on_can_send_now` returns without setting a timer. It takes 49.7
   days of uptime.
3. **An unknown field can hide known ones** (`json_unknown_field`).
   `spec/protocols/daemon-ipc-v1.md:87` says that the parser does not refuse
   unknown fields, and line 115 that `client_name` may be sent. The scanner
   (`ipc_json.c:160`) treats every string of the outer object as a possible key
   and gives up at the first one with a backslash: with an escape in
   `client_name`, fields behind it are not found. A `hello` is refused for its
   missing type; a `set_state` is executed with sequence 0.
4. **The trailing neutral report need not be the last**
   (`production_trailing`). While the shutdown waits up to 250 ms for the
   disconnect, the sender and the IPC pump go on: a client may acquire, set a
   state and have it reported.
   `spec/architecture/daemon-architecture-cutover.md:925` fixes the opposite
   order. A reply queued before the shutdown carries the older state too.

Met on the way, with no run of its own:

* A subcommand reply whose send fails stays queued, but nobody asks for
  CAN_SEND_NOW again, and when the periodic timer has already expired no timer is
  left either. BTstack's own send reports no failure, so the daemon as built does
  not get there; it is a hazard for a port that does.
* A client whose heartbeat deadline lies beyond the wrap of the 32-bit clock is
  never timed out: after the wrap `now_ms` is below `last_heartbeat_ms`, which the
  check takes for "in time" (`ipc_server.c:512`), and the difference does not
  reach the timeout in any later round of the clock. It keeps the controller
  until it sends a line, closes, or the daemon stops. `OverdueClientIsDropped` is
  stated for the other heartbeats.
* Two threads on one C API handle can each be answered OK while one of the states
  is dropped (see Control in section 4).
* An edit made between a save's read and its close may be lost, and a machine that
  dies soon after a save may tear the file (see Settings in section 4).

## 6. What is not modelled, and the plan

Not modelled:

* the decoding of BTstack's HID packets, the registration calls and the HID
  descriptor (`hid_event.c`, `hid_device_registration.c`, `switch_hid_descriptor.c`):
  constant data and calls made once;
* ports (tables of function pointers), logging and traces: nothing depends on
  them;
* BTstack itself, sockets, Windows' console and the TOML library, which are
  external and appear as what the code relies on; the link key store and the
  listing of USB adapters, which only call them;
* the statistics of the report ticks in `metrics.c` and the daemon and hardware
  parts of a status, which are only copied out;
* the C API's checks of its arguments. Its open and close, which create and
  destroy a domain and a control and nothing else, are `Control`'s `reopen`.

Abstractions to know of: `IpcRunner` counts time in intervals of the pump, so a
poll delayed by a busy main thread to beyond the clock's wrap is left out; an
error of `select` on a healthy socket is left out; in `Production` a power-on
succeeds or fails at once, and the sender's timer may expire at any time; in
`Settings` the editor's own write is one step that reaches the disk; a crash of
the daemon is, in `Session`, a stop, because the server keeps nothing.

The plan's models and runs are built, and each property that is not liveness
has its theorem. What is left is to make the longest proofs shorter: the steps of
`SessionProofs` that only say which variables a client's step leaves alone have
one shape and could become one lemma. `PeriodicAlwaysScheduled` keeps its
hypothesis `NoFaults`, because its property is false when the clock wraps
(finding 2).
