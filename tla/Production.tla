----------------------------- MODULE Production -----------------------------
(***************************************************************************)
(* The life of the daemon process around one domain: start and stop of its *)
(* resources (swbt/daemon/process.c, swbt/runtime/host.c,                  *)
(* swbt/btstack_bridge/device.c), the main function and the shutdown       *)
(* (swbt/daemon/production_runner.c, shutdown_sequence.c) and the HID      *)
(* connection they share (swbt/daemon/btstack_hid_session.c).              *)
(*                                                                         *)
(* While the run loop executes, the handlers of its events run one at a    *)
(* time on the main thread in any order; the request for a shutdown comes  *)
(* from the console thread. The IPC server and the report sender are here  *)
(* what IpcRunner and ReportTimer promise: a client may change the domain  *)
(* while the pump timer is scheduled, and a running sender answers         *)
(* CAN_SEND_NOW with the pending neutral report, the oldest queued reply   *)
(* or a report of the current state.                                       *)
(***************************************************************************)
EXTENDS Domain, Sequences

CONSTANTS
    Client,         \* the IPC client
    Capacity,       \* bound: queued subcommand replies
    MaxUpdates      \* bound: accepted state updates

ASSUME ProductionAssumption ==
    /\ Client \in Nat
    /\ Capacity \in Nat
    /\ MaxUpdates \in Nat

VARIABLES
    phase,              \* where main is
    up,                 \* the resources that are started
    pump_timer,         \* the IPC pump's timer is in the run loop
    app,                \* the domain
    hardware,           \* hardware status: "unavailable" or "failed"
    hardware_powered,
    sender,             \* the report timer adapter
    link,               \* the HID connection is up
    can_send,           \* a CAN_SEND_NOW event is due
    requested,          \* shutdown.requested
    requesting,         \* console threads about to queue the callback
    callback,           \* the callback for the main thread is queued
    neutral_pending,    \* shutdown.neutral_pending
    disconnect_pending, \* shutdown.disconnect_pending
    disconnect_timer,   \* shutdown_disconnect_timer is in the run loop
    reconnect_timer,    \* active_reconnect_timeout_timer is in the run loop
    exit,               \* run_loop.trigger_exit was called
    power_offs,         \* history: calls of power.off
    opened,             \* history: a HID connection has been opened
    trailing,           \* history: the shutdown's neutral report was sent
    wire                \* history: the state in the last report sent

host == <<phase, up, pump_timer>>
hid == <<sender, link, can_send>>
sequence == <<requested, requesting, callback>>
finishing == <<disconnect_pending, disconnect_timer, reconnect_timer,
               hardware_powered, power_offs, exit>>
vars == <<host, app, hardware, hid, sequence, neutral_pending, finishing,
          opened, trailing, wire>>

\* In the order in which process_start starts them.
Resources == <<"ipc", "platform", "hid", "output", "report_timer">>

\* In the order in which process_stop stops them.
StopOrder == <<"report_timer", "output", "hid", "platform", "ipc">>

StoppedSender ==
    [running |-> FALSE, neutral_send_pending |-> FALSE, replies |-> <<>>]

-----------------------------------------------------------------------------
Init ==
    /\ phase = "starting"
    /\ up = {}
    /\ pump_timer = FALSE
    /\ app = domain_init
    /\ hardware = "unavailable"
    /\ hardware_powered = FALSE
    /\ sender = StoppedSender
    /\ link = FALSE
    /\ can_send = FALSE
    /\ requested = FALSE
    /\ requesting = 0
    /\ callback = FALSE
    /\ neutral_pending = FALSE
    /\ disconnect_pending = FALSE
    /\ disconnect_timer = FALSE
    /\ reconnect_timer = FALSE
    /\ exit = FALSE
    /\ power_offs = 0
    /\ opened = FALSE
    /\ trailing = FALSE
    /\ wire = Neutral

(* process_start and, inside it, runtime_host_start and device_open.       *)

start_resource(i) ==
    /\ phase = "starting"
    /\ up = {Resources[j] : j \in 1 .. i - 1}
    /\ up' = up \cup {Resources[i]}
    /\ phase' = IF i = Len(Resources) THEN "started" ELSE phase
    /\ pump_timer' = (pump_timer \/ Resources[i] = "platform")
    /\ UNCHANGED <<app, hardware, hid, sequence, neutral_pending, finishing,
                   opened, trailing, wire>>

\* A resource that does not start ends the process; device_open takes the
\* platform down itself when the HID registration fails. output cannot fail.
start_resource_fails(i) ==
    /\ phase = "starting"
    /\ Resources[i] # "output"
    /\ up = {Resources[j] : j \in 1 .. i - 1}
    /\ phase' = "returned"
    /\ IF Resources[i] = "hid"
       THEN /\ up' = up \ {"platform"}
            /\ pump_timer' = FALSE
       ELSE UNCHANGED <<up, pump_timer>>
    /\ UNCHANGED <<app, hardware, hid, sequence, neutral_pending, finishing,
                   opened, trailing, wire>>

power_on ==
    /\ phase = "started"
    /\ phase' = "powered"
    /\ hardware_powered' = TRUE
    /\ UNCHANGED <<up, pump_timer, app, hardware, hid, sequence, neutral_pending,
                   disconnect_pending, disconnect_timer, reconnect_timer,
                   power_offs, exit, opened, trailing, wire>>

power_on_fails ==
    /\ phase = "started"
    /\ phase' = "returned"
    /\ UNCHANGED <<up, pump_timer, app, hardware, hid, sequence, neutral_pending,
                   finishing, opened, trailing, wire>>

\* After power on: the active reconnect (result), a cleared shutdown sequence
\* and the shutdown listener; then the run loop executes.
enter_run_loop(result, installed) ==
    /\ phase = "powered"
    /\ reconnect_timer' = (result = "REQUESTED")
    /\ hardware' = IF result = "FAILED" THEN "failed" ELSE hardware
    /\ phase' = IF installed THEN "loop" ELSE "returned"
    /\ requested' = FALSE
    /\ neutral_pending' = FALSE
    /\ disconnect_pending' = FALSE
    /\ callback' = FALSE
    /\ UNCHANGED <<up, pump_timer, app, hid, requesting, disconnect_timer, hardware_powered,
                   power_offs, exit, opened, trailing, wire>>

-----------------------------------------------------------------------------
(* Shutdown.                                                               *)

\* Mutant: the timer of the active reconnect is left in the run loop.
power_off_keeps_timer ==
    /\ UNCHANGED reconnect_timer
    /\ hardware_powered' = FALSE
    /\ power_offs' = power_offs + (IF hardware_powered THEN 1 ELSE 0)

power_off ==
    /\ reconnect_timer' = FALSE
    /\ hardware_powered' = FALSE
    /\ power_offs' = power_offs + (IF hardware_powered THEN 1 ELSE 0)

\* Mutant: a disconnect that is refused does not stop the sender.
finish_shutdown_keeps_sender(s, pending, disconnected) ==
    IF s.running /\ (pending \/ disconnected)
    THEN /\ sender' = s
         /\ disconnect_pending' = TRUE
         /\ disconnect_timer' = (disconnect_timer \/ ~pending)
         /\ UNCHANGED <<reconnect_timer, hardware_powered, power_offs, exit>>
    ELSE /\ sender' = s
         /\ disconnect_pending' = (pending /\ ~s.running)
         /\ disconnect_timer' = FALSE
         /\ power_off
         /\ exit' = TRUE

\* Mutant: the disconnect request is made without a timeout.
finish_shutdown_without_timer(s, pending, disconnected) ==
    IF s.running /\ (pending \/ disconnected)
    THEN /\ sender' = s
         /\ disconnect_pending' = TRUE
         /\ UNCHANGED <<disconnect_timer, reconnect_timer, hardware_powered,
                        power_offs, exit>>
    ELSE /\ sender' = StoppedSender
         /\ disconnect_pending' = (pending /\ ~s.running)
         /\ disconnect_timer' = FALSE
         /\ power_off
         /\ exit' = TRUE

\* finish_shutdown, called with sender s and disconnect_pending = pending by
\* the handlers below. A running sender means a connection, which is asked to
\* disconnect first (disconnected: the request was taken) and then awaited;
\* otherwise the hardware is switched off and the run loop told to exit.
finish_shutdown(s, pending, disconnected) ==
    IF s.running /\ (pending \/ disconnected)
    THEN /\ sender' = s
         /\ disconnect_pending' = TRUE
         /\ disconnect_timer' = (disconnect_timer \/ ~pending)
         /\ UNCHANGED <<reconnect_timer, hardware_powered, power_offs, exit>>
    ELSE /\ sender' = StoppedSender
         /\ disconnect_pending' = (pending /\ ~s.running)
         /\ disconnect_timer' = FALSE
         /\ power_off
         /\ exit' = TRUE

Listening == phase = "loop" \/ (phase = "returned" /\ exit)

\* Mutant: every request goes on to queue the callback.
request_every_time ==
    /\ Listening
    /\ requesting < 2
    /\ requested' = TRUE
    /\ requesting' = requesting + 1
    /\ UNCHANGED <<host, app, hardware, hid, callback, neutral_pending, finishing,
                   opened, trailing, wire>>

\* A console thread calls shutdown_sequence_request while the listener is
\* installed. Its atomic_exchange lets only the first request go on.
request ==
    /\ Listening
    /\ requested' = TRUE
    /\ requesting' = requesting + (IF requested THEN 0 ELSE 1)
    /\ UNCHANGED <<host, app, hardware, hid, callback, neutral_pending, finishing,
                   opened, trailing, wire>>

\* The same thread, later: execute_on_main_thread.
request_queues ==
    /\ requesting > 0
    /\ requesting' = requesting - 1
    /\ callback' = TRUE
    /\ UNCHANGED <<host, app, hardware, hid, requested, neutral_pending, finishing,
                   opened, trailing, wire>>

\* Mutant: a neutral report that has to wait does not hold the shutdown up.
on_main_thread_does_not_wait(ok, disconnected) ==
    /\ phase = "loop"
    /\ callback
    /\ callback' = FALSE
    /\ app' = domain_revoke(app, "SHUTDOWN", 0).app
    /\ trailing' = (trailing \/ (sender.running /\ ok))
    /\ wire' = IF sender.running /\ ok THEN Neutral ELSE wire
    /\ neutral_pending' = (sender.running /\ ~ok)
    /\ can_send' = (can_send \/ (sender.running /\ ~ok))
    /\ finish_shutdown([sender EXCEPT !.neutral_send_pending = sender.running /\ ~ok],
                       disconnect_pending, disconnected)
    /\ UNCHANGED <<host, hardware, link, requested, requesting, opened>>

\* on_main_thread: revoke any owner, then send a neutral report. It is sent
\* at once (ok), left for CAN_SEND_NOW, or impossible without a connection.
on_main_thread(ok, disconnected) ==
    /\ phase = "loop"
    /\ callback
    /\ callback' = FALSE
    /\ app' = domain_revoke(app, "SHUTDOWN", 0).app
    /\ IF sender.running /\ ~ok
       THEN /\ sender' = [sender EXCEPT !.neutral_send_pending = TRUE]
            /\ can_send' = TRUE
            /\ neutral_pending' = TRUE
            /\ UNCHANGED <<finishing, trailing, wire>>
       ELSE /\ trailing' = (trailing \/ sender.running)
            /\ wire' = IF sender.running THEN Neutral ELSE wire
            /\ finish_shutdown([sender EXCEPT !.neutral_send_pending = FALSE],
                               disconnect_pending, disconnected)
            /\ UNCHANGED <<can_send, neutral_pending>>
    /\ UNCHANGED <<host, hardware, link, requested, requesting, opened>>

\* 250 ms after the disconnect request.
shutdown_disconnect_timeout ==
    /\ phase = "loop"
    /\ disconnect_timer
    /\ IF disconnect_pending
       THEN finish_shutdown(StoppedSender, FALSE, FALSE)
       ELSE /\ disconnect_timer' = FALSE
            /\ UNCHANGED <<sender, disconnect_pending, reconnect_timer,
                           hardware_powered, power_offs, exit>>
    /\ UNCHANGED <<host, app, hardware, link, can_send, sequence,
                   neutral_pending, opened, trailing, wire>>

\* 60 s after the reconnect request.
active_reconnect_timeout ==
    /\ phase = "loop"
    /\ reconnect_timer
    /\ reconnect_timer' = FALSE
    /\ hardware' = IF sender.running THEN hardware ELSE "failed"
    /\ UNCHANGED <<host, app, hid, sequence, neutral_pending, disconnect_pending,
                   disconnect_timer, hardware_powered, power_offs, exit, opened,
                   trailing, wire>>

-----------------------------------------------------------------------------
(* The HID session.                                                        *)

\* Mutant: only a failed open cancels the reconnect timeout.
connection_opened_keeps_timer(ok) ==
    /\ phase = "loop"
    /\ hardware_powered
    /\ ~link
    /\ reconnect_timer' = (reconnect_timer /\ ok)
    /\ link' = ok
    /\ opened' = (opened \/ ok)
    /\ sender' = IF ok THEN [StoppedSender EXCEPT !.running = TRUE] ELSE sender
    /\ can_send' = FALSE
    /\ UNCHANGED <<host, app, hardware, sequence, neutral_pending,
                   disconnect_pending, disconnect_timer, hardware_powered,
                   power_offs, exit, trailing, wire>>

\* CONNECTION_OPENED with a status: either way the open has completed, and
\* the timeout of the active reconnect is off. Success starts the sender.
connection_opened(ok) ==
    /\ phase = "loop"
    /\ hardware_powered
    /\ ~link
    /\ reconnect_timer' = FALSE
    /\ link' = ok
    /\ opened' = (opened \/ ok)
    /\ sender' = IF ok THEN [StoppedSender EXCEPT !.running = TRUE] ELSE sender
    /\ can_send' = FALSE
    /\ UNCHANGED <<host, app, hardware, sequence, neutral_pending,
                   disconnect_pending, disconnect_timer, hardware_powered,
                   power_offs, exit, trailing, wire>>

\* CONNECTION_CLOSED, at any time: a shutdown that waits for the neutral
\* report or for the disconnect goes on.
connection_closed ==
    /\ phase = "loop"
    /\ link
    /\ link' = FALSE
    /\ can_send' = FALSE
    /\ neutral_pending' = FALSE
    /\ IF neutral_pending
       THEN finish_shutdown(StoppedSender, disconnect_pending, FALSE)
       ELSE IF disconnect_pending
       THEN finish_shutdown(StoppedSender, FALSE, FALSE)
       ELSE sender' = StoppedSender /\ UNCHANGED finishing
    /\ UNCHANGED <<host, app, hardware, sequence, opened, trailing, wire>>

\* What the sender does with one CAN_SEND_NOW (ok: a send succeeds): next is
\* the sender after it, again whether it asks for another event, and sent
\* holds the state that went out, if any.
Turn(ok) ==
    IF sender.running /\ sender.neutral_send_pending
    THEN [next  |-> [sender EXCEPT !.neutral_send_pending = ~ok],
          again |-> ~ok,
          sent  |-> IF ok THEN {Neutral} ELSE {}]
    ELSE IF sender.running /\ sender.replies # <<>>
    THEN [next  |-> IF ok THEN [sender EXCEPT !.replies = Tail(@)] ELSE sender,
          again |-> ok /\ Len(sender.replies) > 1,
          sent  |-> IF ok THEN {Head(sender.replies)} ELSE {}]
    ELSE [next  |-> sender,
          again |-> FALSE,
          sent  |-> IF sender.running /\ ok
                    THEN {domain_read_controller_state(app)} ELSE {}]

\* CAN_SEND_NOW. A shutdown that waited for its neutral report has had its
\* turn and goes on, whether the report was sent or failed again.
can_send_now(ok, disconnected) ==
    /\ phase = "loop"
    /\ link
    /\ can_send
    /\ LET turn == Turn(ok)
       IN  /\ can_send' = turn.again
           /\ wire' = IF turn.sent = {} THEN wire ELSE CHOOSE s \in turn.sent : TRUE
           /\ trailing' = (trailing \/ (sender.neutral_send_pending /\ ok))
           /\ neutral_pending' = FALSE
           /\ IF neutral_pending
              THEN finish_shutdown(turn.next, disconnect_pending, disconnected)
              ELSE sender' = turn.next /\ UNCHANGED finishing
    /\ UNCHANGED <<host, app, hardware, link, sequence, opened>>

\* The sender's timer expired: it asks for its turn.
report_timer_expires ==
    /\ phase = "loop"
    /\ link
    /\ sender.running
    /\ can_send' = TRUE
    /\ UNCHANGED <<host, app, hardware, sender, link, sequence, neutral_pending,
                   finishing, opened, trailing, wire>>

QueueReply(limit) ==
    /\ phase = "loop"
    /\ link
    /\ sender.running
    /\ Len(sender.replies) < limit
    /\ sender' = [sender EXCEPT !.replies = Append(@, app.state)]
    /\ can_send' = TRUE
    /\ UNCHANGED <<host, app, hardware, link, sequence, neutral_pending,
                   finishing, opened, trailing, wire>>

\* Mutant: off by one in the check for a full queue.
on_output_report_overfills == QueueReply(Capacity + 1)

\* A subcommand of the Switch: its reply is built now, with the state of now,
\* and dropped when the queue is full.
on_output_report == QueueReply(Capacity)

\* The IPC pump polls: the client acquires, updates, or goes.
ipc_poll ==
    /\ phase = "loop"
    /\ pump_timer
    /\ app' \in {domain_acquire(app, Client).app,
                 domain_revoke(app, "DISCONNECT", Client).app}
                \cup {domain_set_state(app, Client, s, 0).app : s \in States}
    /\ app'.accepted <= MaxUpdates
    /\ app'.rejected = app.rejected
    /\ UNCHANGED <<host, hardware, hid, sequence, neutral_pending, finishing,
                   opened, trailing, wire>>

-----------------------------------------------------------------------------
(* The end of main.                                                        *)

run_loop_returns ==
    /\ phase = "loop"
    /\ exit
    /\ phase' = "returned"
    /\ UNCHANGED <<up, pump_timer, app, hardware, hid, sequence, neutral_pending,
                   finishing, opened, trailing, wire>>

\* power off again, and runtime_host_stop begins: a neutral domain.
power_off_cleanup ==
    /\ phase = "returned"
    /\ phase' = "stopping"
    /\ power_off
    /\ app' = domain_revoke(app, "SHUTDOWN", 0).app
    /\ UNCHANGED <<up, pump_timer, hardware, hid, sequence, neutral_pending,
                   disconnect_pending, disconnect_timer, exit, opened, trailing,
                   wire>>

\* Both platform_stop and ipc_stop take the pump's timer out of the run loop.
stop_resource(r) ==
    /\ phase = "stopping"
    /\ r \in up
    /\ up' = up \ {r}
    /\ pump_timer' = (pump_timer /\ r \notin {"platform", "ipc"})
    /\ sender' = IF r = "report_timer" THEN StoppedSender ELSE sender
    /\ link' = (link /\ r # "platform")
    /\ can_send' = (can_send /\ r # "platform")
    /\ UNCHANGED <<phase, app, hardware, sequence, neutral_pending, finishing,
                   opened, trailing, wire>>

\* process_stop: everything that is up, in the reverse order.
process_stop ==
    \E i \in 1 .. Len(StopOrder) :
        /\ \A j \in 1 .. i - 1 : StopOrder[j] \notin up
        /\ stop_resource(StopOrder[i])

main_returns ==
    /\ phase = "stopping"
    /\ up = {}
    /\ phase' = "stopped"
    /\ UNCHANGED <<up, pump_timer, app, hardware, hid, sequence, neutral_pending,
                   finishing, opened, trailing, wire>>

main ==
    \/ \E i \in 1 .. Len(Resources) : start_resource(i) \/ start_resource_fails(i)
    \/ power_on
    \/ power_on_fails
    \/ \E result \in {"NONE", "FAILED", "REQUESTED"}, installed \in BOOLEAN :
          enter_run_loop(result, installed)
    \/ run_loop_returns
    \/ power_off_cleanup
    \/ process_stop
    \/ main_returns

Next ==
    \/ main
    \/ request
    \/ request_queues
    \/ \E ok, disconnected \in BOOLEAN : on_main_thread(ok, disconnected)
    \/ shutdown_disconnect_timeout
    \/ active_reconnect_timeout
    \/ \E ok \in BOOLEAN : connection_opened(ok)
    \/ connection_closed
    \/ \E ok, disconnected \in BOOLEAN : can_send_now(ok, disconnected)
    \/ report_timer_expires
    \/ on_output_report
    \/ ipc_poll

Spec == Init /\ [][Next]_vars

\* Both threads keep going, the run loop runs the queued callback, its timers
\* expire, and BTstack answers a request to send on a connection.
FairSpec ==
    /\ Spec
    /\ WF_vars(main)
    /\ WF_vars(request_queues)
    /\ WF_vars(\E ok, disconnected \in BOOLEAN : on_main_thread(ok, disconnected))
    /\ WF_vars(shutdown_disconnect_timeout)
    /\ WF_vars(\E ok, disconnected \in BOOLEAN : can_send_now(ok, disconnected))

-----------------------------------------------------------------------------
TypeOK ==
    /\ phase \in {"starting", "started", "powered", "loop", "returned",
                  "stopping", "stopped"}
    /\ up \subseteq {"ipc", "platform", "hid", "output", "report_timer"}
    /\ app \in DomainValue
    /\ hardware \in {"unavailable", "failed"}
    /\ sender \in [running : BOOLEAN, neutral_send_pending : BOOLEAN,
                   replies : Seq(States)]
    /\ Len(sender.replies) <= Capacity
    /\ wire \in States
    /\ power_offs \in Nat
    /\ requesting \in Nat
    /\ pump_timer \in BOOLEAN /\ hardware_powered \in BOOLEAN
    /\ link \in BOOLEAN /\ can_send \in BOOLEAN
    /\ requested \in BOOLEAN /\ callback \in BOOLEAN
    /\ neutral_pending \in BOOLEAN /\ disconnect_pending \in BOOLEAN
    /\ disconnect_timer \in BOOLEAN /\ reconnect_timer \in BOOLEAN
    /\ exit \in BOOLEAN /\ opened \in BOOLEAN /\ trailing \in BOOLEAN

\* Whoever uses BTstack's run loop finds it alive: no timer of the daemon is
\* in it unless the platform that owns it is up, on every cleanup path, a
\* failed start included; and a console thread that is about to queue the
\* callback is the one thread past the exchange, so the loop cannot have ended
\* and main cannot have taken the platform down.
RunLoopOutlivesItsUsers ==
    (\/ pump_timer \/ disconnect_timer \/ reconnect_timer
     \/ sender.running \/ requesting > 0) => "platform" \in up

\* Once the hardware is off no report can be sent: the sender is stopped on
\* every path of finish_shutdown that gets there.
SilentAfterPowerOff == power_offs > 0 => ~sender.running

\* A shutdown whose neutral report has to wait is not cut short, and does not
\* wait for nothing: the hardware stays on and the run loop runs until the
\* report has had its turn or the connection is gone, the sender still holds
\* the report, and on the open connection a CAN_SEND_NOW is owed to it, whatever
\* replies, periodic reports and events of the connection came in between
\* (spec/architecture/daemon-architecture-cutover.md, the shutdown ordering).
PendingNeutralIsAwaited ==
    neutral_pending => /\ hardware_powered /\ ~exit
                       /\ link /\ can_send
                       /\ sender.running /\ sender.neutral_send_pending

\* When main has returned nothing is left behind, whichever step failed: the
\* power was switched off, and only once, although the shutdown's end and
\* main's cleanup both do it (the exchange of hardware_powered); no timer is
\* set, and the controller is neutral without an owner.
NothingLeftBehind ==
    /\ power_offs <= 1
    /\ phase = "stopped" =>
        /\ ~hardware_powered
        /\ sender = StoppedSender
        /\ ~(pump_timer \/ disconnect_timer \/ reconnect_timer)
        /\ ~app.lease.has_owner
        /\ app.state = Neutral

\* The active reconnect is not reported as failed once a connection was
\* opened, not even when it has closed again before the 60 s are over.
NoFailureAfterOpen ==
    [][ (hardware = "unavailable" /\ hardware' = "failed") => ~opened ]_vars

\* A requested shutdown ends the process, whether the neutral report or the
\* disconnect succeeds, fails or is never answered.
ShutdownCompletes == requested ~> (phase = "stopped")

\* spec/architecture/daemon-architecture-cutover.md, lines 925-927: the last
\* report that is not neutral comes before the trailing neutral report.
TrailingNeutralIsLast == trailing => wire = Neutral
=============================================================================
