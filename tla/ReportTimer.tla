----------------------------- MODULE ReportTimer -----------------------------
(***************************************************************************)
(* The input report sender of one HID connection:                          *)
(* swbt/btstack_bridge/input_report_timer_adapter.c with its scheduler     *)
(* (input_report_scheduler.c) and its queue of 0x21 subcommand replies     *)
(* (subcommand_reply_queue.c, used here as the FIFO it implements).        *)
(*                                                                         *)
(* Everything runs on BTstack's main loop, one handler at a time; what     *)
(* interleaves is the order of the events: a timer that expires, a         *)
(* CAN_SEND_NOW answer, a subcommand of the Switch, a shutdown, and the    *)
(* connection going up and down. BTstack is external: its timer list, its  *)
(* 32 bit millisecond clock, the coalesced can-send-now request and a      *)
(* single HID connection.                                                  *)
(*                                                                         *)
(* The code reads a clock in milliseconds and computes in microseconds;    *)
(* UsPerMs keeps the two units, and with them the rounding, apart.         *)
(***************************************************************************)
EXTENDS Naturals, Sequences

CONSTANTS
    UsPerMs,        \* microseconds in a millisecond, 1000
    Period,         \* report_period_us
    Holdoff,        \* SWBT_BTSTACK_REPLY_PERIODIC_HOLDOFF_US
    Capacity,       \* SWBT_BTSTACK_SUBCOMMAND_REPLY_QUEUE_CAPACITY
    TimerMod,       \* values of the report timer byte, 256
    ClockMod,       \* values of the millisecond clock, 2^32
    MaxTime,        \* bound: last clock value reached; ClockMod - 1 lets it wrap
    PortMayRefuse   \* whether the HID port may refuse to send a report

ASSUME ReportTimerAssumption ==
    /\ UsPerMs \in Nat \ {0}
    /\ Period \in Nat \ {0}
    /\ Holdoff \in Nat
    /\ Capacity \in Nat \ {0}
    /\ TimerMod \in Nat \ {0, 1}
    /\ ClockMod \in Nat \ {0}
    /\ MaxTime \in 0 .. ClockMod - 1
    /\ PortMayRefuse \in BOOLEAN

VARIABLES
    \* the adapter
    running, timer_pending, can_send_pending, neutral_send_pending,
    holdoff_until,      \* periodic_holdoff_until_us
    reply_queue,        \* queued replies, each the session it answers
    \* its scheduler
    next_deadline,      \* next_deadline_us
    timer,              \* the timer byte of the next report
    \* BTstack
    now,                \* btstack_run_loop_get_time_ms()
    link,               \* the HID connection is up
    run_loop,           \* the timer source: is it in the list, when it expires
    requested,          \* a CAN_SEND_NOW event is due
    \* history
    session,            \* parity of the connection
    wire,               \* the kind of the last report sent on this connection
    reply_at,           \* when the reply that holds reports off was sent
    last_periodic       \* when the last periodic report was sent

adapter == <<running, timer_pending, can_send_pending, neutral_send_pending,
             holdoff_until, reply_queue, next_deadline, timer>>
btstack == <<now, link, run_loop, requested>>
history == <<session, wire, reply_at, last_periodic>>
vars == <<adapter, btstack, history>>

Never == [at |-> 0, valid |-> FALSE]

now_us == now * UsPerMs

-----------------------------------------------------------------------------
(* The run loop timer and the schedule.                                    *)

\* Mutant: the remaining microseconds are cut off instead of rounded up.
delay_ms_until_rounds_down(time_us, deadline_us) ==
    IF deadline_us <= time_us THEN 0
    ELSE LET delay_ms == (deadline_us - time_us) \div UsPerMs
         IN  IF delay_ms > ClockMod - 1 THEN ClockMod - 1 ELSE delay_ms

\* Rounded up, so that the timer never expires before the deadline.
delay_ms_until(time_us, deadline_us) ==
    IF deadline_us <= time_us THEN 0
    ELSE LET delay_ms == (deadline_us - time_us + UsPerMs - 1) \div UsPerMs
         IN  IF delay_ms > ClockMod - 1 THEN ClockMod - 1 ELSE delay_ms

\* btstack_run_loop_set_timer.
set_timer(delay_ms) == (now + delay_ms) % ClockMod

\* BTstack compares clock values by their signed 32 bit difference.
expired(timeout) ==
    LET delta == (timeout + ClockMod - now) % ClockMod
    IN  delta = 0 \/ delta > ClockMod \div 2

\* Add the timer for the later of the deadline and the end of the holdoff.
schedule_next_timer ==
    LET deadline == IF holdoff_until' > next_deadline'
                    THEN holdoff_until' ELSE next_deadline'
    IN  /\ timer_pending' = TRUE
        /\ run_loop' = [armed   |-> TRUE,
                        timeout |-> set_timer(delay_ms_until(now_us, deadline))]

\* Mutant: a stop forgets to take the timer out of BTstack's list.
cancel_pending_timer_forgets ==
    /\ timer_pending' = FALSE
    /\ UNCHANGED run_loop

cancel_pending_timer ==
    /\ timer_pending' = FALSE
    /\ run_loop' = IF timer_pending THEN [run_loop EXCEPT !.armed = FALSE]
                                    ELSE run_loop

\* Mutant: after a late report the schedule keeps every missed deadline.
scheduler_advance_keeps_backlog == next_deadline + Period

\* The next deadline is one period on; after a late report it restarts from now.
scheduler_advance ==
    LET next == next_deadline + Period
    IN  IF next <= now_us THEN now_us + Period ELSE next

-----------------------------------------------------------------------------
(* Sending. The three kinds of report share the scheduler's timer byte;    *)
(* each path takes it, and moves it on, for itself.                        *)

\* Whether a send succeeds. BTstack's void send is reported as a success; the
\* port's contract allows a failure.
SendResults == {TRUE, ~PortMayRefuse}

\* A report of this kind is handed to the port.
send_interrupt_message(kind, ok) == wire' = IF ok THEN kind ELSE wire

\* send_hidp_input_report of a 0x21 reply: it stamps the timer byte on the
\* message and moves it on once the port took the message.
send_reply_report(ok) ==
    /\ send_interrupt_message("reply", ok)
    /\ timer' = IF ok THEN (timer + 1) % TimerMod ELSE timer

\* send_neutral_report builds a 0x30 report, which send_hidp_input_report
\* passes on as it is, and moves the byte on itself.
send_neutral_report(ok) ==
    /\ send_interrupt_message("neutral", ok)
    /\ timer' = IF ok THEN (timer + 1) % TimerMod ELSE timer

\* scheduler_tick of a due report: the deadline moves on whatever the port
\* answers, the byte only after a report that went out.
scheduler_tick(ok) ==
    /\ send_interrupt_message("periodic", ok)
    /\ next_deadline' = scheduler_advance
    /\ timer' = IF ok THEN (timer + 1) % TimerMod ELSE timer

-----------------------------------------------------------------------------
Init ==
    /\ running = FALSE
    /\ timer_pending = FALSE
    /\ can_send_pending = FALSE
    /\ neutral_send_pending = FALSE
    /\ holdoff_until = 0
    /\ reply_queue = <<>>
    /\ next_deadline = 0
    /\ timer = 0
    /\ now = 0
    /\ link = FALSE
    /\ run_loop = [armed |-> FALSE, timeout |-> 0]
    /\ requested = FALSE
    /\ session = 0
    /\ wire = "none"
    /\ reply_at = Never
    /\ last_periodic = Never

\* adapter_start on CONNECTION_OPENED. It clears the flags without looking at
\* the timer list or the queue, which the previous stop must have emptied.
start ==
    /\ ~link
    /\ link' = TRUE
    /\ running' = TRUE
    /\ can_send_pending' = FALSE
    /\ neutral_send_pending' = FALSE
    /\ holdoff_until' = 0
    /\ next_deadline' = now_us + Period
    /\ timer' = 0
    /\ schedule_next_timer
    /\ session' = 1 - session
    /\ wire' = "none"
    /\ reply_at' = Never
    /\ last_periodic' = Never
    /\ UNCHANGED <<reply_queue, now, requested>>

\* Mutant: the replies of the old connection survive the stop.
adapter_stop_keeps_replies ==
    /\ running' = FALSE
    /\ can_send_pending' = FALSE
    /\ neutral_send_pending' = FALSE
    /\ holdoff_until' = 0
    /\ cancel_pending_timer
    /\ UNCHANGED <<reply_queue, next_deadline, timer>>

\* adapter_stop also stops the scheduler, whose running flag always equals
\* the adapter's.
adapter_stop ==
    /\ running' = FALSE
    /\ can_send_pending' = FALSE
    /\ neutral_send_pending' = FALSE
    /\ holdoff_until' = 0
    /\ reply_queue' = <<>>
    /\ cancel_pending_timer
    /\ UNCHANGED <<next_deadline, timer>>

\* CONNECTION_CLOSED: BTstack drops the connection's pending request.
connection_closed ==
    /\ link
    /\ link' = FALSE
    /\ requested' = FALSE
    /\ adapter_stop
    /\ UNCHANGED <<now, history>>

\* The daemon stops the sender while the connection is still up.
stop ==
    /\ running
    /\ adapter_stop
    /\ UNCHANGED <<now, link, requested, history>>

\* on_timer. BTstack takes the expired timer out of its list first. The timer
\* is set past the holdoff, so the first branch needs a clock that wrapped.
on_timer ==
    /\ run_loop.armed
    /\ expired(run_loop.timeout)
    /\ IF ~running
       THEN /\ run_loop' = [run_loop EXCEPT !.armed = FALSE]
            /\ UNCHANGED <<timer_pending, can_send_pending, requested,
                           holdoff_until, next_deadline>>
       ELSE IF now_us < holdoff_until
       THEN /\ UNCHANGED <<can_send_pending, requested, holdoff_until, next_deadline>>
            /\ schedule_next_timer
       ELSE /\ run_loop' = [run_loop EXCEPT !.armed = FALSE]
            /\ timer_pending' = FALSE
            /\ can_send_pending' = TRUE
            /\ requested' = TRUE
            /\ UNCHANGED <<holdoff_until, next_deadline>>
    /\ UNCHANGED <<running, neutral_send_pending, reply_queue, timer, now, link,
                   history>>

-----------------------------------------------------------------------------
(* on_can_send_now, by the branch it takes.                                *)

\* BTstack answers a request once.
CanSendNow == link /\ requested

on_can_send_now_stopped ==
    /\ CanSendNow
    /\ ~running
    /\ requested' = FALSE
    /\ UNCHANGED <<adapter, now, link, run_loop, history>>

\* Sends the pending neutral report; again: whether a failed send asks anew.
SendPendingNeutral(ok, again) ==
    /\ CanSendNow
    /\ running
    /\ neutral_send_pending
    /\ send_neutral_report(ok)
    /\ requested' = (~ok /\ again)
    /\ neutral_send_pending' = ~ok
    /\ UNCHANGED next_deadline
    /\ IF ok
       THEN /\ can_send_pending' = FALSE
            /\ holdoff_until' = 0
            /\ schedule_next_timer
            /\ reply_at' = Never
       ELSE UNCHANGED <<timer_pending, can_send_pending, holdoff_until, run_loop,
                        reply_at>>
    /\ UNCHANGED <<running, reply_queue, now, link, session, last_periodic>>

\* Mutant: a failed neutral report does not ask to send again.
on_can_send_now_neutral_gives_up(ok) == SendPendingNeutral(ok, FALSE)

\* The neutral report that could not be sent at once goes before everything
\* else and restarts the schedule without a holdoff; on failure it is retried.
on_can_send_now_neutral(ok) == SendPendingNeutral(ok, TRUE)

\* Sends the oldest reply. On success it leaves the queue, periodic reports
\* are held off until hold, and again says whether to ask for the next one. A
\* failed send keeps the reply in the queue and asks for nothing.
SendReply(ok, hold, again) ==
    /\ CanSendNow
    /\ running
    /\ ~neutral_send_pending
    /\ reply_queue # <<>>
    /\ send_reply_report(ok)
    /\ requested' = (ok /\ again)
    /\ UNCHANGED next_deadline
    /\ IF ok
       THEN /\ reply_queue' = Tail(reply_queue)
            /\ holdoff_until' = hold
            /\ can_send_pending' = FALSE
            /\ schedule_next_timer
            /\ reply_at' = [at |-> now_us, valid |-> TRUE]
       ELSE UNCHANGED <<reply_queue, holdoff_until, can_send_pending,
                        timer_pending, run_loop, reply_at>>
    /\ UNCHANGED <<running, neutral_send_pending, now, link, session,
                   last_periodic>>

\* Mutant: the next queued reply is not asked for.
on_can_send_now_reply_asks_once(ok) == SendReply(ok, now_us + Holdoff, FALSE)

\* Mutant: the holdoff of a reply is added to the one that is running.
on_can_send_now_reply_adds_up(ok) ==
    SendReply(ok, (IF holdoff_until > now_us THEN holdoff_until ELSE now_us) + Holdoff,
              Len(reply_queue) > 1)

\* Mutant: a reply does not hold the periodic reports off.
on_can_send_now_reply_no_holdoff(ok) ==
    SendReply(ok, holdoff_until, Len(reply_queue) > 1)

\* A reply takes the place of a periodic report that was due: the timer is
\* set again, past the holdoff.
on_can_send_now_reply(ok) ==
    SendReply(ok, now_us + Holdoff, Len(reply_queue) > 1)

\* Nothing to send: the request of an enqueue whose reply has already left.
on_can_send_now_idle ==
    /\ CanSendNow
    /\ running
    /\ ~neutral_send_pending
    /\ reply_queue = <<>>
    /\ ~can_send_pending
    /\ requested' = FALSE
    /\ UNCHANGED <<adapter, now, link, run_loop, history>>

PeriodicTurn ==
    /\ CanSendNow
    /\ running
    /\ ~neutral_send_pending
    /\ reply_queue = <<>>
    /\ can_send_pending

\* Still held off: only after the clock wrapped.
on_can_send_now_held_off ==
    /\ PeriodicTurn
    /\ now_us < holdoff_until
    /\ requested' = FALSE
    /\ can_send_pending' = FALSE
    /\ UNCHANGED <<holdoff_until, next_deadline>>
    /\ schedule_next_timer
    /\ UNCHANGED <<running, neutral_send_pending, reply_queue, timer, now, link,
                   history>>

\* scheduler_tick answers NOT_DUE: nothing is sent and nothing is scheduled.
on_can_send_now_not_due ==
    /\ PeriodicTurn
    /\ now_us >= holdoff_until
    /\ now_us < next_deadline
    /\ requested' = FALSE
    /\ can_send_pending' = FALSE
    /\ UNCHANGED <<running, timer_pending, neutral_send_pending, holdoff_until,
                   reply_queue, next_deadline, timer, now, link, run_loop, history>>

\* scheduler_tick sends the periodic 0x30 report. After a failed send the
\* deadline has moved on, and nothing is scheduled.
on_can_send_now_tick(ok) ==
    /\ PeriodicTurn
    /\ now_us >= holdoff_until
    /\ now_us >= next_deadline
    /\ requested' = FALSE
    /\ can_send_pending' = FALSE
    /\ scheduler_tick(ok)
    /\ IF ok
       THEN /\ holdoff_until' = 0
            /\ schedule_next_timer
            /\ reply_at' = Never
            /\ last_periodic' = [at |-> now_us, valid |-> TRUE]
       ELSE UNCHANGED <<holdoff_until, timer_pending, run_loop, reply_at,
                        last_periodic>>
    /\ UNCHANGED <<running, neutral_send_pending, reply_queue, now, link, session>>

-----------------------------------------------------------------------------
\* A reply joins a queue that holds fewer than limit.
Enqueue(limit) ==
    /\ link
    /\ running
    /\ Len(reply_queue) < limit
    /\ reply_queue' = Append(reply_queue, session)
    /\ requested' = TRUE
    /\ UNCHANGED <<running, timer_pending, can_send_pending, neutral_send_pending,
                   holdoff_until, next_deadline, timer, now, link, run_loop, history>>

\* Mutant: off by one in the check for a full queue.
enqueue_subcommand_reply_overfills == Enqueue(Capacity + 1)

\* enqueue_subcommand_reply: a subcommand arrived on the connection and its
\* reply is queued; a full queue, or a stopped sender, drops the reply.
enqueue_subcommand_reply == Enqueue(Capacity)

\* send_neutral_now, from a shutdown: at once, or left for CAN_SEND_NOW.
send_neutral_now(ok) ==
    /\ running
    /\ send_neutral_report(ok)
    /\ neutral_send_pending' = ~ok
    /\ requested' = (requested \/ ~ok)
    /\ UNCHANGED <<running, timer_pending, can_send_pending, holdoff_until,
                   reply_queue, next_deadline, now, link, run_loop, session,
                   reply_at, last_periodic>>

\* Time passes on the 32 bit clock.
tick ==
    /\ now < MaxTime \/ MaxTime = ClockMod - 1
    /\ now' = (now + 1) % ClockMod
    /\ UNCHANGED <<adapter, link, run_loop, requested, history>>

on_can_send_now ==
    \/ on_can_send_now_stopped
    \/ on_can_send_now_idle
    \/ on_can_send_now_held_off
    \/ on_can_send_now_not_due
    \/ \E ok \in SendResults :
          \/ on_can_send_now_neutral(ok)
          \/ on_can_send_now_reply(ok)
          \/ on_can_send_now_tick(ok)

Next ==
    \/ start
    \/ connection_closed
    \/ stop
    \/ on_timer
    \/ on_can_send_now
    \/ enqueue_subcommand_reply
    \/ \E ok \in SendResults : send_neutral_now(ok)
    \/ tick

Spec == Init /\ [][Next]_vars

\* BTstack delivers a CAN_SEND_NOW it owes while the connection is up, and
\* the port does not refuse the same neutral report for ever.
FairSpec ==
    /\ Spec
    /\ WF_vars(on_can_send_now)
    /\ SF_vars(on_can_send_now_neutral(TRUE))

-----------------------------------------------------------------------------
Kinds == {"none", "reply", "periodic", "neutral"}
Moment == [at : Nat, valid : BOOLEAN]

TypeOK ==
    /\ running \in BOOLEAN
    /\ timer_pending \in BOOLEAN
    /\ can_send_pending \in BOOLEAN
    /\ neutral_send_pending \in BOOLEAN
    /\ holdoff_until \in Nat
    /\ reply_queue \in Seq({0, 1})
    /\ Len(reply_queue) <= Capacity
    /\ next_deadline \in Nat
    /\ timer \in 0 .. TimerMod - 1
    /\ now \in 0 .. ClockMod - 1
    /\ link \in BOOLEAN
    /\ run_loop \in [armed : BOOLEAN, timeout : 0 .. ClockMod - 1]
    /\ requested \in BOOLEAN
    /\ session \in {0, 1}
    /\ wire \in Kinds
    /\ reply_at \in Moment
    /\ last_periodic \in Moment

\* The adapter's timer_pending says exactly whether BTstack has its timer, and
\* a stopped sender has none: so adapter_start, which clears the flag without
\* removing the timer, never adds a timer that is still in the list.
TimerListConsistent ==
    /\ run_loop.armed = timer_pending
    /\ timer_pending => running
    /\ running => link

\* While a connection is up the next periodic report is always on its way: a
\* timer is set, or it expired and a CAN_SEND_NOW is due. Holds for a port that
\* takes every report and a clock that has not wrapped.
PeriodicIsScheduled ==
    running => \/ timer_pending /\ ~can_send_pending
               \/ can_send_pending /\ ~timer_pending /\ requested

\* Every queued reply answers a subcommand of the connection that is up: none
\* survives a reconnect.
RepliesOfThisConnection ==
    /\ \A i \in 1 .. Len(reply_queue) : reply_queue[i] = session
    /\ reply_queue # <<>> => running

\* The longest time the run loop timer is ever set for, in milliseconds.
LongestWait ==
    ((IF Holdoff > Period THEN Holdoff ELSE Period) + UsPerMs - 1) \div UsPerMs

\* However many replies leave back to back, and however late the sender ran,
\* the periodic report is put off by at most one period or one holdoff from
\* now: holdoffs do not add up, and neither a reply's rescheduling nor a late
\* report pushes the timer further away. For a port that takes every report
\* and a clock, timeouts included, that has not wrapped.
NextReportIsNear ==
    running =>
        /\ next_deadline <= now_us + Period
        /\ holdoff_until <= now_us + Holdoff
        /\ timer_pending => run_loop.timeout <= now + LongestWait

PeriodicSent == timer' # timer /\ wire' = "periodic"

\* After a 0x21 reply no periodic report is sent for the holdoff time, however
\* timer, request and queue interleave. (A retried neutral report ends the
\* holdoff early.)
HoldoffIsKept ==
    [][ PeriodicSent /\ reply_at.valid
        => now_us >= reply_at.at + Holdoff ]_vars

\* A sender that was late does not catch up: no two periodic reports are sent
\* in the same millisecond (scheduler_advance restarts from now).
NoCatchUpBurst ==
    [][ PeriodicSent /\ last_periodic.valid => now_us > last_periodic.at ]_vars

\* Replies never get stuck in the queue, whatever length it has: one leaves,
\* another joins, or the connection ends. For a port that takes every report.
RepliesKeepMoving ==
    \A n \in 1 .. Capacity : Len(reply_queue) = n ~> Len(reply_queue) # n

\* The neutral report of a shutdown, once pending, is sent or the connection
\* is gone.
PendingNeutralLeaves == neutral_send_pending ~> ~neutral_send_pending
=============================================================================
