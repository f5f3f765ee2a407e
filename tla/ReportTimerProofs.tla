-------------------------- MODULE ReportTimerProofs --------------------------
(***************************************************************************)
(* Proofs about ReportTimer, for any period, holdoff, queue capacity and   *)
(* widths of the timer byte and of the clock. What the first part proves   *)
(* holds whether or not the port refuses reports and the clock wraps; the  *)
(* second part needs a port that takes them and a clock before its wrap.   *)
(***************************************************************************)
EXTENDS ReportTimer, SequenceTheorems, TLAPS

-----------------------------------------------------------------------------
(* Clock arithmetic.                                                       *)

\* A value reduced to the width of a counter is a value of the counter.
LEMMA ModRange == \A a \in Nat, m \in Nat \ {0} : a % m \in 0 .. m - 1
OBVIOUS

\* A value the counter holds, and that value after one turn of the counter,
\* reduce to the value itself.
LEMMA ModOneTurn ==
    \A a \in Nat, m \in Nat \ {0} : a < m => a % m = a /\ (a + m) % m = a
OBVIOUS

\* delay_ms_until rounds up: the delay reaches the deadline, and is no longer
\* than the longest wait rounded up.
LEMMA CeilDiv ==
    \A a, b \in Nat, m \in Nat \ {0} :
        /\ (a + m - 1) \div m \in Nat
        /\ ((a + m - 1) \div m) * m >= a
        /\ a <= b => (a + m - 1) \div m <= (b + m - 1) \div m
OBVIOUS

\* Milliseconds compare as their microseconds do.
LEMMA MulMono ==
    \A a, b, m \in Nat : /\ a * m \in Nat
                         /\ (a + b) * m = a * m + b * m
                         /\ a <= b => a * m <= b * m
OBVIOUS

\* The delay of the run loop timer is a number of milliseconds.
LEMMA DelayNat ==
    ASSUME NEW t \in Nat, NEW d \in Nat
    PROVE  delay_ms_until(t, d) \in Nat
<1>1. CASE d <= t
  BY <1>1 DEF delay_ms_until
<1>2. CASE ~(d <= t)
  <2>1. d - t \in Nat
    BY <1>2
  <2>2. (d - t + UsPerMs - 1) \div UsPerMs \in Nat
    BY <2>1, CeilDiv, ReportTimerAssumption
  <2> QED BY <1>2, <2>2, ReportTimerAssumption DEF delay_ms_until
<1> QED BY <1>1, <1>2

-----------------------------------------------------------------------------
(* With faults: the inductive invariant.                                   *)

\* While the sender runs, the holdoff is that of the reply it remembers, and
\* the deadline lies past the last periodic report.
ScheduleInv ==
    running =>
        /\ reply_at.valid => holdoff_until = reply_at.at + Holdoff
        /\ last_periodic.valid => next_deadline > last_periodic.at

IInv ==
    /\ TypeOK
    /\ TimerListConsistent
    /\ RepliesOfThisConnection
    /\ ScheduleInv

\* The clock in microseconds.
LEMMA NowNat ==
    ASSUME TypeOK
    PROVE  now \in Nat /\ now_us \in Nat /\ now_us = now * UsPerMs
BY MulMono, ReportTimerAssumption DEF TypeOK, now_us

\* schedule_next_timer leaves one timer in BTstack's list.
LEMMA ScheduleFacts ==
    ASSUME TypeOK, holdoff_until' \in Nat, next_deadline' \in Nat, schedule_next_timer
    PROVE  /\ timer_pending' = TRUE
           /\ run_loop' \in [armed : BOOLEAN, timeout : 0 .. ClockMod - 1]
           /\ run_loop'.armed = TRUE
<1> DEFINE deadline == IF holdoff_until' > next_deadline'
                       THEN holdoff_until' ELSE next_deadline'
           delay == delay_ms_until(now_us, deadline)
<1>1. deadline \in Nat
  OBVIOUS
<1> HIDE DEF deadline
<1>2. delay \in Nat /\ now \in Nat
  BY <1>1, NowNat, DelayNat
<1>3. timer_pending' = TRUE /\ run_loop' = [armed |-> TRUE, timeout |-> set_timer(delay)]
  BY DEF schedule_next_timer, deadline
<1> HIDE DEF delay
<1>4. set_timer(delay) \in 0 .. ClockMod - 1
  <2>1. now + delay \in Nat
    BY <1>2
  <2> QED BY <2>1, ModRange, ReportTimerAssumption DEF set_timer
<1> QED BY <1>3, <1>4

\* Each path moves the timer byte on for itself, and only for a report that
\* went out.
LEMMA SendFacts ==
    ASSUME TypeOK, NEW kind \in Kinds, NEW ok \in BOOLEAN,
           send_interrupt_message(kind, ok),
           timer' = IF ok THEN (timer + 1) % TimerMod ELSE timer
    PROVE  /\ timer' \in 0 .. TimerMod - 1
           /\ wire' \in Kinds
           /\ ok => wire' = kind
           /\ ~ok => timer' = timer
<1>1. timer + 1 \in Nat /\ timer \in 0 .. TimerMod - 1 /\ wire \in Kinds
  BY DEF TypeOK
<1>2. (timer + 1) % TimerMod \in 0 .. TimerMod - 1
  BY <1>1, ModRange, ReportTimerAssumption
<1> QED BY <1>1, <1>2 DEF send_interrupt_message

\* A stopped sender, no timer and an empty queue to begin with.
LEMMA InitIInv == Init => IInv
<1> SUFFICES ASSUME Init PROVE IInv
  OBVIOUS
<1>1. reply_queue \in Seq({0, 1}) /\ Len(reply_queue) = 0
  BY EmptySeq DEF Init
<1>2. /\ timer \in 0 .. TimerMod - 1 /\ now \in 0 .. ClockMod - 1
      /\ 0 \in 0 .. ClockMod - 1 /\ 0 \in 0 .. TimerMod - 1
      /\ Len(reply_queue) <= Capacity
  BY <1>1, ReportTimerAssumption DEF Init
<1>3. /\ run_loop \in [armed : BOOLEAN, timeout : 0 .. ClockMod - 1]
      /\ wire \in Kinds
      /\ reply_at \in Moment /\ last_periodic \in Moment
  BY <1>2 DEF Init, Never, Moment, Kinds
<1>4. TypeOK
  BY <1>1, <1>2, <1>3 DEF Init, TypeOK
<1>5. RepliesOfThisConnection
  BY <1>1 DEF Init, RepliesOfThisConnection
<1> QED BY <1>4, <1>5 DEF Init, IInv, TimerListConsistent, ScheduleInv

\* The connection goes up: nothing of the last one is found.
LEMMA StartKeepsIInv ==
    ASSUME IInv, start
    PROVE  IInv'
<1>1. TypeOK /\ ~running /\ reply_queue = <<>>
  BY DEF start, IInv, TimerListConsistent, RepliesOfThisConnection
<1>2. holdoff_until' = 0 /\ next_deadline' = now_us + Period
  BY DEF start
<1>3. holdoff_until' \in Nat /\ next_deadline' \in Nat
  BY <1>1, <1>2, NowNat, ReportTimerAssumption
<1>4. /\ timer_pending' = TRUE
      /\ run_loop' \in [armed : BOOLEAN, timeout : 0 .. ClockMod - 1]
      /\ run_loop'.armed = TRUE
  BY <1>1, <1>3, ScheduleFacts DEF start
<1>5. /\ running' = TRUE /\ link' = TRUE /\ can_send_pending' = FALSE
      /\ neutral_send_pending' = FALSE /\ timer' = 0 /\ session' = 1 - session
      /\ wire' = "none" /\ reply_at' = Never /\ last_periodic' = Never
      /\ UNCHANGED <<reply_queue, now, requested>>
  BY DEF start
<1>6. /\ timer' \in 0 .. TimerMod - 1 /\ 0 \in 0 .. TimerMod - 1
      /\ session' \in {0, 1}
  BY <1>1, <1>5, ReportTimerAssumption DEF TypeOK
<1>7. /\ wire' \in Kinds
      /\ reply_at' \in Moment /\ last_periodic' \in Moment
  BY <1>5, <1>6 DEF Never, Moment, Kinds
<1>8. TypeOK'
  BY <1>1, <1>3, <1>4, <1>5, <1>6, <1>7 DEF TypeOK
<1>9. RepliesOfThisConnection'
  BY <1>1, <1>5, EmptySeq DEF RepliesOfThisConnection
<1> QED BY <1>4, <1>5, <1>8, <1>9 DEF IInv, TimerListConsistent,
           ScheduleInv, Never

\* adapter_stop takes the timer and the replies along.
LEMMA StopKeepsIInv ==
    ASSUME IInv, adapter_stop, link' \in BOOLEAN, requested' \in BOOLEAN,
           UNCHANGED <<now, history>>
    PROVE  IInv'
<1>1. /\ running' = FALSE /\ can_send_pending' = FALSE /\ neutral_send_pending' = FALSE
      /\ holdoff_until' = 0 /\ reply_queue' = <<>> /\ timer_pending' = FALSE
      /\ run_loop' = IF timer_pending THEN [run_loop EXCEPT !.armed = FALSE] ELSE run_loop
      /\ UNCHANGED <<next_deadline, timer, session, wire, reply_at, last_periodic>>
  BY DEF adapter_stop, cancel_pending_timer, history
<1>2. TypeOK /\ run_loop.armed = timer_pending
  BY DEF IInv, TimerListConsistent
<1>3. /\ run_loop' \in [armed : BOOLEAN, timeout : 0 .. ClockMod - 1]
      /\ run_loop'.armed = FALSE
  <2>1. run_loop \in [armed : BOOLEAN, timeout : 0 .. ClockMod - 1]
    BY <1>2 DEF TypeOK
  <2>2. timer_pending \in BOOLEAN
    BY <1>2 DEF TypeOK
  <2> QED BY <1>1, <1>2, <2>1, <2>2
<1>4. reply_queue' \in Seq({0, 1}) /\ Len(reply_queue') = 0
  BY <1>1, EmptySeq
<1>5. Len(reply_queue') <= Capacity
  BY <1>4, ReportTimerAssumption
<1>6. TypeOK'
  BY <1>1, <1>2, <1>3, <1>4, <1>5 DEF TypeOK
<1>7. RepliesOfThisConnection'
  BY <1>1, <1>4 DEF RepliesOfThisConnection
<1> QED BY <1>1, <1>3, <1>6, <1>7 DEF IInv, TimerListConsistent,
           ScheduleInv

\* The timer expires: it leaves the list, and comes back at most once.
LEMMA TimerKeepsIInv ==
    ASSUME IInv, on_timer
    PROVE  IInv'
<1>1. /\ TypeOK /\ running
      /\ UNCHANGED <<running, neutral_send_pending, reply_queue, timer, now, link,
                     session, wire, reply_at, last_periodic>>
  BY DEF on_timer, history, IInv, TimerListConsistent
<1>2. RepliesOfThisConnection'
  BY <1>1 DEF IInv, RepliesOfThisConnection
<1>3. CASE now_us < holdoff_until
  <2>1. /\ UNCHANGED <<can_send_pending, requested, holdoff_until, next_deadline>>
        /\ schedule_next_timer
    BY <1>1, <1>3 DEF on_timer
  <2>2. /\ timer_pending' = TRUE
        /\ run_loop' \in [armed : BOOLEAN, timeout : 0 .. ClockMod - 1]
        /\ run_loop'.armed = TRUE
    BY <1>1, <2>1, ScheduleFacts DEF TypeOK
  <2>3. TypeOK'
    BY <1>1, <2>1, <2>2 DEF TypeOK
  <2> QED BY <1>1, <1>2, <2>1, <2>2, <2>3 DEF IInv, TimerListConsistent, ScheduleInv
<1>4. CASE ~(now_us < holdoff_until)
  <2>1. /\ run_loop' = [run_loop EXCEPT !.armed = FALSE]
        /\ timer_pending' = FALSE /\ can_send_pending' = TRUE /\ requested' = TRUE
        /\ UNCHANGED <<holdoff_until, next_deadline>>
    BY <1>1, <1>4 DEF on_timer
  <2>2. /\ run_loop' \in [armed : BOOLEAN, timeout : 0 .. ClockMod - 1]
        /\ run_loop'.armed = FALSE
    <3>1. run_loop \in [armed : BOOLEAN, timeout : 0 .. ClockMod - 1]
      BY <1>1 DEF TypeOK
    <3> QED BY <2>1, <3>1
  <2>3. TypeOK'
    BY <1>1, <2>1, <2>2 DEF TypeOK
  <2> QED BY <1>1, <1>2, <2>1, <2>2, <2>3 DEF IInv, TimerListConsistent, ScheduleInv
<1> QED BY <1>3, <1>4

\* The neutral report of a shutdown has its turn.
LEMMA NeutralKeepsIInv ==
    ASSUME IInv, NEW ok \in BOOLEAN, on_can_send_now_neutral(ok)
    PROVE  IInv'
<1>1. /\ TypeOK /\ running
      /\ send_interrupt_message("neutral", ok)
      /\ timer' = IF ok THEN (timer + 1) % TimerMod ELSE timer
      /\ requested' = (~ok /\ TRUE) /\ neutral_send_pending' = ~ok
      /\ UNCHANGED <<next_deadline, running, reply_queue, now, link, session, last_periodic>>
  BY DEF on_can_send_now_neutral, SendPendingNeutral, send_neutral_report, IInv
<1>2. /\ timer' \in 0 .. TimerMod - 1
      /\ wire' \in Kinds
  BY <1>1, SendFacts DEF Kinds
<1>3. RepliesOfThisConnection'
  BY <1>1 DEF IInv, RepliesOfThisConnection
<1>4. CASE ok
  <2>1. /\ can_send_pending' = FALSE /\ holdoff_until' = 0
        /\ schedule_next_timer /\ reply_at' = Never
    BY <1>4 DEF on_can_send_now_neutral, SendPendingNeutral
  <2>2. /\ timer_pending' = TRUE
        /\ run_loop' \in [armed : BOOLEAN, timeout : 0 .. ClockMod - 1]
        /\ run_loop'.armed = TRUE
    BY <1>1, <2>1, ScheduleFacts DEF TypeOK
  <2>3. reply_at' \in Moment /\ ~reply_at'.valid
    BY <2>1 DEF Never, Moment
  <2>4. TypeOK'
    BY <1>1, <1>2, <2>1, <2>2, <2>3 DEF TypeOK
  <2> QED BY <1>1, <1>2, <1>3, <2>1, <2>2, <2>3, <2>4 DEF IInv, TimerListConsistent,
             ScheduleInv
<1>5. CASE ~ok
  <2>1. UNCHANGED <<timer_pending, can_send_pending, holdoff_until, run_loop, reply_at>>
    BY <1>5 DEF on_can_send_now_neutral, SendPendingNeutral
  <2>2. TypeOK'
    BY <1>1, <1>2, <2>1 DEF TypeOK
  <2> QED BY <1>1, <1>2, <1>3, <2>1, <2>2 DEF IInv, TimerListConsistent, ScheduleInv
<1> QED BY <1>4, <1>5

\* The oldest reply has its turn.
LEMMA ReplyKeepsIInv ==
    ASSUME IInv, NEW ok \in BOOLEAN, on_can_send_now_reply(ok)
    PROVE  IInv'
<1>1. /\ TypeOK /\ running /\ reply_queue # <<>>
      /\ send_interrupt_message("reply", ok)
      /\ timer' = IF ok THEN (timer + 1) % TimerMod ELSE timer
      /\ requested' = (ok /\ Len(reply_queue) > 1)
      /\ UNCHANGED <<next_deadline, running, neutral_send_pending, now, link, session,
                     last_periodic>>
  BY DEF on_can_send_now_reply, SendReply, send_reply_report, IInv
<1>2. /\ timer' \in 0 .. TimerMod - 1
      /\ wire' \in Kinds
  BY <1>1, SendFacts DEF Kinds
<1>3. CASE ok
  <2>1. /\ reply_queue' = Tail(reply_queue) /\ holdoff_until' = now_us + Holdoff
        /\ can_send_pending' = FALSE /\ schedule_next_timer
        /\ reply_at' = [at |-> now_us, valid |-> TRUE]
    BY <1>3 DEF on_can_send_now_reply, SendReply
  <2>2. now_us \in Nat /\ holdoff_until' \in Nat /\ next_deadline' \in Nat
    BY <1>1, <2>1, NowNat, ReportTimerAssumption DEF TypeOK
  <2>3. /\ timer_pending' = TRUE
        /\ run_loop' \in [armed : BOOLEAN, timeout : 0 .. ClockMod - 1]
        /\ run_loop'.armed = TRUE
    BY <1>1, <2>1, <2>2, ScheduleFacts
  <2>4. reply_at' \in Moment /\ reply_at'.at = now_us
    BY <2>1, <2>2 DEF Moment
  <2>5. /\ reply_queue \in Seq({0, 1}) /\ Len(reply_queue) <= Capacity
        /\ \A i \in 1 .. Len(reply_queue) : reply_queue[i] = session
    BY <1>1 DEF TypeOK, IInv, RepliesOfThisConnection
  <2>6. /\ reply_queue' \in Seq({0, 1}) /\ Len(reply_queue') = Len(reply_queue) - 1
        /\ Len(reply_queue) \in Nat
        /\ \A i \in 1 .. Len(reply_queue') : reply_queue'[i] = reply_queue[i + 1]
    BY <1>1, <2>1, <2>5, HeadTailProperties, LenProperties
  <2>7. Len(reply_queue') <= Capacity
    BY <2>5, <2>6, ReportTimerAssumption
  <2>8. RepliesOfThisConnection'
    <3>1. \A i \in 1 .. Len(reply_queue') : reply_queue'[i] = session'
      BY <1>1, <2>5, <2>6
    <3> QED BY <1>1, <3>1 DEF RepliesOfThisConnection
  <2>9. TypeOK'
    BY <1>1, <1>2, <2>1, <2>2, <2>3, <2>4, <2>6, <2>7 DEF TypeOK
  <2> QED BY <1>1, <1>2, <2>1, <2>3, <2>4, <2>8, <2>9 DEF IInv, TimerListConsistent,
             ScheduleInv
<1>4. CASE ~ok
  <2>1. UNCHANGED <<reply_queue, holdoff_until, can_send_pending, timer_pending,
                    run_loop, reply_at>>
    BY <1>4 DEF on_can_send_now_reply, SendReply
  <2>2. TypeOK'
    BY <1>1, <1>2, <1>4, <2>1 DEF TypeOK
  <2> QED BY <1>1, <1>2, <2>1, <2>2 DEF IInv, TimerListConsistent, ScheduleInv,
             RepliesOfThisConnection
<1> QED BY <1>3, <1>4

\* scheduler_advance goes on by a period, and past now.
LEMMA AdvanceFacts ==
    ASSUME TypeOK
    PROVE  /\ scheduler_advance \in Nat
           /\ scheduler_advance > now_us
           /\ scheduler_advance > next_deadline
<1>1. now_us \in Nat /\ next_deadline \in Nat
  BY NowNat DEF TypeOK
<1> QED BY <1>1, ReportTimerAssumption DEF scheduler_advance

\* The periodic report has its turn.
LEMMA PeriodicKeepsIInv ==
    ASSUME IInv, NEW ok \in BOOLEAN, on_can_send_now_tick(ok)
    PROVE  IInv'
<1>1. /\ TypeOK /\ running
      /\ send_interrupt_message("periodic", ok)
      /\ timer' = IF ok THEN (timer + 1) % TimerMod ELSE timer
      /\ requested' = FALSE /\ can_send_pending' = FALSE
      /\ next_deadline' = scheduler_advance
      /\ UNCHANGED <<running, neutral_send_pending, reply_queue, now, link, session>>
  BY DEF on_can_send_now_tick, scheduler_tick, PeriodicTurn, IInv
<1>2. /\ timer' \in 0 .. TimerMod - 1
      /\ wire' \in Kinds
  BY <1>1, SendFacts DEF Kinds
<1>3. RepliesOfThisConnection'
  BY <1>1 DEF IInv, RepliesOfThisConnection
<1>4. next_deadline' \in Nat /\ next_deadline' > now_us /\ next_deadline' > next_deadline
  BY <1>1, AdvanceFacts
<1>5. CASE ok
  <2>1. /\ holdoff_until' = 0 /\ schedule_next_timer /\ reply_at' = Never
        /\ last_periodic' = [at |-> now_us, valid |-> TRUE]
    BY <1>5 DEF on_can_send_now_tick
  <2>2. /\ timer_pending' = TRUE
        /\ run_loop' \in [armed : BOOLEAN, timeout : 0 .. ClockMod - 1]
        /\ run_loop'.armed = TRUE
    BY <1>1, <1>4, <2>1, ScheduleFacts
  <2>3. /\ reply_at' \in Moment /\ ~reply_at'.valid
        /\ last_periodic' \in Moment /\ last_periodic'.at = now_us
    BY <1>1, <2>1, NowNat DEF Never, Moment
  <2>4. TypeOK'
    BY <1>1, <1>2, <1>4, <2>1, <2>2, <2>3 DEF TypeOK
  <2> QED BY <1>1, <1>2, <1>3, <1>4, <2>1, <2>2, <2>3, <2>4 DEF IInv,
             TimerListConsistent, ScheduleInv
<1>6. CASE ~ok
  <2>1. UNCHANGED <<holdoff_until, timer_pending, run_loop, reply_at, last_periodic>>
    BY <1>6 DEF on_can_send_now_tick
  <2>2. TypeOK'
    BY <1>1, <1>2, <1>4, <2>1 DEF TypeOK
  <2>3. ScheduleInv'
    <3>1. last_periodic.at \in Nat /\ next_deadline \in Nat
      BY <1>1 DEF TypeOK, Moment
    <3> QED BY <1>1, <1>4, <2>1, <3>1 DEF IInv, ScheduleInv
  <2> QED BY <1>1, <1>2, <1>3, <2>1, <2>2, <2>3 DEF IInv, TimerListConsistent
<1> QED BY <1>5, <1>6

\* Everything else: a turn with nothing to send, a subcommand, a shutdown's
\* neutral report, the clock.
LEMMA OthersKeepIInv ==
    ASSUME IInv,
           \/ on_can_send_now_stopped \/ on_can_send_now_idle
           \/ on_can_send_now_held_off \/ on_can_send_now_not_due
           \/ enqueue_subcommand_reply
           \/ \E ok \in BOOLEAN : send_neutral_now(ok)
           \/ tick
    PROVE  IInv'
<1> USE DEF adapter, history
<1>0. TypeOK
  BY DEF IInv
<1>1. CASE on_can_send_now_stopped \/ on_can_send_now_idle
  <2>1. /\ requested' = FALSE
        /\ UNCHANGED <<adapter, now, link, run_loop, history>>
    BY <1>1 DEF on_can_send_now_stopped, on_can_send_now_idle
  <2>2. TypeOK'
    BY <1>0, <2>1 DEF TypeOK
  <2> QED BY <2>1, <2>2 DEF IInv, TimerListConsistent, RepliesOfThisConnection,
             ScheduleInv
<1>2. CASE on_can_send_now_held_off
  <2>1. /\ running /\ requested' = FALSE /\ can_send_pending' = FALSE
        /\ UNCHANGED <<holdoff_until, next_deadline, running, neutral_send_pending,
                       reply_queue, timer, now, link, history>>
        /\ schedule_next_timer
    BY <1>2 DEF on_can_send_now_held_off, PeriodicTurn
  <2>2. /\ timer_pending' = TRUE
        /\ run_loop' \in [armed : BOOLEAN, timeout : 0 .. ClockMod - 1]
        /\ run_loop'.armed = TRUE
    BY <1>0, <2>1, ScheduleFacts DEF TypeOK
  <2>3. TypeOK'
    BY <1>0, <2>1, <2>2 DEF TypeOK
  <2> QED BY <2>1, <2>2, <2>3 DEF IInv, TimerListConsistent, RepliesOfThisConnection,
             ScheduleInv
<1>3. CASE on_can_send_now_not_due
  <2>1. TypeOK'
    BY <1>0, <1>3 DEF on_can_send_now_not_due, TypeOK
  <2> QED BY <1>3, <2>1 DEF on_can_send_now_not_due, IInv, TimerListConsistent,
             RepliesOfThisConnection, ScheduleInv
<1>4. CASE enqueue_subcommand_reply
  <2>1. /\ running /\ Len(reply_queue) < Capacity
        /\ reply_queue' = Append(reply_queue, session) /\ requested' = TRUE
        /\ UNCHANGED <<running, timer_pending, can_send_pending, neutral_send_pending,
                       holdoff_until, next_deadline, timer, now, link, run_loop, history>>
    BY <1>4 DEF enqueue_subcommand_reply, Enqueue
  <2>2. /\ reply_queue \in Seq({0, 1}) /\ session \in {0, 1}
        /\ \A i \in 1 .. Len(reply_queue) : reply_queue[i] = session
    BY <1>0 DEF TypeOK, IInv, RepliesOfThisConnection
  <2>3. /\ reply_queue' \in Seq({0, 1}) /\ Len(reply_queue) \in Nat
        /\ Len(reply_queue') = Len(reply_queue) + 1
        /\ \A i \in 1 .. Len(reply_queue) : reply_queue'[i] = reply_queue[i]
        /\ reply_queue'[Len(reply_queue) + 1] = session
    BY <2>1, <2>2, AppendProperties, LenProperties
  <2>4. Len(reply_queue') <= Capacity
    BY <2>1, <2>3, ReportTimerAssumption
  <2>5. \A i \in 1 .. Len(reply_queue') : reply_queue'[i] = session'
    BY <2>1, <2>2, <2>3
  <2>6. TypeOK'
    BY <1>0, <2>1, <2>3, <2>4 DEF TypeOK
  <2> QED BY <2>1, <2>5, <2>6 DEF IInv, TimerListConsistent, RepliesOfThisConnection,
             ScheduleInv
<1>5. ASSUME NEW ok \in BOOLEAN, send_neutral_now(ok) PROVE IInv'
  <2>1. /\ send_interrupt_message("neutral", ok)
        /\ timer' = IF ok THEN (timer + 1) % TimerMod ELSE timer
        /\ neutral_send_pending' = ~ok /\ requested' = (requested \/ ~ok)
        /\ UNCHANGED <<running, timer_pending, can_send_pending, holdoff_until,
                       reply_queue, next_deadline, now, link, run_loop, session,
                       reply_at, last_periodic>>
    BY <1>5 DEF send_neutral_now, send_neutral_report
  <2>2. /\ timer' \in 0 .. TimerMod - 1
        /\ wire' \in Kinds
      BY <1>0, <2>1, SendFacts DEF Kinds
  <2>3. TypeOK'
    BY <1>0, <2>1, <2>2 DEF TypeOK
  <2> QED BY <2>1, <2>2, <2>3 DEF IInv, TimerListConsistent, RepliesOfThisConnection,
             ScheduleInv
<1>6. CASE tick
  <2>1. now' = (now + 1) % ClockMod /\ UNCHANGED <<adapter, link, run_loop, requested, history>>
    BY <1>6 DEF tick
  <2>2. now' \in 0 .. ClockMod - 1
    <3>1. now + 1 \in Nat
      BY <1>0, NowNat
    <3> QED BY <2>1, <3>1, ModRange, ReportTimerAssumption
  <2>3. TypeOK'
    BY <1>0, <2>1, <2>2 DEF TypeOK
  <2> QED BY <2>1, <2>3 DEF IInv, TimerListConsistent, RepliesOfThisConnection,
             ScheduleInv
<1> QED BY <1>1, <1>2, <1>3, <1>4, <1>5, <1>6

\* Every step keeps the invariant.
LEMMA NextIInv == IInv /\ [Next]_vars => IInv'
<1> SUFFICES ASSUME IInv, [Next]_vars PROVE IInv'
  OBVIOUS
<1>1. SendResults \subseteq BOOLEAN
  BY ReportTimerAssumption DEF SendResults
<1>2. CASE start
  BY <1>2, StartKeepsIInv
<1>3. CASE connection_closed \/ stop
  BY <1>3, StopKeepsIInv DEF connection_closed, stop, history, IInv, TypeOK
<1>4. CASE on_timer
  BY <1>4, TimerKeepsIInv
<1>5. CASE on_can_send_now
  BY <1>1, <1>5, NeutralKeepsIInv, ReplyKeepsIInv, PeriodicKeepsIInv, OthersKeepIInv
     DEF on_can_send_now
<1>6. CASE \/ enqueue_subcommand_reply
           \/ \E ok \in SendResults : send_neutral_now(ok)
           \/ tick
  BY <1>1, <1>6, OthersKeepIInv
<1>7. CASE UNCHANGED vars
  <2>1. UNCHANGED <<running, timer_pending, can_send_pending, neutral_send_pending,
                    holdoff_until, reply_queue, next_deadline, timer, now, link,
                    run_loop, requested, session, wire, reply_at, last_periodic>>
    BY <1>7 DEF vars, adapter, btstack, history
  <2> QED BY <2>1 DEF IInv, TypeOK, TimerListConsistent, RepliesOfThisConnection,
             ScheduleInv
<1> QED BY <1>2, <1>3, <1>4, <1>5, <1>6, <1>7 DEF Next

\* The inductive invariant holds in every reachable state of the sender.
THEOREM TimerInvariance == Spec => []IInv
BY InitIInv, NextIInv, PTL DEF Spec

\* Type correctness of the sender: in particular the reply queue stays within
\* its capacity, and the timer value and the report byte within their widths.
THEOREM TimerTypeCorrect == Spec => []TypeOK
<1>1. IInv => TypeOK
  BY DEF IInv
<1> QED BY <1>1, TimerInvariance, PTL

\* timer_pending and BTstack's timer list agree, so a start never adds a timer
\* that is already in the list.
THEOREM OneTimerInTheList == Spec => []TimerListConsistent
<1>1. IInv => TimerListConsistent
  BY DEF IInv
<1> QED BY <1>1, TimerInvariance, PTL

\* No reply of an old connection is sent on a new one.
THEOREM NoReplySurvives == Spec => []RepliesOfThisConnection
<1>1. IInv => RepliesOfThisConnection
  BY DEF IInv
<1> QED BY <1>1, TimerInvariance, PTL

\* Only scheduler_tick with a successful send puts a periodic report on the
\* wire.
LEMMA WhoSendsPeriodic ==
    ASSUME IInv, [Next]_vars, PeriodicSent
    PROVE  on_can_send_now_tick(TRUE)
<1>1. timer' # timer /\ wire' = "periodic"
  BY DEF PeriodicSent
<1>2. SendResults \subseteq BOOLEAN
  BY ReportTimerAssumption DEF SendResults
<1>3. TypeOK
  BY DEF IInv
<1>4. ~start
  BY <1>1 DEF start
<1>5. ASSUME NEW kind \in Kinds, NEW ok \in BOOLEAN, send_interrupt_message(kind, ok),
             timer' = IF ok THEN (timer + 1) % TimerMod ELSE timer
      PROVE  kind = "periodic" /\ ok = TRUE
  BY <1>1, <1>3, <1>5, SendFacts
<1>6. ASSUME NEW ok \in BOOLEAN
      PROVE  /\ ~on_can_send_now_neutral(ok)
             /\ ~on_can_send_now_reply(ok)
             /\ ~send_neutral_now(ok)
             /\ on_can_send_now_tick(ok) => ok = TRUE
  <2>1. "neutral" \in Kinds /\ "reply" \in Kinds /\ "periodic" \in Kinds
    BY DEF Kinds
  <2>2. ~send_neutral_report(ok) /\ ~send_reply_report(ok)
    BY <1>5, <2>1 DEF send_neutral_report, send_reply_report
  <2>3. scheduler_tick(ok) => ok = TRUE
    BY <1>5, <2>1 DEF scheduler_tick
  <2> QED BY <2>2, <2>3 DEF on_can_send_now_neutral, SendPendingNeutral,
             on_can_send_now_reply, SendReply, send_neutral_now, on_can_send_now_tick
<1>7. timer' = timer \/ start \/ (\E ok \in SendResults :
                                      \/ on_can_send_now_neutral(ok)
                                      \/ on_can_send_now_reply(ok)
                                      \/ on_can_send_now_tick(ok)
                                      \/ send_neutral_now(ok))
  BY DEF Next, vars, adapter, connection_closed, stop, adapter_stop, on_timer,
     on_can_send_now, on_can_send_now_stopped, on_can_send_now_idle,
     on_can_send_now_held_off, on_can_send_now_not_due, enqueue_subcommand_reply,
     Enqueue, tick
<1> QED BY <1>1, <1>2, <1>4, <1>6, <1>7

\* No periodic report within the holdoff of a reply, also when reports fail or
\* the timer expires early.
THEOREM HoldoffHolds == Spec => HoldoffIsKept
<1> DEFINE P == PeriodicSent /\ reply_at.valid => now_us >= reply_at.at + Holdoff
<1>1. IInv /\ [Next]_vars => P
  <2> SUFFICES ASSUME IInv, [Next]_vars, PeriodicSent, reply_at.valid
               PROVE  now_us >= reply_at.at + Holdoff
    OBVIOUS
  <2>1. running /\ now_us >= holdoff_until
    BY WhoSendsPeriodic DEF on_can_send_now_tick, PeriodicTurn
  <2> QED BY <2>1 DEF IInv, ScheduleInv
<1> QED BY <1>1, TimerInvariance, PTL DEF Spec, HoldoffIsKept

\* Never two periodic reports in one millisecond, however late the sender is.
THEOREM NoBurst == Spec => NoCatchUpBurst
<1> DEFINE P == PeriodicSent /\ last_periodic.valid => now_us > last_periodic.at
<1>1. IInv /\ [Next]_vars => P
  <2> SUFFICES ASSUME IInv, [Next]_vars, PeriodicSent, last_periodic.valid
               PROVE  now_us > last_periodic.at
    OBVIOUS
  <2>1. running /\ now_us >= next_deadline
    BY WhoSendsPeriodic DEF on_can_send_now_tick, PeriodicTurn
  <2>2. now_us \in Nat /\ next_deadline \in Nat /\ last_periodic.at \in Nat
    BY NowNat DEF IInv, TypeOK, Moment
  <2> QED BY <2>1, <2>2 DEF IInv, ScheduleInv
<1> QED BY <1>1, TimerInvariance, PTL DEF Spec, NoCatchUpBurst

-----------------------------------------------------------------------------
(* Without faults: a port that takes every report, and a clock that has    *)
(* not wrapped and counts at least twice as far as the longest wait.       *)

NoFaults ==
    /\ PortMayRefuse = FALSE
    /\ MaxTime < ClockMod - 1
    /\ LongestWait <= ClockMod \div 2

\* The longest wait is a number of milliseconds.
LEMMA LongestWaitNat == LongestWait \in Nat
<1> DEFINE longest == IF Holdoff > Period THEN Holdoff ELSE Period
<1>1. longest \in Nat
  BY ReportTimerAssumption
<1>2. LongestWait = (longest + UsPerMs - 1) \div UsPerMs
  BY DEF LongestWait
<1> HIDE DEF longest
<1> QED BY <1>1, <1>2, CeilDiv, ReportTimerAssumption

\* The timer in the list stands for a moment T of the unbounded clock that is
\* no further ahead than the longest wait and not before anything it waits for.
TimerIsLateEnough ==
    run_loop.armed =>
        \E T \in 0 .. 2 * ClockMod :
            /\ run_loop.timeout = T % ClockMod
            /\ T <= now + LongestWait
            /\ T * UsPerMs >= holdoff_until
            /\ T * UsPerMs >= next_deadline

DueInv ==
    /\ PeriodicIsScheduled
    /\ now <= MaxTime
    /\ running => next_deadline <= now_us + Period
    /\ running => holdoff_until <= now_us + Holdoff
    /\ running /\ can_send_pending => now_us >= holdoff_until /\ now_us >= next_deadline
    /\ TimerIsLateEnough

\* schedule_next_timer never sets the timer too early, and never further ahead
\* than BTstack can compare.
LEMMA ScheduledLateEnough ==
    ASSUME NoFaults, TypeOK, now' = now, schedule_next_timer,
           holdoff_until' \in Nat, next_deadline' \in Nat,
           holdoff_until' <= now_us + Holdoff, next_deadline' <= now_us + Period
    PROVE  TimerIsLateEnough'
<1> DEFINE deadline == IF holdoff_until' > next_deadline'
                       THEN holdoff_until' ELSE next_deadline'
           longest == IF Holdoff > Period THEN Holdoff ELSE Period
           delay == delay_ms_until(now_us, deadline)
           T == now + delay
<1>1. /\ now \in Nat /\ now_us \in Nat /\ now_us = now * UsPerMs
      /\ UsPerMs \in Nat \ {0} /\ ClockMod \in Nat /\ ClockMod > 1
      /\ now < ClockMod
  BY NowNat, ReportTimerAssumption DEF NoFaults, TypeOK
<1>2. /\ deadline \in Nat /\ longest \in Nat /\ deadline <= now_us + longest
      /\ deadline >= holdoff_until' /\ deadline >= next_deadline'
  BY <1>1, ReportTimerAssumption
<1>3. /\ timer_pending' = TRUE
      /\ run_loop' = [armed |-> TRUE, timeout |-> (now + delay) % ClockMod]
  BY DEF schedule_next_timer, set_timer
<1>4. LongestWait = (longest + UsPerMs - 1) \div UsPerMs
  BY DEF LongestWait
<1> HIDE DEF deadline, longest
<1>5. /\ delay \in Nat /\ delay <= LongestWait /\ delay <= ClockMod \div 2
      /\ now_us + delay * UsPerMs >= deadline
  <2>1. CASE deadline <= now_us
    <3>1. delay = 0
      BY <2>1 DEF delay_ms_until
    <3>2. LongestWait \in Nat /\ LongestWait <= ClockMod \div 2
      BY <1>1, <1>2, <1>4, CeilDiv DEF NoFaults
    <3> QED BY <1>1, <1>2, <2>1, <3>1, <3>2
  <2>2. CASE ~(deadline <= now_us)
    <3> DEFINE wait == deadline - now_us
               d == (wait + UsPerMs - 1) \div UsPerMs
    <3>1. wait \in Nat /\ wait <= longest /\ now_us + wait = deadline
      BY <1>1, <1>2, <2>2
    <3>2. delay = IF d > ClockMod - 1 THEN ClockMod - 1 ELSE d
      BY <2>2 DEF delay_ms_until
    <3> HIDE DEF wait
    <3>3. d \in Nat /\ d * UsPerMs >= wait /\ d <= LongestWait
      BY <1>1, <1>2, <1>4, <3>1, CeilDiv
    <3> HIDE DEF d
    <3>4. d <= ClockMod \div 2 /\ ClockMod \div 2 <= ClockMod - 1
      BY <1>1, <1>2, <1>4, <3>3, CeilDiv DEF NoFaults
    <3>5. delay = d
      BY <1>1, <3>2, <3>3, <3>4
    <3>6. d * UsPerMs \in Nat
      BY <1>1, <3>3, MulMono
    <3> QED BY <1>1, <1>2, <3>1, <3>3, <3>4, <3>5, <3>6
  <2> QED BY <2>1, <2>2
<1> HIDE DEF delay
<1>6. T \in 0 .. 2 * ClockMod /\ T <= now + LongestWait
  <2>1. LongestWait \in Nat
    BY <1>1, <1>2, <1>4, CeilDiv
  <2> QED BY <1>1, <1>5, <2>1
<1>7. T * UsPerMs \in Nat /\ T * UsPerMs = now_us + delay * UsPerMs
  BY <1>1, <1>5, MulMono
<1>8. T * UsPerMs >= holdoff_until' /\ T * UsPerMs >= next_deadline'
  BY <1>1, <1>2, <1>5, <1>7, MulMono
<1>9. run_loop'.timeout = T % ClockMod
  BY <1>3
<1> HIDE DEF T
<1> QED BY <1>6, <1>8, <1>9 DEF TimerIsLateEnough

\* BTstack's signed comparison says expired only when the moment has come.
LEMMA ExpiredIsDue ==
    ASSUME NoFaults, IInv, DueInv, run_loop.armed, expired(run_loop.timeout)
    PROVE  now_us >= holdoff_until /\ now_us >= next_deadline
<1>1. /\ now \in Nat /\ now_us \in Nat /\ now_us = now * UsPerMs
      /\ UsPerMs \in Nat \ {0} /\ ClockMod \in Nat /\ ClockMod > 1 /\ now < ClockMod
      /\ holdoff_until \in Nat /\ next_deadline \in Nat
  BY NowNat, ReportTimerAssumption DEF NoFaults, IInv, TypeOK
<1>2. PICK T \in 0 .. 2 * ClockMod :
         /\ run_loop.timeout = T % ClockMod
         /\ T <= now + LongestWait
         /\ T * UsPerMs >= holdoff_until
         /\ T * UsPerMs >= next_deadline
  BY DEF DueInv, TimerIsLateEnough
<1>3. T <= now
  <2> SUFFICES ASSUME now < T PROVE FALSE
    BY <1>1
  <2> DEFINE r == T - now
  <2>0. LongestWait \in Nat /\ LongestWait <= ClockMod \div 2
    BY LongestWaitNat DEF NoFaults
  <2>1. r \in Nat /\ r > 0 /\ r <= ClockMod \div 2 /\ r < ClockMod
    BY <1>1, <1>2, <2>0
  <2>2. (run_loop.timeout + ClockMod - now) % ClockMod = r
    <3>1. CASE T < ClockMod
      <4>1. run_loop.timeout = T
        BY <1>1, <1>2, <3>1, ModOneTurn
      <4>2. run_loop.timeout + ClockMod - now = r + ClockMod
        BY <1>1, <4>1
      <4> HIDE DEF r
      <4> QED BY <1>1, <2>1, <4>2, ModOneTurn
    <3>2. CASE T >= ClockMod
      <4>1. T - ClockMod \in Nat /\ T - ClockMod < ClockMod
        BY <1>1, <1>2, <2>1, <3>2
      <4>2. T = (T - ClockMod) + ClockMod
        BY <1>1
      <4>3. T % ClockMod = T - ClockMod
        BY <1>1, <4>1, <4>2, ModOneTurn
      <4>4. run_loop.timeout + ClockMod - now = r
        BY <1>1, <1>2, <4>3
      <4> HIDE DEF r
      <4> QED BY <1>1, <2>1, <4>4, ModOneTurn
    <3> QED BY <1>1, <3>1, <3>2
  <2> HIDE DEF r
  <2> QED BY <1>1, <2>1, <2>2 DEF expired
<1>4. T \in Nat /\ T * UsPerMs \in Nat /\ T * UsPerMs <= now * UsPerMs
  BY <1>1, <1>3, MulMono
<1> QED BY <1>1, <1>2, <1>4

\* After schedule_next_timer a report is on its way.
LEMMA ScheduleKeepsDueInv ==
    ASSUME NoFaults, IInv, DueInv, now' = now, schedule_next_timer,
           can_send_pending' = FALSE,
           holdoff_until' \in Nat, next_deadline' \in Nat,
           holdoff_until' <= now_us + Holdoff, next_deadline' <= now_us + Period
    PROVE  DueInv'
<1>1. TypeOK
  BY DEF IInv
<1>2. TimerIsLateEnough'
  BY <1>1, ScheduledLateEnough
<1>3. timer_pending' = TRUE
  BY DEF schedule_next_timer
<1>4. now_us' = now_us
  BY DEF now_us
<1> QED BY <1>2, <1>3, <1>4 DEF DueInv, PeriodicIsScheduled

\* A step that leaves the schedule alone and takes no request away.
LEMMA SameKeepsDueInv ==
    ASSUME DueInv,
           UNCHANGED <<running, timer_pending, can_send_pending, holdoff_until,
                       next_deadline, now, run_loop>>,
           requested => requested' = TRUE
    PROVE  DueInv'
<1>1. now_us' = now_us
  BY DEF now_us
<1>2. TimerIsLateEnough'
  BY DEF DueInv, TimerIsLateEnough
<1>3. PeriodicIsScheduled'
  BY DEF DueInv, PeriodicIsScheduled
<1> QED BY <1>1, <1>2, <1>3 DEF DueInv

\* Without faults every step keeps the next periodic report on its way.
LEMMA NextDueInv ==
    ASSUME NoFaults, IInv, DueInv, [Next]_vars
    PROVE  DueInv'
<1>1. /\ TypeOK /\ now_us \in Nat /\ now \in Nat
      /\ Holdoff \in Nat /\ Period \in Nat \ {0}
      /\ holdoff_until \in Nat /\ next_deadline \in Nat
  BY NowNat, ReportTimerAssumption DEF IInv, TypeOK
<1>2. SendResults = {TRUE}
  BY DEF SendResults, NoFaults
<1>3. CASE start
  <2>1. /\ now' = now /\ schedule_next_timer /\ can_send_pending' = FALSE
        /\ holdoff_until' = 0 /\ next_deadline' = now_us + Period
    BY <1>3 DEF start
  <2>2. /\ holdoff_until' \in Nat /\ next_deadline' \in Nat
        /\ holdoff_until' <= now_us + Holdoff /\ next_deadline' <= now_us + Period
    BY <1>1, <2>1
  <2> QED BY <2>1, <2>2, ScheduleKeepsDueInv
<1>4. CASE connection_closed \/ stop
  <2>1. /\ running' = FALSE /\ now' = now
        /\ run_loop' = IF timer_pending THEN [run_loop EXCEPT !.armed = FALSE] ELSE run_loop
    BY <1>4 DEF connection_closed, stop, adapter_stop, cancel_pending_timer
  <2>2. ~run_loop'.armed
    <3>1. run_loop \in [armed : BOOLEAN, timeout : 0 .. ClockMod - 1]
      BY <1>1 DEF TypeOK
    <3>2. run_loop.armed => timer_pending
      BY DEF IInv, TimerListConsistent
    <3> QED BY <2>1, <3>1, <3>2
  <2> QED BY <2>1, <2>2 DEF DueInv, PeriodicIsScheduled, TimerIsLateEnough
<1>5. CASE on_timer
  <2>1. now_us >= holdoff_until /\ now_us >= next_deadline /\ running
    BY <1>5, ExpiredIsDue DEF on_timer, IInv, TimerListConsistent
  <2>2. /\ run_loop' = [run_loop EXCEPT !.armed = FALSE]
        /\ timer_pending' = FALSE /\ can_send_pending' = TRUE /\ requested' = TRUE
        /\ UNCHANGED <<holdoff_until, next_deadline, running, now>>
    BY <1>1, <1>5, <2>1 DEF on_timer
  <2>3. ~run_loop'.armed
    <3>1. run_loop \in [armed : BOOLEAN, timeout : 0 .. ClockMod - 1]
      BY <1>1 DEF TypeOK
    <3> QED BY <2>2, <3>1
  <2>4. now_us' = now_us
    BY <2>2 DEF now_us
  <2> QED BY <2>1, <2>2, <2>3, <2>4 DEF DueInv, PeriodicIsScheduled, TimerIsLateEnough
<1>6. CASE on_can_send_now_stopped \/ on_can_send_now_idle
  <2>1. UNCHANGED <<running, timer_pending, can_send_pending, holdoff_until,
                    next_deadline, now, run_loop>>
    BY <1>6 DEF on_can_send_now_stopped, on_can_send_now_idle, adapter
  <2>2. ~running \/ ~can_send_pending
    BY <1>6 DEF on_can_send_now_stopped, on_can_send_now_idle
  <2>3. PeriodicIsScheduled'
    BY <2>1, <2>2 DEF DueInv, PeriodicIsScheduled
  <2>4. TimerIsLateEnough' /\ now_us' = now_us
    BY <2>1 DEF DueInv, TimerIsLateEnough, now_us
  <2> QED BY <2>1, <2>3, <2>4 DEF DueInv
<1>7. ~on_can_send_now_held_off /\ ~on_can_send_now_not_due
  BY <1>1 DEF on_can_send_now_held_off, on_can_send_now_not_due, PeriodicTurn, DueInv
<1>8. CASE on_can_send_now_neutral(TRUE)
  <2>1. /\ running /\ now' = now /\ schedule_next_timer /\ can_send_pending' = FALSE
        /\ holdoff_until' = 0 /\ next_deadline' = next_deadline
    BY <1>8 DEF on_can_send_now_neutral, SendPendingNeutral
  <2>2. /\ holdoff_until' \in Nat /\ next_deadline' \in Nat
        /\ holdoff_until' <= now_us + Holdoff /\ next_deadline' <= now_us + Period
    BY <1>1, <2>1 DEF DueInv
  <2> QED BY <2>1, <2>2, ScheduleKeepsDueInv
<1>9. CASE on_can_send_now_reply(TRUE)
  <2>1. /\ running /\ now' = now /\ schedule_next_timer /\ can_send_pending' = FALSE
        /\ holdoff_until' = now_us + Holdoff /\ next_deadline' = next_deadline
    BY <1>9 DEF on_can_send_now_reply, SendReply
  <2>2. /\ holdoff_until' \in Nat /\ next_deadline' \in Nat
        /\ holdoff_until' <= now_us + Holdoff /\ next_deadline' <= now_us + Period
    BY <1>1, <2>1 DEF DueInv
  <2> QED BY <2>1, <2>2, ScheduleKeepsDueInv
<1>10. CASE on_can_send_now_tick(TRUE)
  <2>1. /\ now' = now /\ schedule_next_timer /\ can_send_pending' = FALSE
        /\ holdoff_until' = 0 /\ next_deadline' = scheduler_advance
        /\ now_us >= next_deadline
    BY <1>10 DEF on_can_send_now_tick, scheduler_tick
  <2>2. /\ holdoff_until' \in Nat /\ next_deadline' \in Nat
        /\ holdoff_until' <= now_us + Holdoff /\ next_deadline' <= now_us + Period
    BY <1>1, <2>1 DEF scheduler_advance
  <2> QED BY <2>1, <2>2, ScheduleKeepsDueInv
<1>11. CASE enqueue_subcommand_reply \/ send_neutral_now(TRUE) \/ UNCHANGED vars
  <2>1. UNCHANGED <<running, timer_pending, can_send_pending, holdoff_until,
                    next_deadline, now, run_loop>>
    BY <1>11 DEF enqueue_subcommand_reply, Enqueue, send_neutral_now, vars, adapter, btstack
  <2>2. requested => requested' = TRUE
    <3>1. requested \in BOOLEAN
      BY <1>1 DEF TypeOK
    <3> QED BY <1>11, <3>1 DEF enqueue_subcommand_reply, Enqueue, send_neutral_now, vars,
               btstack
  <2> QED BY <2>1, <2>2, SameKeepsDueInv
<1>12. CASE tick
  <2>1. now < MaxTime /\ now + 1 < ClockMod /\ now' = (now + 1) % ClockMod
    BY <1>1, <1>12, ReportTimerAssumption DEF tick, NoFaults
  <2>2. now' = now + 1
    <3>1. now + 1 \in Nat
      BY <1>1
    <3> QED BY <2>1, <3>1, ModOneTurn, ReportTimerAssumption
  <2>3. UNCHANGED <<running, timer_pending, can_send_pending, holdoff_until,
                    next_deadline, run_loop, requested>>
    BY <1>12 DEF tick, adapter
  <2>4. now_us' \in Nat /\ now_us' >= now_us
    <3>1. now' \in Nat /\ now <= now' /\ UsPerMs \in Nat
      BY <1>1, <2>2, ReportTimerAssumption
    <3> QED BY <1>1, <3>1, MulMono DEF now_us
  <2>5. TimerIsLateEnough'
    <3> SUFFICES ASSUME run_loop.armed PROVE TimerIsLateEnough'
      BY <2>3 DEF TimerIsLateEnough
    <3>1. PICK T \in 0 .. 2 * ClockMod :
             /\ run_loop.timeout = T % ClockMod
             /\ T <= now + LongestWait
             /\ T * UsPerMs >= holdoff_until
             /\ T * UsPerMs >= next_deadline
      BY DEF DueInv, TimerIsLateEnough
    <3>2. T <= now' + LongestWait
      BY <1>1, <2>2, <3>1, LongestWaitNat
    <3> QED BY <2>3, <3>1, <3>2 DEF TimerIsLateEnough
  <2>6. PeriodicIsScheduled'
    BY <2>3 DEF DueInv, PeriodicIsScheduled
  <2>7. now' <= MaxTime
    BY <1>1, <2>1, <2>2, ReportTimerAssumption
  <2>8. /\ running' => next_deadline' <= now_us' + Period
        /\ running' => holdoff_until' <= now_us' + Holdoff
        /\ running' /\ can_send_pending' =>
             now_us' >= holdoff_until' /\ now_us' >= next_deadline'
    <3>1. PICK u \in Nat : u = now_us
      BY <1>1
    <3>2. PICK later \in Nat : later = now_us' /\ later >= u
      BY <2>4, <3>1
    <3>3. /\ running => next_deadline <= u + Period
          /\ running => holdoff_until <= u + Holdoff
          /\ running /\ can_send_pending => u >= holdoff_until /\ u >= next_deadline
      BY <3>1 DEF DueInv
    <3>4. /\ running => next_deadline <= later + Period
          /\ running => holdoff_until <= later + Holdoff
          /\ running /\ can_send_pending => later >= holdoff_until /\ later >= next_deadline
      <4>1. later >= u
        BY <3>2
      <4> QED BY <1>1, <3>3, <4>1
    <3> QED BY <2>3, <3>2, <3>4
  <2> QED BY <2>5, <2>6, <2>7, <2>8 DEF DueInv
<1>13. on_can_send_now =>
          \/ on_can_send_now_stopped \/ on_can_send_now_idle
          \/ on_can_send_now_neutral(TRUE) \/ on_can_send_now_reply(TRUE)
          \/ on_can_send_now_tick(TRUE)
  BY <1>2, <1>7 DEF on_can_send_now
<1> QED BY <1>2, <1>3, <1>4, <1>5, <1>6, <1>8, <1>9, <1>10, <1>11, <1>12, <1>13 DEF Next

\* A stopped sender waits for nothing.
LEMMA InitDueInv == Init => DueInv
<1> SUFFICES ASSUME Init PROVE DueInv
  OBVIOUS
<1>1. now <= MaxTime
  BY ReportTimerAssumption DEF Init
<1> QED BY <1>1 DEF Init, DueInv, PeriodicIsScheduled, TimerIsLateEnough

\* While a connection is up a periodic report is always on its way, as long as
\* the port takes the reports and the clock has not wrapped: the two branches
\* of on_can_send_now that forget the schedule cannot be reached then.
THEOREM PeriodicAlwaysScheduled ==
    ASSUME NoFaults PROVE Spec => []PeriodicIsScheduled
<1>1. IInv /\ DueInv /\ [Next]_vars => DueInv'
  BY NextDueInv
<1>2. DueInv => PeriodicIsScheduled
  BY DEF DueInv
<1> QED BY <1>1, <1>2, InitDueInv, TimerInvariance, PTL DEF Spec

\* The periodic report is never further away than one period or one holdoff,
\* however many replies are sent in its place: for any queue capacity, as long
\* as no timeout lies past the clock's wrap.
THEOREM NextReportStaysNear ==
    ASSUME NoFaults, MaxTime + LongestWait < ClockMod
    PROVE  Spec => []NextReportIsNear
<1>1. IInv /\ DueInv /\ [Next]_vars => DueInv'
  BY NextDueInv
<1>2. IInv /\ DueInv => NextReportIsNear
  <2> SUFFICES ASSUME IInv, DueInv, running
               PROVE  /\ next_deadline <= now_us + Period
                      /\ holdoff_until <= now_us + Holdoff
                      /\ timer_pending => run_loop.timeout <= now + LongestWait
    BY DEF NextReportIsNear
  <2>1. ASSUME timer_pending PROVE run_loop.timeout <= now + LongestWait
    <3>1. run_loop.armed
      BY <2>1 DEF IInv, TimerListConsistent
    <3>2. PICK T \in 0 .. 2 * ClockMod : /\ run_loop.timeout = T % ClockMod
                                        /\ T <= now + LongestWait
      BY <3>1 DEF DueInv, TimerIsLateEnough
    <3>3. /\ now \in Nat /\ now <= MaxTime /\ MaxTime \in Nat
          /\ ClockMod \in Nat \ {0} /\ LongestWait \in Nat
      BY NowNat, LongestWaitNat, ReportTimerAssumption DEF IInv, DueInv
    <3>4. T \in Nat /\ T < ClockMod
      BY <3>2, <3>3
    <3>5. T % ClockMod = T
      BY <3>3, <3>4, ModOneTurn
    <3> QED BY <3>2, <3>5
  <2> QED BY <2>1 DEF DueInv
<1> QED BY <1>1, <1>2, InitDueInv, TimerInvariance, PTL DEF Spec

=============================================================================
