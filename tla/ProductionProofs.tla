-------------------------- MODULE ProductionProofs ---------------------------
(***************************************************************************)
(* Proofs about Production, for any controller states, any queue capacity  *)
(* and any number of updates.                                              *)
(***************************************************************************)
EXTENDS Production, DomainProofs, SequenceTheorems, TLAPS

-----------------------------------------------------------------------------
(* The inductive invariant.                                                *)

BeforeLoop == {"starting", "started", "powered"}

\* Before the run loop nothing has been asked of the shutdown sequence, no
\* connection was opened and nothing was switched off.
NotYet ==
    phase \in BeforeLoop =>
        /\ ~requested /\ ~sender.running /\ ~opened /\ ~reconnect_timer
        /\ power_offs = 0

\* A shutdown is one token: first a console thread holds it (requesting), then
\* the queued callback, then the neutral report or the disconnect that is
\* waited for, then the exit. Only a request creates it, and only in the loop.
OneToken ==
    /\ ~requested => /\ requesting = 0 /\ ~callback /\ ~neutral_pending
                     /\ ~disconnect_pending /\ ~disconnect_timer /\ ~exit
    /\ requesting \in {0, 1}
    /\ requesting = 1 => ~callback
    /\ requesting = 1 \/ callback => /\ ~neutral_pending /\ ~disconnect_pending
                                    /\ ~disconnect_timer /\ ~exit
    /\ neutral_pending => ~disconnect_pending /\ ~disconnect_timer /\ ~exit
    /\ exit => ~disconnect_pending /\ ~disconnect_timer

\* Whoever holds the token, and a running sender, keep main in the loop.
HeldByLoop ==
    (\/ requesting = 1 \/ callback \/ neutral_pending \/ disconnect_pending
     \/ disconnect_timer \/ sender.running) => phase = "loop"

\* Power is on from power_on to the one power_off; a sender or a neutral
\* report that waits needs it, and an exit has switched it off.
PowerInv ==
    /\ sender.running \/ neutral_pending => hardware_powered
    /\ exit => ~hardware_powered
    /\ hardware_powered => power_offs = 0
    /\ power_offs <= 1
    /\ ~sender.running => sender = StoppedSender

\* A sender runs on an open connection, and one that holds the shutdown's
\* neutral report is owed its turn.
TurnInv ==
    /\ sender.running => link
    /\ neutral_pending => /\ sender.running /\ sender.neutral_send_pending
                          /\ can_send

\* The timers of the run loop and the platform that owns it.
LoopInv ==
    /\ phase \in {"started", "powered", "loop"} => "platform" \in up
    /\ pump_timer => "platform" \in up
    /\ reconnect_timer => /\ "platform" \in up /\ ~opened
                          /\ phase \in {"loop", "returned"}

CleanedUp ==
    phase \in {"stopping", "stopped"} =>
        /\ ~hardware_powered /\ ~app.lease.has_owner /\ app.state = Neutral
        /\ phase = "stopped" => up = {}

IInv ==
    /\ TypeOK
    /\ NotYet
    /\ OneToken
    /\ HeldByLoop
    /\ PowerInv
    /\ TurnInv
    /\ LoopInv
    /\ CleanedUp

Sender == [running : BOOLEAN, neutral_send_pending : BOOLEAN, replies : Seq(States)]

\* The sender that a connection does not have.
LEMMA StoppedSenderFacts ==
    /\ StoppedSender \in Sender
    /\ ~StoppedSender.running
    /\ Len(StoppedSender.replies) = 0
BY EmptySeq DEF StoppedSender, Sender

\* The process begins with everything down.
LEMMA InitIInv == Init => IInv
<1> SUFFICES ASSUME Init PROVE IInv
  OBVIOUS
<1>1. TypeOK
  <2>1. app \in DomainValue /\ wire \in States
    BY InitFacts, NeutralAssumption DEF Init
  <2>2. sender \in Sender /\ Len(sender.replies) <= Capacity
    BY StoppedSenderFacts, ProductionAssumption DEF Init
  <2> QED BY <2>1, <2>2 DEF Init, TypeOK, Sender
<1>2. NotYet /\ OneToken /\ HeldByLoop /\ PowerInv /\ TurnInv /\ LoopInv /\ CleanedUp
  BY StoppedSenderFacts DEF Init, BeforeLoop, NotYet, OneToken, HeldByLoop, PowerInv, TurnInv,
     LoopInv, CleanedUp
<1> QED BY <1>1, <1>2 DEF IInv

\* main up to the run loop.
LEMMA StartKeepsIInv ==
    ASSUME IInv,
           \/ \E i \in 1 .. Len(Resources) : start_resource(i) \/ start_resource_fails(i)
           \/ power_on
           \/ power_on_fails
           \/ \E result \in {"NONE", "FAILED", "REQUESTED"}, installed \in BOOLEAN :
                 enter_run_loop(result, installed)
    PROVE  IInv'
<1> USE DEF IInv, TypeOK, BeforeLoop, NotYet, OneToken, HeldByLoop, PowerInv, TurnInv,
            LoopInv, CleanedUp, hid, sequence, finishing
<1>1. ASSUME NEW i \in 1 .. Len(Resources), start_resource(i) PROVE IInv'
  <2>1. i \in 1 .. 5 /\ Len(Resources) = 5
    BY DEF Resources
  <2>2. up' \subseteq {"ipc", "platform", "hid", "output", "report_timer"}
    BY <1>1, <2>1 DEF start_resource, Resources
  <2>3. /\ pump_timer' \in BOOLEAN
        /\ pump_timer' => "platform" \in up'
    BY <1>1, <2>1 DEF start_resource, Resources
  <2>4. phase' = "started" => "platform" \in up'
    <3>1. phase' = "started" => i = 5
      BY <1>1, <2>1 DEF start_resource
    <3>2. i = 5 => Resources[2] \in up
      BY <1>1 DEF start_resource
    <3>3. Resources[2] = "platform"
      BY DEF Resources
    <3> QED BY <1>1, <3>1, <3>2, <3>3 DEF start_resource
  <2> QED BY <1>1, <2>2, <2>3, <2>4 DEF start_resource
<1>2. ASSUME NEW i \in 1 .. Len(Resources), start_resource_fails(i) PROVE IInv'
  BY <1>2 DEF start_resource_fails
<1>3. CASE power_on
  BY <1>3 DEF power_on
<1>4. CASE power_on_fails
  BY <1>4 DEF power_on_fails
<1>5. ASSUME NEW result \in {"NONE", "FAILED", "REQUESTED"},
             NEW installed \in BOOLEAN, enter_run_loop(result, installed)
      PROVE  IInv'
  BY <1>5 DEF enter_run_loop
<1> QED BY <1>1, <1>2, <1>3, <1>4, <1>5

\* finish_shutdown without a disconnect that is already waited for: either the
\* disconnect is now waited for under its timer, or the sender is stopped, the
\* timers are off, the power is off and the loop is told to exit.
LEMMA FinishFacts ==
    ASSUME IInv, NEW s \in Sender, NEW disconnected \in BOOLEAN,
           finish_shutdown(s, FALSE, disconnected)
    PROVE  \/ /\ s.running
              /\ sender' = s
              /\ disconnect_pending' = TRUE /\ disconnect_timer' = TRUE
              /\ UNCHANGED <<reconnect_timer, hardware_powered, power_offs, exit>>
           \/ /\ sender' = StoppedSender
              /\ disconnect_pending' = FALSE /\ disconnect_timer' = FALSE
              /\ reconnect_timer' = FALSE /\ hardware_powered' = FALSE
              /\ exit' = TRUE
              /\ power_offs' \in Nat /\ power_offs' <= 1
<1>1. CASE s.running /\ disconnected
  BY <1>1 DEF finish_shutdown, IInv, TypeOK
<1>2. CASE ~(s.running /\ disconnected)
  BY <1>2 DEF finish_shutdown, power_off, IInv, TypeOK, PowerInv
<1> QED BY <1>1, <1>2

\* A handler of the loop that holds the token may finish the shutdown.
LEMMA FinishKeepsIInv ==
    ASSUME IInv, NEW s \in Sender, NEW disconnected \in BOOLEAN,
           phase = "loop", requested,
           finish_shutdown(s, FALSE, disconnected),
           s.running => sender.running /\ ~exit /\ link',
           Len(s.replies) <= Capacity,
           requesting = 0, callback' = FALSE, neutral_pending' = FALSE,
           app' \in DomainValue, wire' \in States,
           can_send' \in BOOLEAN, trailing' \in BOOLEAN, link' \in BOOLEAN,
           UNCHANGED <<host, hardware, requested, requesting, opened>>
    PROVE  IInv'
<1>1. /\ phase' = "loop" /\ requested' = TRUE /\ requesting' = 0
      /\ UNCHANGED <<up, pump_timer, hardware, opened>>
  BY DEF host, IInv, TypeOK
<1>2. CASE /\ s.running
           /\ sender' = s
           /\ disconnect_pending' = TRUE /\ disconnect_timer' = TRUE
           /\ UNCHANGED <<reconnect_timer, hardware_powered, power_offs, exit>>
  <2>1. TypeOK'
    BY <1>1, <1>2 DEF Sender, IInv, TypeOK
  <2>2. NotYet' /\ LoopInv' /\ CleanedUp'
    BY <1>1, <1>2 DEF IInv, BeforeLoop, NotYet, LoopInv, CleanedUp
  <2>3. OneToken' /\ HeldByLoop' /\ PowerInv' /\ TurnInv'
    BY <1>1, <1>2 DEF IInv, OneToken, HeldByLoop, PowerInv, TurnInv
  <2> QED BY <2>1, <2>2, <2>3 DEF IInv
<1>3. CASE /\ sender' = StoppedSender
           /\ disconnect_pending' = FALSE /\ disconnect_timer' = FALSE
           /\ reconnect_timer' = FALSE /\ hardware_powered' = FALSE
           /\ exit' = TRUE
           /\ power_offs' \in Nat /\ power_offs' <= 1
  <2>1. /\ sender' \in Sender /\ ~sender'.running
        /\ Len(sender'.replies) <= Capacity
    BY <1>3, StoppedSenderFacts, ProductionAssumption
  <2>2. TypeOK'
    BY <1>1, <1>3, <2>1 DEF Sender, IInv, TypeOK
  <2>3. NotYet' /\ LoopInv' /\ CleanedUp'
    BY <1>1, <1>3 DEF IInv, BeforeLoop, NotYet, LoopInv, CleanedUp
  <2>4. OneToken' /\ HeldByLoop' /\ PowerInv' /\ TurnInv'
    BY <1>1, <1>3, <2>1 DEF IInv, OneToken, HeldByLoop, PowerInv, TurnInv
  <2> QED BY <2>2, <2>3, <2>4 DEF IInv
<1> QED BY <1>2, <1>3, FinishFacts

\* What the sender does with its turn keeps its shape; it sends a state.
LEMMA TurnFacts ==
    ASSUME IInv, NEW ok \in BOOLEAN
    PROVE  /\ Turn(ok).next \in Sender
           /\ Turn(ok).next.running = sender.running
           /\ ~sender.running => Turn(ok).next = sender
           /\ Len(Turn(ok).next.replies) <= Capacity
           /\ Turn(ok).again \in BOOLEAN
           /\ Turn(ok).sent \subseteq States
<1>1. sender \in Sender /\ Len(sender.replies) <= Capacity /\ app.state \in States
  BY DEF IInv, TypeOK, Sender, DomainValue
<1>2. sender.replies \in Seq(States)
  BY <1>1 DEF Sender
<1>3. CASE sender.running /\ sender.neutral_send_pending
  BY <1>1, <1>3, NeutralAssumption DEF Turn, Sender
<1>4. CASE /\ ~(sender.running /\ sender.neutral_send_pending)
           /\ sender.running /\ sender.replies # <<>>
  <2>1. /\ Tail(sender.replies) \in Seq(States)
        /\ Len(Tail(sender.replies)) = Len(sender.replies) - 1
        /\ Head(sender.replies) \in States
    BY <1>2, <1>4, HeadTailProperties
  <2>2. /\ Turn(ok).next = IF ok THEN [sender EXCEPT !.replies = Tail(sender.replies)]
                                ELSE sender
        /\ Turn(ok).again = (ok /\ Len(sender.replies) > 1)
        /\ Turn(ok).sent = IF ok THEN {Head(sender.replies)} ELSE {}
    BY <1>4 DEF Turn
  <2>3. Len(sender.replies) \in Nat
    BY <1>2, LenProperties
  <2>4. Turn(ok).next \in Sender
    BY <1>1, <2>1, <2>2 DEF Sender
  <2>5. Len(Turn(ok).next.replies) <= Capacity
    BY <1>1, <2>1, <2>2, <2>3, ProductionAssumption DEF Sender
  <2>6. Turn(ok).next.running = sender.running
    BY <1>1, <2>2 DEF Sender
  <2> QED BY <1>4, <2>1, <2>2, <2>4, <2>5, <2>6
<1>5. CASE /\ ~(sender.running /\ sender.neutral_send_pending)
           /\ ~(sender.running /\ sender.replies # <<>>)
  BY <1>1, <1>5 DEF Turn, domain_read_controller_state
<1> QED BY <1>3, <1>4, <1>5

\* The callback on the main thread: the one that requested it is past.
LEMMA MainThreadKeepsIInv ==
    ASSUME IInv, NEW ok \in BOOLEAN, NEW disconnected \in BOOLEAN,
           on_main_thread(ok, disconnected)
    PROVE  IInv'
<1> DEFINE s == [sender EXCEPT !.neutral_send_pending = FALSE]
<1>1. /\ phase = "loop" /\ callback /\ callback' = FALSE
      /\ UNCHANGED <<host, hardware, link, requested, requesting, opened>>
  BY DEF on_main_thread
<1>2. /\ requested /\ requesting = 0 /\ ~neutral_pending
      /\ disconnect_pending = FALSE /\ ~disconnect_timer /\ ~exit
  BY <1>1 DEF IInv, TypeOK, OneToken
<1>3. app' \in DomainValue
  <2>1. app \in DomainValue /\ app' = domain_revoke(app, "SHUTDOWN", 0).app
    BY DEF on_main_thread, IInv, TypeOK
  <2> QED BY <2>1, RevokeFacts DEF RevokeReasons
<1>4. sender \in Sender /\ Len(sender.replies) <= Capacity
  BY DEF IInv, TypeOK, Sender
<1>5. CASE sender.running /\ ~ok
  <2>1. /\ sender' = [sender EXCEPT !.neutral_send_pending = TRUE]
        /\ can_send' = TRUE /\ neutral_pending' = TRUE
        /\ UNCHANGED <<finishing, trailing, wire>>
    BY <1>5 DEF on_main_thread
  <2>2. /\ sender' \in Sender /\ sender'.running
        /\ Len(sender'.replies) <= Capacity
    BY <1>4, <1>5, <2>1 DEF Sender
  <2>3. TypeOK'
    <3>1. UNCHANGED <<phase, up, hardware, wire, power_offs, requesting, pump_timer,
                      hardware_powered, link, requested, disconnect_pending,
                      disconnect_timer, reconnect_timer, exit, opened, trailing>>
      BY <1>1, <2>1 DEF host, finishing
    <3>2. TypeOK
      BY DEF IInv
    <3>3. /\ phase' = "loop" /\ up' = up /\ hardware' = hardware /\ wire' = wire
          /\ power_offs' = power_offs /\ requesting' = requesting
      BY <1>1, <3>1
    <3>4. /\ callback' \in BOOLEAN /\ can_send' \in BOOLEAN /\ neutral_pending' \in BOOLEAN
      BY <1>1, <2>1
    <3>5. /\ pump_timer' \in BOOLEAN /\ hardware_powered' \in BOOLEAN /\ link' \in BOOLEAN
          /\ requested' \in BOOLEAN /\ disconnect_pending' \in BOOLEAN
          /\ disconnect_timer' \in BOOLEAN /\ reconnect_timer' \in BOOLEAN
          /\ exit' \in BOOLEAN /\ opened' \in BOOLEAN /\ trailing' \in BOOLEAN
      BY <3>1, <3>2 DEF TypeOK
    <3> QED BY <1>3, <2>2, <3>2, <3>3, <3>4, <3>5 DEF Sender, TypeOK
  <2>4. NotYet' /\ LoopInv' /\ CleanedUp'
    BY <1>1, <2>1 DEF IInv, BeforeLoop, NotYet, LoopInv, CleanedUp, host, finishing
  <2>5. OneToken' /\ HeldByLoop' /\ PowerInv' /\ TurnInv'
    BY <1>1, <1>2, <1>5, <2>1, <2>2 DEF IInv, OneToken, HeldByLoop, PowerInv, TurnInv, host,
       finishing
  <2> QED BY <2>3, <2>4, <2>5 DEF IInv
<1>6. CASE ~(sender.running /\ ~ok)
  <2>1. /\ trailing' = (trailing \/ sender.running)
        /\ wire' = IF sender.running THEN Neutral ELSE wire
        /\ finish_shutdown(s, FALSE, disconnected)
        /\ UNCHANGED <<can_send, neutral_pending>>
    BY <1>2, <1>6 DEF on_main_thread
  <2>2. s \in Sender /\ s.running = sender.running /\ Len(s.replies) <= Capacity
    BY <1>4 DEF Sender
  <2>3. /\ wire' \in States /\ trailing' \in BOOLEAN /\ can_send' \in BOOLEAN
        /\ link' \in BOOLEAN /\ neutral_pending' = FALSE
    BY <1>1, <1>2, <2>1, NeutralAssumption DEF IInv, TypeOK
  <2>4. s.running => sender.running /\ ~exit /\ link'
    BY <1>1, <1>2, <2>2 DEF IInv, TurnInv
  <2> HIDE DEF s
  <2> QED BY <1>1, <1>2, <1>3, <2>1, <2>2, <2>3, <2>4, FinishKeepsIInv
<1> QED BY <1>5, <1>6

\* The timeout of the disconnect.
LEMMA DisconnectTimeoutKeepsIInv ==
    ASSUME IInv, shutdown_disconnect_timeout
    PROVE  IInv'
<1>1. /\ phase = "loop" /\ disconnect_timer
      /\ UNCHANGED <<host, app, hardware, link, can_send, sequence,
                     neutral_pending, opened, trailing, wire>>
  BY DEF shutdown_disconnect_timeout
<1>2. /\ requested /\ requesting = 0 /\ callback = FALSE
      /\ neutral_pending = FALSE /\ ~exit
  BY <1>1 DEF IInv, TypeOK, OneToken
<1>3. CASE disconnect_pending
  <2>1. finish_shutdown(StoppedSender, FALSE, FALSE)
    BY <1>3 DEF shutdown_disconnect_timeout
  <2>2. /\ app' \in DomainValue /\ wire' \in States /\ can_send' \in BOOLEAN
        /\ trailing' \in BOOLEAN /\ link' \in BOOLEAN
    BY <1>1 DEF IInv, TypeOK
  <2>3. /\ callback' = FALSE /\ neutral_pending' = FALSE
        /\ UNCHANGED <<host, hardware, requested, requesting, opened>>
    BY <1>1, <1>2 DEF sequence
  <2>4. Len(StoppedSender.replies) <= Capacity
    BY StoppedSenderFacts, ProductionAssumption
  <2> QED BY <1>1, <1>2, <2>1, <2>2, <2>3, <2>4, StoppedSenderFacts, FinishKeepsIInv
<1>4. CASE ~disconnect_pending
  <2>1. /\ disconnect_timer' = FALSE
        /\ UNCHANGED <<sender, disconnect_pending, reconnect_timer,
                       hardware_powered, power_offs, exit>>
    BY <1>4 DEF shutdown_disconnect_timeout
  <2>2. TypeOK'
    <3>1. TypeOK
      BY DEF IInv
    <3>2. /\ disconnect_timer' \in BOOLEAN
          /\ UNCHANGED <<phase, up, pump_timer, requested, requesting, callback>>
      BY <1>1, <2>1 DEF host, sequence
    <3> QED BY <1>1, <2>1, <3>1, <3>2 DEF TypeOK
  <2>3. NotYet' /\ LoopInv' /\ CleanedUp'
    BY <1>1, <2>1 DEF IInv, BeforeLoop, NotYet, LoopInv, CleanedUp, host, sequence
  <2>4. OneToken' /\ HeldByLoop' /\ PowerInv' /\ TurnInv'
    BY <1>1, <2>1 DEF IInv, OneToken, HeldByLoop, PowerInv, TurnInv, host, sequence
  <2> QED BY <2>2, <2>3, <2>4 DEF IInv
<1> QED BY <1>3, <1>4

\* The connection is gone: the sender with it, and the shutdown goes on.
LEMMA ClosedKeepsIInv ==
    ASSUME IInv, connection_closed
    PROVE  IInv'
<1>1. /\ phase = "loop" /\ link' = FALSE /\ can_send' = FALSE
      /\ neutral_pending' = FALSE
      /\ UNCHANGED <<host, app, hardware, sequence, opened, trailing, wire>>
  BY DEF connection_closed
<1>2. Len(StoppedSender.replies) <= Capacity
  BY StoppedSenderFacts, ProductionAssumption
<1>3. CASE neutral_pending \/ disconnect_pending
  <2>1. finish_shutdown(StoppedSender, FALSE, FALSE)
    <3>1. neutral_pending => disconnect_pending = FALSE
      BY DEF IInv, TypeOK, OneToken
    <3> QED BY <1>3, <3>1 DEF connection_closed
  <2>2. requested /\ requesting = 0 /\ callback = FALSE
    BY <1>3 DEF IInv, TypeOK, OneToken
  <2>3. /\ app' \in DomainValue /\ wire' \in States /\ can_send' \in BOOLEAN
        /\ trailing' \in BOOLEAN /\ link' \in BOOLEAN
    BY <1>1 DEF IInv, TypeOK
  <2>4. /\ callback' = FALSE
        /\ UNCHANGED <<host, hardware, requested, requesting, opened>>
    BY <1>1, <2>2 DEF sequence
  <2> QED BY <1>1, <1>2, <2>1, <2>2, <2>3, <2>4, StoppedSenderFacts, FinishKeepsIInv
<1>4. CASE ~neutral_pending /\ ~disconnect_pending
  <2>1. sender' = StoppedSender /\ UNCHANGED finishing
    BY <1>4 DEF connection_closed
  <2>2. sender' \in Sender /\ ~sender'.running /\ Len(sender'.replies) <= Capacity
    BY <1>2, <2>1, StoppedSenderFacts
  <2> QED BY <1>1, <1>4, <2>1, <2>2 DEF IInv, TypeOK, BeforeLoop, NotYet, OneToken,
             HeldByLoop, PowerInv, TurnInv, LoopInv, CleanedUp, host, sequence, finishing, Sender
<1> QED BY <1>3, <1>4

\* CAN_SEND_NOW: the sender's turn, and then the shutdown's, if it waited.
LEMMA CanSendKeepsIInv ==
    ASSUME IInv, NEW ok \in BOOLEAN, NEW disconnected \in BOOLEAN,
           can_send_now(ok, disconnected)
    PROVE  IInv'
<1> DEFINE turn == Turn(ok)
<1>1. /\ phase = "loop" /\ can_send' = turn.again
      /\ wire' = IF turn.sent = {} THEN wire ELSE CHOOSE s \in turn.sent : TRUE
      /\ trailing' = (trailing \/ (sender.neutral_send_pending /\ ok))
      /\ neutral_pending' = FALSE
      /\ UNCHANGED <<host, app, hardware, link, sequence, opened>>
  BY DEF can_send_now
<1>2. /\ neutral_pending => finish_shutdown(turn.next, disconnect_pending, disconnected)
      /\ ~neutral_pending => sender' = turn.next /\ UNCHANGED finishing
  BY DEF can_send_now
<1>3. /\ turn.next \in Sender
      /\ turn.next.running = sender.running
      /\ ~sender.running => turn.next = sender
      /\ Len(turn.next.replies) <= Capacity
      /\ turn.again \in BOOLEAN
      /\ turn.sent \subseteq States
  BY TurnFacts
<1> HIDE DEF turn
<1>4. /\ wire' \in States /\ can_send' \in BOOLEAN /\ trailing' \in BOOLEAN
      /\ app' \in DomainValue /\ link' \in BOOLEAN
  <2>1. wire \in States
    BY DEF IInv, TypeOK
  <2>2. wire' \in States
    BY <1>1, <1>3, <2>1
  <2> QED BY <1>1, <1>3, <2>2 DEF IInv, TypeOK
<1>5. CASE neutral_pending
  <2>1. /\ requested /\ requesting = 0 /\ callback = FALSE
        /\ disconnect_pending = FALSE /\ ~exit
    BY <1>5 DEF IInv, TypeOK, OneToken
  <2>2. finish_shutdown(turn.next, FALSE, disconnected)
    BY <1>2, <1>5, <2>1
  <2>3. /\ callback' = FALSE
        /\ UNCHANGED <<host, hardware, requested, requesting, opened>>
    BY <1>1, <2>1 DEF sequence
  <2>4. turn.next.running => sender.running /\ ~exit /\ link'
    BY <1>1, <1>3, <2>1 DEF IInv, TurnInv
  <2> QED BY <1>1, <1>3, <1>4, <2>1, <2>2, <2>3, <2>4, FinishKeepsIInv
<1>6. CASE ~neutral_pending
  <2>1. /\ sender' \in Sender /\ sender'.running = sender.running
        /\ Len(sender'.replies) <= Capacity
        /\ ~sender.running => sender' = sender
        /\ UNCHANGED finishing
    BY <1>2, <1>3, <1>6
  <2>2. TypeOK'
    BY <1>1, <1>4, <2>1 DEF IInv, TypeOK, Sender, host, sequence, finishing
  <2>3. NotYet' /\ LoopInv' /\ CleanedUp'
    BY <1>1, <2>1 DEF IInv, BeforeLoop, NotYet, LoopInv, CleanedUp, host, finishing
  <2>4. OneToken' /\ HeldByLoop' /\ PowerInv' /\ TurnInv'
    BY <1>1, <1>6, <2>1 DEF IInv, OneToken, HeldByLoop, PowerInv, TurnInv, host, sequence, finishing
  <2> QED BY <2>2, <2>3, <2>4 DEF IInv
<1> QED BY <1>5, <1>6

\* The other handlers of the loop, and the console threads.
LEMMA LoopKeepsIInv ==
    ASSUME IInv,
           \/ request
           \/ request_queues
           \/ active_reconnect_timeout
           \/ \E ok \in BOOLEAN : connection_opened(ok)
           \/ report_timer_expires
           \/ on_output_report
           \/ ipc_poll
    PROVE  IInv'
<1> USE DEF host, hid, sequence, finishing
<1>1. CASE request
  <2>1. requested' = TRUE /\ requesting' = requesting + (IF requested THEN 0 ELSE 1)
    BY <1>1 DEF request
  <2>2. ~requested => phase = "loop"
    BY <1>1 DEF request, Listening, IInv, OneToken
  <2>3. TypeOK'
    BY <1>1, <2>1 DEF request, IInv, TypeOK
  <2>4. NotYet' /\ LoopInv' /\ CleanedUp'
    BY <1>1 DEF request, Listening, IInv, BeforeLoop, NotYet, LoopInv, CleanedUp
  <2>5. OneToken' /\ HeldByLoop' /\ PowerInv' /\ TurnInv'
    BY <1>1, <2>1, <2>2 DEF request, IInv, TypeOK, OneToken, HeldByLoop, PowerInv, TurnInv
  <2> QED BY <2>3, <2>4, <2>5 DEF IInv
<1>2. CASE request_queues
  <2>1. requesting = 1 /\ requesting' = 0 /\ callback' = TRUE
    BY <1>2 DEF request_queues, IInv, TypeOK, OneToken
  <2>2. TypeOK'
    BY <1>2, <2>1 DEF request_queues, IInv, TypeOK
  <2>3. NotYet' /\ LoopInv' /\ CleanedUp'
    BY <1>2 DEF request_queues, IInv, BeforeLoop, NotYet, LoopInv, CleanedUp
  <2>4. OneToken' /\ HeldByLoop' /\ PowerInv' /\ TurnInv'
    BY <1>2, <2>1 DEF request_queues, IInv, TypeOK, OneToken, HeldByLoop, PowerInv, TurnInv
  <2> QED BY <2>2, <2>3, <2>4 DEF IInv
<1>3. CASE active_reconnect_timeout
  <2>1. TypeOK'
    <3>1. TypeOK
      BY DEF IInv
    <3>2. /\ reconnect_timer' \in BOOLEAN
          /\ hardware' \in {"unavailable", "failed"}
      BY <1>3, <3>1 DEF active_reconnect_timeout, TypeOK
    <3>3. UNCHANGED <<phase, up, pump_timer, app, sender, link, can_send, requested,
                      requesting, callback, neutral_pending, disconnect_pending,
                      disconnect_timer, hardware_powered, power_offs, exit, opened,
                      trailing, wire>>
      BY <1>3 DEF active_reconnect_timeout
    <3> QED BY <3>1, <3>2, <3>3 DEF TypeOK
  <2>2. NotYet' /\ LoopInv' /\ CleanedUp'
    BY <1>3 DEF active_reconnect_timeout, IInv, BeforeLoop, NotYet, LoopInv, CleanedUp
  <2>3. OneToken' /\ HeldByLoop' /\ PowerInv' /\ TurnInv'
    BY <1>3 DEF active_reconnect_timeout, IInv, OneToken, HeldByLoop, PowerInv, TurnInv
  <2> QED BY <2>1, <2>2, <2>3 DEF IInv
<1>4. ASSUME NEW ok \in BOOLEAN, connection_opened(ok) PROVE IInv'
  <2> DEFINE started == [StoppedSender EXCEPT !.running = TRUE]
  <2>1. /\ started \in Sender /\ started.running
        /\ Len(started.replies) <= Capacity
    <3>1. /\ started \in Sender /\ started.running
          /\ started.replies = StoppedSender.replies
      BY StoppedSenderFacts DEF Sender
    <3> QED BY <3>1, StoppedSenderFacts, ProductionAssumption
  <2>2. sender' = IF ok THEN started ELSE sender
    BY <1>4 DEF connection_opened
  <2> HIDE DEF started
  <2>3. TypeOK'
    BY <1>4, <2>1, <2>2 DEF connection_opened, IInv, TypeOK, Sender
  <2>4. NotYet' /\ LoopInv' /\ CleanedUp'
    BY <1>4 DEF connection_opened, IInv, BeforeLoop, NotYet, LoopInv, CleanedUp
  <2>5. OneToken' /\ HeldByLoop' /\ PowerInv' /\ TurnInv'
    BY <1>4, <2>1, <2>2 DEF connection_opened, IInv, OneToken, HeldByLoop, PowerInv, TurnInv
  <2> QED BY <2>3, <2>4, <2>5 DEF IInv
<1>5. CASE report_timer_expires
  BY <1>5 DEF report_timer_expires, IInv, TypeOK, BeforeLoop, NotYet, OneToken,
     HeldByLoop, PowerInv, TurnInv, LoopInv, CleanedUp
<1>6. CASE on_output_report
  <2>1. /\ phase = "loop" /\ sender.running /\ Len(sender.replies) < Capacity
        /\ sender' = [sender EXCEPT !.replies = Append(sender.replies, app.state)]
        /\ can_send' = TRUE
        /\ UNCHANGED <<host, app, hardware, link, sequence, neutral_pending,
                       finishing, opened, trailing, wire>>
    BY <1>6 DEF on_output_report, QueueReply
  <2>2. sender \in Sender /\ sender.replies \in Seq(States) /\ app.state \in States
    BY DEF IInv, TypeOK, Sender, DomainValue
  <2>3. /\ Append(sender.replies, app.state) \in Seq(States)
        /\ Len(Append(sender.replies, app.state)) = Len(sender.replies) + 1
        /\ Len(sender.replies) \in Nat
    BY <2>2, AppendProperties, LenProperties
  <2>4. sender' \in Sender /\ sender'.running
    BY <2>1, <2>2, <2>3 DEF Sender
  <2>5. Len(sender'.replies) <= Capacity
    BY <2>1, <2>2, <2>3, ProductionAssumption DEF Sender
  <2>6. TypeOK'
    BY <2>1, <2>4, <2>5 DEF IInv, TypeOK, Sender
  <2>7. NotYet' /\ LoopInv' /\ CleanedUp'
    BY <2>1, <2>4 DEF IInv, BeforeLoop, NotYet, LoopInv, CleanedUp
  <2>8. OneToken' /\ HeldByLoop' /\ PowerInv' /\ TurnInv'
    BY <2>1, <2>4 DEF IInv, OneToken, HeldByLoop, PowerInv, TurnInv
  <2> QED BY <2>6, <2>7, <2>8 DEF IInv
<1>7. CASE ipc_poll
  <2>1. app \in DomainValue /\ Client \in Nat
    BY ProductionAssumption DEF IInv, TypeOK
  <2>2. ASSUME app' = domain_acquire(app, Client).app PROVE app' \in DomainValue
    BY <2>1, <2>2, AcquireFacts
  <2>3. ASSUME app' = domain_revoke(app, "DISCONNECT", Client).app
        PROVE  app' \in DomainValue
    BY <2>1, <2>3, RevokeFacts DEF RevokeReasons
  <2>4. ASSUME NEW s \in States, app' = domain_set_state(app, Client, s, 0).app
        PROVE  app' \in DomainValue
    BY <2>1, <2>4, SetStateFacts
  <2>5. app' \in DomainValue
    BY <1>7, <2>2, <2>3, <2>4 DEF ipc_poll
  <2>6. /\ phase = "loop"
        /\ UNCHANGED <<host, hardware, hid, sequence, neutral_pending, finishing,
                       opened, trailing, wire>>
    BY <1>7 DEF ipc_poll
  <2> QED BY <2>5, <2>6 DEF IInv, TypeOK, BeforeLoop, NotYet, OneToken, HeldByLoop,
             PowerInv, TurnInv, LoopInv, CleanedUp
<1> QED BY <1>1, <1>2, <1>3, <1>4, <1>5, <1>6, <1>7

\* main after the run loop.
LEMMA EndKeepsIInv ==
    ASSUME IInv, run_loop_returns \/ power_off_cleanup \/ process_stop \/ main_returns
    PROVE  IInv'
<1> USE DEF host, hid, sequence, finishing
<1>1. CASE run_loop_returns
  BY <1>1 DEF run_loop_returns, IInv, TypeOK, BeforeLoop, NotYet, OneToken, HeldByLoop,
     PowerInv, TurnInv, LoopInv, CleanedUp
<1>2. CASE power_off_cleanup
  <2>1. app \in DomainValue /\ app' = domain_revoke(app, "SHUTDOWN", 0).app
    BY <1>2 DEF power_off_cleanup, IInv, TypeOK
  <2>2. app' \in DomainValue /\ ~app'.lease.has_owner /\ app'.state = Neutral
    BY <2>1, RevokeFacts, InitFacts DEF RevokeReasons
  <2>3. /\ reconnect_timer' = FALSE /\ hardware_powered' = FALSE
        /\ power_offs' \in Nat /\ power_offs' <= 1
    BY <1>2 DEF power_off_cleanup, power_off, IInv, TypeOK, PowerInv
  <2>4. TypeOK'
    <3>1. TypeOK
      BY DEF IInv
    <3>2. UNCHANGED <<up, pump_timer, hardware, sender, link, can_send, requested,
                      requesting, callback, neutral_pending, disconnect_pending,
                      disconnect_timer, exit, opened, trailing, wire>>
      BY <1>2 DEF power_off_cleanup
    <3>3. /\ phase' = "stopping" /\ app' \in DomainValue
          /\ reconnect_timer' \in BOOLEAN /\ hardware_powered' \in BOOLEAN
          /\ power_offs' \in Nat
      BY <1>2, <2>2, <2>3 DEF power_off_cleanup
    <3> QED BY <3>1, <3>2, <3>3 DEF TypeOK
  <2>5. NotYet' /\ LoopInv' /\ CleanedUp'
    BY <1>2, <2>2, <2>3 DEF power_off_cleanup, IInv, BeforeLoop, NotYet, LoopInv, CleanedUp
  <2>6. OneToken' /\ HeldByLoop' /\ PowerInv' /\ TurnInv'
    BY <1>2, <2>3 DEF power_off_cleanup, IInv, OneToken, HeldByLoop, PowerInv, TurnInv
  <2> QED BY <2>4, <2>5, <2>6 DEF IInv
<1>3. ASSUME NEW r, stop_resource(r) PROVE IInv'
  <2>1. sender' = StoppedSender
    BY <1>3 DEF stop_resource, IInv, HeldByLoop, PowerInv, TurnInv
  <2>2. sender' \in Sender /\ ~sender'.running /\ Len(sender'.replies) <= Capacity
    BY <2>1, StoppedSenderFacts, ProductionAssumption
  <2>3. TypeOK'
    <3>1. TypeOK
      BY DEF IInv
    <3>2. UNCHANGED <<phase, app, hardware, wire, power_offs, requesting, requested,
                      callback, neutral_pending, disconnect_pending, disconnect_timer,
                      reconnect_timer, hardware_powered, exit, opened, trailing>>
      BY <1>3 DEF stop_resource
    <3>3. /\ up' \subseteq up /\ pump_timer' \in BOOLEAN /\ link' \in BOOLEAN
          /\ can_send' \in BOOLEAN
      BY <1>3 DEF stop_resource
    <3> QED BY <2>2, <3>1, <3>2, <3>3 DEF Sender, TypeOK
  <2>4. NotYet' /\ LoopInv' /\ CleanedUp'
    BY <1>3 DEF stop_resource, IInv, BeforeLoop, NotYet, LoopInv, CleanedUp
  <2>5. OneToken' /\ HeldByLoop' /\ PowerInv' /\ TurnInv'
    BY <1>3, <2>1, <2>2 DEF stop_resource, IInv, OneToken, HeldByLoop, PowerInv, TurnInv
  <2> QED BY <2>3, <2>4, <2>5 DEF IInv
<1>4. CASE main_returns
  BY <1>4 DEF main_returns, IInv, TypeOK, BeforeLoop, NotYet, OneToken, HeldByLoop,
     PowerInv, TurnInv, LoopInv, CleanedUp
<1> QED BY <1>1, <1>2, <1>3, <1>4 DEF process_stop

\* Every step of main, of the loop's handlers and of the console threads.
LEMMA NextIInv == IInv /\ [Next]_vars => IInv'
<1> SUFFICES ASSUME IInv, [Next]_vars PROVE IInv'
  OBVIOUS
<1>1. CASE main
  BY <1>1, StartKeepsIInv, EndKeepsIInv DEF main
<1>2. ASSUME NEW ok \in BOOLEAN, NEW disconnected \in BOOLEAN,
             on_main_thread(ok, disconnected) \/ can_send_now(ok, disconnected)
      PROVE  IInv'
  BY <1>2, MainThreadKeepsIInv, CanSendKeepsIInv
<1>3. CASE shutdown_disconnect_timeout \/ connection_closed
  BY <1>3, DisconnectTimeoutKeepsIInv, ClosedKeepsIInv
<1>4. CASE \/ request \/ request_queues \/ active_reconnect_timeout
           \/ \E ok \in BOOLEAN : connection_opened(ok)
           \/ report_timer_expires \/ on_output_report \/ ipc_poll
  BY <1>4, LoopKeepsIInv
<1>5. CASE UNCHANGED vars
  BY <1>5 DEF vars, host, hid, sequence, finishing, IInv, TypeOK, BeforeLoop, NotYet,
     OneToken, HeldByLoop, PowerInv, TurnInv, LoopInv, CleanedUp
<1> QED BY <1>1, <1>2, <1>3, <1>4, <1>5 DEF Next

-----------------------------------------------------------------------------
(* What follows.                                                           *)

\* The inductive invariant holds in every reachable state of the process.
THEOREM ProductionInvariance == Spec => []IInv
BY InitIInv, NextIInv, PTL DEF Spec

\* Type correctness of the process: in particular the replies that are queued
\* stay within the capacity of the queue.
THEOREM ProductionTypeCorrect == Spec => []TypeOK
<1>1. IInv => TypeOK
  BY DEF IInv
<1> QED BY <1>1, ProductionInvariance, PTL

\* No timer and no thread finds the run loop gone, on any path of start, stop
\* and failure.
THEOREM LoopOutlivesUsers == Spec => []RunLoopOutlivesItsUsers
<1>1. IInv => RunLoopOutlivesItsUsers
  BY DEF IInv, OneToken, HeldByLoop, LoopInv, RunLoopOutlivesItsUsers
<1> QED BY <1>1, ProductionInvariance, PTL

\* Once the power was switched off the sender is stopped.
THEOREM SilentOncePoweredOff == Spec => []SilentAfterPowerOff
<1>1. IInv => SilentAfterPowerOff
  BY DEF IInv, PowerInv, SilentAfterPowerOff
<1> QED BY <1>1, ProductionInvariance, PTL

\* A neutral report that waits keeps the power on and the loop running, and a
\* CAN_SEND_NOW is owed to the sender that holds it.
THEOREM NeutralReportIsAwaited == Spec => []PendingNeutralIsAwaited
<1>1. IInv => PendingNeutralIsAwaited
  BY DEF IInv, OneToken, PowerInv, TurnInv, PendingNeutralIsAwaited
<1> QED BY <1>1, ProductionInvariance, PTL

\* Whatever failed, main returns with the power switched off once, no timer
\* set and a neutral controller that nobody owns.
THEOREM NothingIsLeftBehind == Spec => []NothingLeftBehind
<1>1. IInv => NothingLeftBehind
  BY DEF IInv, HeldByLoop, PowerInv, LoopInv, CleanedUp, NothingLeftBehind
<1> QED BY <1>1, ProductionInvariance, PTL

\* A connection that was opened is never followed by the report that the
\* active reconnect failed: the timer is off and is not set again.
THEOREM NoLateFailure == Spec => NoFailureAfterOpen
<1> DEFINE P == (hardware = "unavailable" /\ hardware' = "failed") => ~opened
<1>1. IInv /\ [Next]_vars => P
  <2> SUFFICES ASSUME IInv, [Next]_vars, hardware = "unavailable", hardware' = "failed"
               PROVE  ~opened
    OBVIOUS
  <2>1. hardware' # hardware
    OBVIOUS
  <2>2. \/ active_reconnect_timeout
        \/ \E result \in {"NONE", "FAILED", "REQUESTED"}, installed \in BOOLEAN :
              enter_run_loop(result, installed)
    BY <2>1 DEF Next, vars, main, start_resource, start_resource_fails, power_on,
       power_on_fails, run_loop_returns, power_off_cleanup, process_stop,
       stop_resource, main_returns, request, request_queues, on_main_thread,
       shutdown_disconnect_timeout, connection_opened, connection_closed,
       can_send_now, report_timer_expires, on_output_report, QueueReply, ipc_poll
  <2>3. active_reconnect_timeout => ~opened
    BY DEF active_reconnect_timeout, IInv, LoopInv
  <2>4. ASSUME NEW result, NEW installed, enter_run_loop(result, installed)
        PROVE  ~opened
    BY <2>4 DEF enter_run_loop, IInv, NotYet, BeforeLoop
  <2> QED BY <2>2, <2>3, <2>4
<1> QED BY <1>1, ProductionInvariance, PTL DEF Spec, NoFailureAfterOpen

=============================================================================
