------------------------ MODULE EstablishCom_proofs -------------------------
(***************************************************************************)
(* The port implements the establish-communication procedure, keeps its     *)
(* wake-up budget and its delays, and latches ERROR for the PHY alone: for  *)
(* every value of the constants, any number of rates already tried, retries *)
(* spent, frames received and callbacks failed.                             *)
(*                                                                          *)
(* What a tick may do to the procedure is one of ten moves (Moves); there   *)
(* is one lemma per operator of MasterPort, which says which of them it     *)
(* makes.  The moves keep Ready, the inductive invariant, and each of them  *)
(* is a step of EstablishCom.                                               *)
(***************************************************************************)
EXTENDS PortHistory, MasterPort_proofs

Com(p) == p.state \in {"PREOPERATE", "OPERATE"}
Silent(p) == p.tx \notin {"wake", "test"}

\* What every port record says of the procedure.
Ready(p) ==
    /\ p.state # "INACTIVE"
    /\ ~AutoBaudrate => p.baudrate_index = 0
    /\ p.state = "STARTUP" =>
          /\ p.step # "AWAIT_OPERATE_ACK"
          /\ p.step \in WakingSteps => p.baudrate_index = 0
          /\ Timed /\ p.awaiting_response => p.step = "AWAIT_RESPONSE"
    /\ p.wake_attempts <= WakeRetryLimit + 1
    /\ p.state # "ERROR" => p.wake_attempts <= WakeRetryLimit

\* A call the procedure does not notice: not even a retry is counted.
Unnoticed(p, q) ==
    /\ q.state = p.state /\ q.step = p.step
    /\ q.baudrate_index = p.baudrate_index
    /\ q.wake_attempts = p.wake_attempts
    /\ q.rx_retry_count = p.rx_retry_count
    /\ q.awaiting_response = p.awaiting_response
    /\ q.send_gate = p.send_gate /\ q.tx = p.tx

\* The moves, from p to q.
Rests(p, q) ==
    /\ q.state = p.state /\ q.step = p.step
    /\ q.baudrate_index = p.baudrate_index
    /\ q.wake_attempts = p.wake_attempts
    /\ q.awaiting_response => p.awaiting_response
    /\ q.send_gate = p.send_gate /\ Silent(q)

Talks(p, q) ==
    /\ Com(p) /\ Com(q) /\ Silent(q)
    /\ q.baudrate_index = p.baudrate_index
    /\ q.wake_attempts = p.wake_attempts

Answers(p, q) ==
    /\ p.state = "STARTUP" /\ p.step = "AWAIT_RESPONSE"
    /\ Com(q) /\ Silent(q)
    /\ q.baudrate_index = p.baudrate_index
    /\ q.wake_attempts = 0

Loses(p, q) ==
    /\ Com(p)
    /\ q.state = "STARTUP" /\ q.step = "WAKE" /\ Silent(q)
    /\ q.baudrate_index = 0 /\ q.wake_attempts = 0
    /\ ~q.awaiting_response

Fails(p, q, c) ==
    /\ p.state = "ERROR" \/ c.fail # "none" \/ Validate
    /\ q.state = "ERROR" /\ Silent(q)
    /\ ~AutoBaudrate => q.baudrate_index = 0
    /\ q.wake_attempts <= WakeRetryLimit + 1

Wakes(p, q) ==
    /\ p.state = "STARTUP" /\ p.step \in WakingSteps
    /\ q.state = "STARTUP" /\ q.step = "SEND_TYPE0" /\ q.tx = "wake"
    /\ q.baudrate_index = p.baudrate_index
    /\ q.wake_attempts = p.wake_attempts
    /\ Timed => ~q.awaiting_response /\ q.send_gate = WakeDelay

Tests(p, q) ==
    /\ p.state = "STARTUP" /\ p.step = "SEND_TYPE0"
    /\ q.state = "STARTUP" /\ q.step = "AWAIT_RESPONSE" /\ q.tx = "test"
    /\ q.baudrate_index = p.baudrate_index
    /\ q.wake_attempts = p.wake_attempts
    /\ Timed => p.send_gate = 0

\* The attempts that may fail: on a timed port only one that awaits its answer.
Failing(p) ==
    /\ p.state = "STARTUP" /\ p.step # "INACTIVE"
    /\ Timed => p.step = "AWAIT_RESPONSE"

Slows(p, q) ==
    /\ Failing(p) /\ MoreRates(p)
    /\ q.state = "STARTUP" /\ q.step = "SEND_TYPE0" /\ Silent(q)
    /\ q.baudrate_index = p.baudrate_index + 1
    /\ q.wake_attempts = p.wake_attempts
    /\ ~q.awaiting_response
    /\ Timed => q.send_gate = TDmt

Retries(p, q) ==
    /\ Failing(p) /\ ~MoreRates(p)
    /\ q.state = "STARTUP" /\ q.step = "WAKE" /\ Silent(q)
    /\ q.baudrate_index = 0
    /\ q.wake_attempts = (p.wake_attempts + 1) % 256
    /\ q.wake_attempts <= WakeRetryLimit
    /\ ~q.awaiting_response

Pauses(p, q) ==
    /\ Failing(p) /\ ~MoreRates(p)
    /\ (p.wake_attempts + 1) % 256 > WakeRetryLimit
    /\ q.state = "STARTUP" /\ q.step = "INACTIVE" /\ Silent(q)
    /\ q.baudrate_index = 0 /\ q.wake_attempts = 0
    /\ ~q.awaiting_response

Moves(p, q, c) ==
    \/ Rests(p, q) \/ Talks(p, q) \/ Answers(p, q) \/ Loses(p, q)
    \/ Fails(p, q, c) \/ Wakes(p, q) \/ Tests(p, q)
    \/ Slows(p, q) \/ Retries(p, q) \/ Pauses(p, q)

\* A reply was taken: the port talks, and no retry is counted any more.
Took(p, q) == (Talks(p, q) \/ Answers(p, q)) /\ q.rx_retry_count = 0

\* What may become of a port that talks.
TalksOn(p, q, c) ==
    Talks(p, q) \/ Fails(p, q, c) \/ (Loses(p, q) /\ ~MoreRetries(p))

-----------------------------------------------------------------------------
(* Lemmas about the moves.                                                 *)

\* The fields of a good port that the moves speak of have their types.
LEMMA FieldTypes ==
    ASSUME NEW p \in Good
    PROVE  /\ p \in Ports
           /\ p.state \in States /\ p.step \in Steps
           /\ p.baudrate_index \in 0..2 /\ p.wake_attempts \in 0..255
           /\ p.rx_retry_count \in 0..2 /\ p.awaiting_response \in BOOLEAN
           /\ p.send_gate \in Nat /\ p.tx \in Kinds
BY DEF Good, Ports, LastRate, RxRetryLimit

\* Every move leaves a port that is ready for the next one.
LEMMA MovesReady ==
    ASSUME NEW p \in Good, NEW q \in Good, NEW c, Ready(p), Moves(p, q, c)
    PROVE  Ready(q)
  <1>1. /\ WakeRetryLimit \in 1..255 /\ p.wake_attempts \in 0..255
        /\ p.baudrate_index \in 0..2
    BY LimitAssumption, FieldTypes
  <1>2. CASE Rests(p, q)
    BY <1>2 DEF Ready, Rests
  <1>3. CASE Talks(p, q)
    BY <1>1, <1>3 DEF Ready, Talks, Com
  <1>4. CASE Answers(p, q)
    BY <1>1, <1>4 DEF Ready, Answers, Com
  <1>5. CASE Loses(p, q)
    BY <1>1, <1>5 DEF Ready, Loses
  <1>6. CASE Fails(p, q, c)
    BY <1>6 DEF Ready, Fails
  <1>7. CASE Wakes(p, q)
    BY <1>1, <1>7 DEF Ready, Wakes, WakingSteps
  <1>8. CASE Tests(p, q)
    BY <1>1, <1>8 DEF Ready, Tests, WakingSteps
  <1>9. CASE Slows(p, q)
    BY <1>1, <1>9 DEF Ready, Slows, WakingSteps, Failing, MoreRates
  <1>10. CASE Retries(p, q)
    BY <1>1, <1>10 DEF Ready, Retries
  <1>11. CASE Pauses(p, q)
    BY <1>1, <1>11 DEF Ready, Pauses
  <1> QED
    BY <1>2, <1>3, <1>4, <1>5, <1>6, <1>7, <1>8, <1>9, <1>10, <1>11 DEF Moves

\* A move after a call that goes unnoticed is a move of both together.
LEMMA MovesAfterRest ==
    ASSUME NEW p, NEW s, NEW q, NEW c, Rests(p, s), Moves(s, q, c)
    PROVE  Moves(p, q, c)
  <1>1. CASE Rests(s, q)
    BY <1>1 DEF Rests, Moves
  <1>2. CASE Talks(s, q)
    BY <1>2 DEF Rests, Talks, Com, Moves
  <1>3. CASE Answers(s, q)
    BY <1>3 DEF Rests, Answers, Moves
  <1>4. CASE Loses(s, q)
    BY <1>4 DEF Rests, Loses, Com, Moves
  <1>5. CASE Fails(s, q, c)
    BY <1>5 DEF Rests, Fails, Moves
  <1>6. CASE Wakes(s, q)
    BY <1>6 DEF Rests, Wakes, Moves
  <1>7. CASE Tests(s, q)
    BY <1>7 DEF Rests, Tests, Moves
  <1>8. CASE Slows(s, q)
    BY <1>8 DEF Rests, Slows, Failing, MoreRates, Moves
  <1>9. CASE Retries(s, q)
    BY <1>9 DEF Rests, Retries, Failing, MoreRates, Moves
  <1>10. CASE Pauses(s, q)
    BY <1>10 DEF Rests, Pauses, Failing, MoreRates, Moves
  <1> QED
    BY <1>1, <1>2, <1>3, <1>4, <1>5, <1>6, <1>7, <1>8, <1>9, <1>10 DEF Moves

\* A silent call that goes unnoticed is a rest.
LEMMA UnnoticedRests ==
    ASSUME NEW p, NEW q, Unnoticed(p, q), Silent(p)
    PROVE  Rests(p, q)
BY DEF Unnoticed, Rests, Silent

\* Calls that go unnoticed compose.
LEMMA UnnoticedTrans ==
    ASSUME NEW p, NEW s, NEW q, Unnoticed(p, s), Unnoticed(s, q)
    PROVE  Unnoticed(p, q)
BY DEF Unnoticed

\* A reply taken out of the receive path in the middle of a poll: what follows
\* it is a move of the whole poll.  No retry is counted, so no loss follows.
LEMMA MovesAfterReply ==
    ASSUME NEW p, NEW s, NEW q, NEW c, Took(p, s), TalksOn(s, q, c)
    PROVE  Moves(p, q, c)
  <1>1. Com(s) /\ s.state # "ERROR" /\ MoreRetries(s)
    BY DEF Took, Talks, Answers, Com, MoreRetries, RxRetryLimit
  <1>2. CASE Talks(s, q)
    <2>1. CASE Talks(p, s)
      BY <1>2, <2>1 DEF Talks, Moves
    <2>2. CASE Answers(p, s)
      <3>1. Answers(p, q)
        BY <1>2, <2>2 DEF Talks, Answers
      <3> QED
        BY <3>1 DEF Moves
    <2> QED
      BY <2>1, <2>2 DEF Took
  <1>3. CASE Fails(s, q, c)
    BY <1>1, <1>3 DEF Fails, Moves
  <1> QED
    BY <1>1, <1>2, <1>3 DEF TalksOn

\* Taking replies one after the other.
LEMMA TookTrans ==
    ASSUME NEW p, NEW s, NEW q,
           Took(p, s) \/ Unnoticed(p, s), Took(s, q)
    PROVE  Took(p, q)
  <1>1. CASE Unnoticed(p, s)
    BY <1>1 DEF Took, Talks, Answers, Com, Unnoticed
  <1>2. CASE Took(p, s)
    <2>1. Com(s)
      BY <1>2 DEF Took, Talks, Answers
    <2>2. Talks(s, q)
      BY <2>1 DEF Took, Answers, Com
    <2> QED
      BY <1>2, <2>2 DEF Took, Talks, Answers
  <1> QED
    BY <1>1, <1>2

-----------------------------------------------------------------------------
(* The operators, one after the other.                                     *)

\* Latching ERROR changes nothing else.
LEMMA ErrorFields ==
    ASSUME NEW p \in Ports
    PROVE  /\ Error(p).state = "ERROR" /\ Error(p).tx = p.tx
           /\ Error(p).baudrate_index = p.baudrate_index
           /\ Error(p).wake_attempts = p.wake_attempts
BY DEF Error, Ports

\* A port that latches ERROR while the PHY fails makes a failing move.
LEMMA ErrorFails ==
    ASSUME NEW p \in Good, NEW s \in Ports, NEW c, Ready(p), Silent(s),
           s.baudrate_index = p.baudrate_index,
           s.wake_attempts = p.wake_attempts, c.fail # "none" \/ Validate
    PROVE  Fails(p, Error(s), c)
BY ErrorFields DEF Fails, Ready, Silent

\* Flushing, or taking octets out of the receive path, goes unnoticed.
LEMMA ReceivePathUnnoticed ==
    ASSUME NEW p \in Ports, NEW k, NEW c
    PROVE  /\ Unnoticed(p, FlushRx(p, c))
           /\ Unnoticed(p, Consumed(p, k))
           /\ Unnoticed(p, [p EXCEPT !.rx = @ \o p.fifo, !.fifo = <<>>])
BY DEF FlushRx, Consumed, Unnoticed, Ports

\* The acyclic services take their octet without the procedure noticing.
LEMMA RouteOdUnnoticed ==
    ASSUME NEW p \in Ports, NEW od, NEW c
    PROVE  Unnoticed(p, RouteOd(p, od, c))
  <1>1. Unnoticed(p, IsduOnOd(p, od, c))
    BY DEF IsduOnOd, Unnoticed, Ports
  <1>2. Unnoticed(p, EventOnOd([p EXCEPT !.event_od_expected = FALSE], c))
    BY DEF EventOnOd, Unnoticed, Ports
  <1>3. Unnoticed(p, p)
    BY DEF Unnoticed
  <1> QED
    BY <1>1, <1>2, <1>3 DEF RouteOd

\* Starting and finishing an ISDU service goes unnoticed.
LEMMA IsduUnnoticed ==
    ASSUME NEW p \in Ports, NEW op
    PROVE  Unnoticed(p, IsduStart(p, op)) /\ Unnoticed(p, IsduFinish(p))
BY DEF IsduStart, IsduFinish, Unnoticed, Ports

\* A reply taken resets the retry counter, and nothing of the procedure.
LEMMA ReplyTakenFields ==
    ASSUME NEW p \in Ports
    PROVE  LET q == ReplyTaken(p)
           IN  /\ q.state = p.state /\ q.step = p.step
               /\ q.baudrate_index = p.baudrate_index
               /\ q.wake_attempts = p.wake_attempts
               /\ q.tx = p.tx /\ q.rx_retry_count = 0
               /\ q.send_gate = p.send_gate
BY DEF ReplyTaken, Ports

\* Setting the PHY's rate changes nothing of the procedure, or fails.
LEMMA SetBaudrateFields ==
    ASSUME NEW p \in Ports, NEW c
    PROVE  LET q == SetBaudrate(p, c)
           IN  /\ q.tx = p.tx /\ q.baudrate_index = p.baudrate_index
               /\ q.wake_attempts = p.wake_attempts
               /\ q.awaiting_response = p.awaiting_response
               /\ \/ q.state = "ERROR" /\ c.fail # "none"
                  \/ q.state = p.state /\ q.step = p.step
BY DEF SetBaudrate, Error, Ports

\* Going back to the first rate of the scan.
LEMMA ResetRateScanFields ==
    ASSUME NEW p \in Ports, NEW c, ~AutoBaudrate => p.baudrate_index = 0
    PROVE  LET q == ResetRateScan(p, c)
           IN  /\ q.tx = p.tx /\ q.baudrate_index = 0
               /\ q.wake_attempts = p.wake_attempts
               /\ q.awaiting_response = p.awaiting_response
               /\ \/ q.state = "ERROR" /\ c.fail # "none"
                  \/ q.state = p.state /\ q.step = p.step
  <1>1. CASE AutoBaudrate /\ p.baudrate_index # 0
    <2> DEFINE z == [p EXCEPT !.baudrate_index = 0]
    <2>1. z \in Ports
      BY Literals, PutLink
    <2>2. /\ z.tx = p.tx /\ z.baudrate_index = 0
          /\ z.wake_attempts = p.wake_attempts
          /\ z.awaiting_response = p.awaiting_response
          /\ z.state = p.state /\ z.step = p.step
      BY DEF Ports
    <2>3. ResetRateScan(p, c) = SetBaudrate(z, c)
      BY <1>1 DEF ResetRateScan
    <2> HIDE DEF z
    <2> DEFINE q == SetBaudrate(z, c)
    <2>4. /\ q.tx = z.tx /\ q.baudrate_index = z.baudrate_index
          /\ q.wake_attempts = z.wake_attempts
          /\ q.awaiting_response = z.awaiting_response
          /\ \/ q.state = "ERROR" /\ c.fail # "none"
             \/ q.state = z.state /\ q.step = z.step
      BY <2>1, SetBaudrateFields
    <2> HIDE DEF q
    <2> QED
      BY <2>2, <2>3, <2>4 DEF q
  <1>2. CASE ~(AutoBaudrate /\ p.baudrate_index # 0)
    BY <1>2 DEF ResetRateScan
  <1> QED
    BY <1>1, <1>2

\* Arming the send gate changes nothing else.
LEMMA ArmSendGateFields ==
    ASSUME NEW p \in Ports, NEW delay \in Nat, NEW timed
    PROVE  LET q == ArmSendGate(p, delay, timed)
           IN  /\ q.state = p.state /\ q.step = p.step /\ q.tx = p.tx
               /\ q.baudrate_index = p.baudrate_index
               /\ q.wake_attempts = p.wake_attempts
               /\ q.awaiting_response = p.awaiting_response
               /\ timed => q.send_gate = delay
BY DEF ArmSendGate, Ports

\* COMLOST starts a new procedure, or the PHY fails (restart_establish).
LEMMA RestartEstablishMoves ==
    ASSUME NEW p \in Good, NEW timed, NEW c, Ready(p), Com(p), Silent(p)
    PROVE  LET q == RestartEstablish(p, timed, c)
           IN  Loses(p, q) \/ Fails(p, q, c)
  <1> DEFINE z == [p EXCEPT !.state = "STARTUP", !.step = "WAKE",
                            !.wake_attempts = 0, !.rx_retry_count = 0,
                            !.awaiting_response = FALSE]
             s == ResetRateScan(z, c)
             q == ArmSendGate(s, TDwu, timed)
  <1>1. p \in Ports
    BY DEF Good
  <1>2. z \in Ports
    BY <1>1, Literals, ZenonT(40) DEF Ports
  <1>3. /\ z.state = "STARTUP" /\ z.step = "WAKE" /\ z.wake_attempts = 0
        /\ z.awaiting_response = FALSE /\ z.tx = p.tx
        /\ z.baudrate_index = p.baudrate_index
    BY <1>1 DEF Ports
  <1>4. RestartEstablish(p, timed, c) = IF Failed(s) THEN s ELSE q
    BY DEF RestartEstablish
  <1> HIDE DEF z
  <1>5. /\ s.tx = p.tx /\ s.baudrate_index = 0 /\ s.wake_attempts = 0
        /\ s.awaiting_response = FALSE
        /\ \/ s.state = "ERROR" /\ c.fail # "none"
           \/ s.state = "STARTUP" /\ s.step = "WAKE"
    BY <1>2, <1>3, ResetRateScanFields DEF Ready
  <1>6. s \in Ports
    BY <1>2, Literals, PutLink, SetBaudrateLink DEF s, ResetRateScan
  <1> HIDE DEF s
  <1>7. CASE s.state = "ERROR" /\ c.fail # "none"
    BY <1>4, <1>5, <1>7, LimitAssumption DEF Failed, Fails, Silent
  <1>8. CASE s.state = "STARTUP" /\ s.step = "WAKE"
    <2>1. TDwu \in Nat
      BY TimesAssumption
    <2>2. /\ q.state = "STARTUP" /\ q.step = "WAKE" /\ q.tx = p.tx
          /\ q.baudrate_index = 0 /\ q.wake_attempts = 0
          /\ q.awaiting_response = FALSE
      BY <1>5, <1>6, <1>8, <2>1, ArmSendGateFields
    <2> HIDE DEF q
    <2> QED
      BY <1>4, <1>8, <2>2 DEF Failed, Loses, Silent
  <1> QED
    BY <1>5, <1>7, <1>8


\* The answer to a test message ends the procedure (on_rx).
LEMMA OnRxStartupTook ==
    ASSUME NEW p \in Ports, Silent(p),
           p.state = "STARTUP", p.step = "AWAIT_RESPONSE"
    PROVE  Took(p, OnRxStartup(p))
  <1> DEFINE r == ReplyTaken(p)
             q == [r EXCEPT !.wake_attempts = 0, !.state = "PREOPERATE"]
  <1>1. r \in Ports
    BY Literals, ZenonT(40) DEF ReplyTaken, Ports
  <1>2. r.tx = p.tx /\ r.rx_retry_count = 0 /\ r.baudrate_index = p.baudrate_index
    BY ReplyTakenFields
  <1>3. OnRxStartup(p) = q
    BY DEF OnRxStartup
  <1> HIDE DEF r
  <1>4. /\ q.state = "PREOPERATE" /\ q.wake_attempts = 0 /\ q.tx = r.tx
        /\ q.rx_retry_count = r.rx_retry_count
        /\ q.baudrate_index = r.baudrate_index
    BY <1>1 DEF Ports
  <1> HIDE DEF q
  <1> QED
    BY <1>2, <1>3, <1>4 DEF Took, Answers, Com, Silent

\* The acknowledgement of DeviceOperate (on_rx).
LEMMA OnRxOperateAckTook ==
    ASSUME NEW p \in Ports, Silent(p), Com(p), NEW f
    PROVE  Took(p, OnRxOperateAck(p, f))
  <1> DEFINE r == ReplyTaken(p)
             b == (f[1] = "cks_event")
             q == [r EXCEPT !.event_pending = b, !.state = "OPERATE"]
  <1>1. r \in Ports
    BY Literals, ZenonT(40) DEF ReplyTaken, Ports
  <1>2. /\ r.tx = p.tx /\ r.rx_retry_count = 0
        /\ r.baudrate_index = p.baudrate_index
        /\ r.wake_attempts = p.wake_attempts
    BY ReplyTakenFields
  <1>3. OnRxOperateAck(p, f) = q
    BY DEF OnRxOperateAck
  <1> HIDE DEF r, b
  <1>4. /\ q.state = "OPERATE" /\ q.wake_attempts = r.wake_attempts
        /\ q.tx = r.tx /\ q.rx_retry_count = r.rx_retry_count
        /\ q.baudrate_index = r.baudrate_index
    BY <1>1 DEF Ports
  <1> HIDE DEF q
  <1> QED
    BY <1>2, <1>3, <1>4 DEF Took, Talks, Com, Silent

\* A reply routed to the services (on_rx).
LEMMA ReplyRoutedTook ==
    ASSUME NEW p \in Ports, NEW s \in Ports, NEW q, Silent(p), Com(p),
           Unnoticed(ReplyTaken(p), s), Unnoticed(s, q)
    PROVE  Took(p, q)
  <1> DEFINE r == ReplyTaken(p)
  <1>1. /\ r.state = p.state /\ r.tx = p.tx /\ r.rx_retry_count = 0
        /\ r.baudrate_index = p.baudrate_index
        /\ r.wake_attempts = p.wake_attempts
    BY ReplyTakenFields
  <1>2. Unnoticed(r, q)
    BY UnnoticedTrans
  <1> HIDE DEF r
  <1> QED
    BY <1>1, <1>2 DEF Took, Talks, Com, Silent, Unnoticed

\* A cyclic reply with process data (on_rx).
LEMMA OnRxTypedTook ==
    ASSUME NEW p \in Ports, Silent(p), Com(p), NEW f, NEW c
    PROVE  Took(p, OnRxTyped(p, f, c))
  <1> DEFINE r == ReplyTaken(p)
             b == (f[Len(f)] = "cks_event")
             d == (r.pd_valid \/ f[Len(f)] # "cks_invalid")
             q == [r EXCEPT !.event_pending = b, !.pd_valid = d]
             x == (q.event_od_expected /\ ~EventReading(q))
             z == [q EXCEPT !.event_od_expected = x]
  <1>1. r \in Ports
    BY Literals, ZenonT(40) DEF ReplyTaken, Ports
  <1>2. OnRxTyped(p, f, c) = IF p.rx_od_expected THEN RouteOd(q, f[1], c) ELSE z
    <2>1. [r EXCEPT !.event_pending = b].pd_valid = r.pd_valid
      BY <1>1 DEF Ports
    <2> QED
      BY <2>1 DEF OnRxTyped
  <1>3. b \in BOOLEAN /\ d \in BOOLEAN
    OBVIOUS
  <1> HIDE DEF b, d, r
  <1>4. q \in Ports /\ Unnoticed(r, q)
    <2> DEFINE r1 == [r EXCEPT !.event_pending = b]
    <2>1. r1 \in Ports
      BY <1>1, <1>3, ZenonT(60) DEF Ports
    <2> HIDE DEF r1
    <2>2. [r1 EXCEPT !.pd_valid = d] \in Ports
      BY <1>3, <2>1, ZenonT(60) DEF Ports
    <2>3. q \in Ports
      BY <2>2 DEF r1
    <2> QED
      BY <1>1, <2>3 DEF Ports, Unnoticed
  <1> HIDE DEF q, x
  <1>5. Unnoticed(q, z)
    BY <1>4 DEF Ports, Unnoticed
  <1>6. Unnoticed(q, RouteOd(q, f[1], c))
    BY <1>4, RouteOdUnnoticed
  <1>7. Unnoticed(ReplyTaken(p), q)
    BY <1>4 DEF r
  <1> HIDE DEF z
  <1> QED
    BY <1>2, <1>4, <1>5, <1>6, <1>7, ReplyRoutedTook

\* A bad checksum costs a retry, or the connection when no retry is left.
LEMMA ChecksumErrorMoves ==
    ASSUME NEW p \in Good, NEW c, Ready(p), Com(p), Silent(p)
    PROVE  TalksOn(p, ChecksumError(p, c), c)
  <1>1. CASE MoreRetries(p)
    <2> DEFINE n == p.rx_retry_count + 1
               q == [p EXCEPT !.rx_retry_count = n]
    <2>1. ChecksumError(p, c) = q
      BY <1>1 DEF ChecksumError
    <2> HIDE DEF n
    <2>2. /\ q.state = p.state /\ q.tx = p.tx
          /\ q.baudrate_index = p.baudrate_index
          /\ q.wake_attempts = p.wake_attempts
      BY DEF Good, Ports
    <2> HIDE DEF q
    <2> QED
      BY <2>1, <2>2 DEF TalksOn, Talks, Com, Silent
  <1>2. CASE ~MoreRetries(p)
    <2>1. ChecksumError(p, c) = RestartEstablish(p, FALSE, c)
      BY <1>2 DEF ChecksumError
    <2> QED
      BY <1>2, <2>1, RestartEstablishMoves DEF TalksOn
  <1> QED
    BY <1>1, <1>2

\* A frame is taken, or rejected: then it goes unnoticed, costs a retry or the
\* connection (on_rx).
LEMMA OnRxMoves ==
    ASSUME NEW p \in Good, NEW f, NEW c, Ready(p), Polled(p), Silent(p)
    PROVE  LET q == OnRx(p, f, c)
           IN  IF Accepts(p, f) THEN Took(p, q)
               ELSE Unnoticed(p, q) \/ TalksOn(p, q, c)
  <1>0. p \in Ports /\ (p.state = "STARTUP" \/ Com(p))
    BY DEF Good, Polled, Com
  <1>1. CASE Accepts(p, f) /\ p.state = "STARTUP"
    <2>1. p.step = "AWAIT_RESPONSE" /\ OnRx(p, f, c) = OnRxStartup(p)
      BY <1>1 DEF Accepts, OnRx
    <2> QED
      BY <1>0, <1>1, <2>1, OnRxStartupTook
  <1>2. CASE Accepts(p, f) /\ Com(p)
    <2>1. p.state # "STARTUP"
      BY <1>2 DEF Com
    <2>2. ReplyTaken(p) \in Ports
      BY <1>0, ReplyTakenKept DEF Kept, Good
    <2>3. Took(p, RouteOd(ReplyTaken(p), f[1], c))
      <3>1. Unnoticed(ReplyTaken(p), ReplyTaken(p))
        BY DEF Unnoticed
      <3>2. Unnoticed(ReplyTaken(p), RouteOd(ReplyTaken(p), f[1], c))
        BY <2>2, RouteOdUnnoticed
      <3> QED
        BY <1>0, <1>2, <2>2, <3>1, <3>2, ReplyRoutedTook
    <2>4. OnRx(p, f, c) \in {OnRxTyped(p, f, c), OnRxOperateAck(p, f),
                             RouteOd(ReplyTaken(p), f[1], c)}
      BY <1>2, <2>1 DEF OnRx
    <2> QED
      BY <1>0, <1>2, <2>3, <2>4, OnRxTypedTook, OnRxOperateAckTook
  <1>3. CASE ~Accepts(p, f)
    <2>1. CASE p.state = "STARTUP" \/ Len(f) # Len(ExpectedReply(p))
      BY <1>3, <2>1 DEF OnRx, Unnoticed
    <2>2. CASE ~(p.state = "STARTUP" \/ Len(f) # Len(ExpectedReply(p)))
      <3>1. OnRx(p, f, c) = ChecksumError(p, c)
        BY <1>3, <2>2 DEF OnRx
      <3> QED
        BY <1>0, <1>3, <2>2, <3>1, ChecksumErrorMoves
    <2> QED
      BY <2>1, <2>2
  <1> QED
    BY <1>0, <1>1, <1>2, <1>3


\* What a poll of p has made of it so far.
Polling(p, s) == Unnoticed(p, s) \/ Took(p, s)
PollsOn(p, r, c) == IF r.ok THEN Polling(p, r.p) ELSE Moves(p, r.p, c)

\* A poll that goes on leaves a port that is ready, and silent.
LEMMA PollingReady ==
    ASSUME NEW p \in Good, NEW s \in Good, Ready(p), Silent(p), Polling(p, s)
    PROVE  Ready(s) /\ Silent(s) /\ Moves(p, s, [fail |-> "none"])
  <1> DEFINE c == [fail |-> "none"]
  <1>1. Silent(s) /\ Moves(p, s, c)
    BY UnnoticedRests DEF Polling, Took, Talks, Answers, Unnoticed, Silent, Moves
  <1> HIDE DEF c
  <1>2. Ready(s)
    BY <1>1, MovesReady
  <1> QED
    BY <1>1, <1>2 DEF c

\* What follows in a poll is a move of the whole poll.
LEMMA MovesAfterPolling ==
    ASSUME NEW p \in Good, NEW s, NEW q, NEW c, Silent(p), Polling(p, s),
           Unnoticed(s, q) \/ TalksOn(s, q, c)
    PROVE  Moves(p, q, c)
  <1>1. CASE Unnoticed(p, s)
    <2>1. Rests(p, s) /\ Silent(s)
      BY <1>1, UnnoticedRests DEF Unnoticed, Silent
    <2>2. Moves(s, q, c)
      BY <2>1, UnnoticedRests DEF Moves, TalksOn
    <2> QED
      BY <2>1, <2>2, MovesAfterRest
  <1>2. CASE Took(p, s)
    <2>1. CASE Unnoticed(s, q)
      BY <1>2, <2>1 DEF Took, Talks, Answers, Com, Silent, Unnoticed, Moves
    <2>2. CASE TalksOn(s, q, c)
      BY <1>2, <2>2, MovesAfterReply
    <2> QED
      BY <2>1, <2>2
  <1> QED
    BY <1>1, <1>2 DEF Polling

\* One more complete frame of the poll goes through on_rx.
LEMMA PolledFrameMoves ==
    ASSUME NEW p \in Good, NEW s \in Good, NEW frame, NEW c, Ready(p),
           Silent(p), Polled(s), Polling(p, s)
    PROVE  PollsOn(p, PolledFrame(s, frame, c), c)
  <1> DEFINE a == Accepts(s, frame)
             q == OnRx(s, frame, c)
  <1>1. PolledFrame(s, frame, c) = [ok |-> a, p |-> q]
    BY DEF PolledFrame
  <1>2. Ready(s) /\ Silent(s)
    BY PollingReady
  <1>3. IF a THEN Took(s, q) ELSE Unnoticed(s, q) \/ TalksOn(s, q, c)
    BY <1>2, OnRxMoves
  <1> HIDE DEF a, q
  <1>4. CASE a
    <2>1. Took(p, q)
      BY <1>3, <1>4, TookTrans DEF Polling
    <2> QED
      BY <1>1, <1>4, <2>1 DEF PollsOn, Polling
  <1>5. CASE ~a
    <2>1. Moves(p, q, c)
      BY <1>3, <1>5, MovesAfterPolling
    <2> QED
      BY <1>1, <1>5, <2>1 DEF PollsOn
  <1> QED
    BY <1>4, <1>5

\* Collecting octets, up to a frame or short of one.
LEMMA CollectMoves ==
    ASSUME NEW p \in Good, NEW s \in Good, NEW k \in Nat, NEW c, Ready(p),
           Silent(p), Polled(s), Polling(p, s)
    PROVE  PollsOn(p, Collect(s, k, c), c)
  <1> DEFINE z == [s EXCEPT !.rx = @ \o s.fifo, !.fifo = <<>>]
             y == Consumed(s, k)
             frame == SubSeq(s.rx \o s.fifo, 1, k)
             r == PolledFrame(y, frame, c)
  <1>1. Collect(s, k, c)
           = IF Len(s.rx \o s.fifo) < k THEN [ok |-> TRUE, p |-> z] ELSE r
    BY DEF Collect
  <1>2. Unnoticed(s, z) /\ Unnoticed(s, y)
    BY ReceivePathUnnoticed DEF Good
  <1>3. y \in Good /\ Polled(y)
    BY ConsumedKept DEF Kept, SameLink, Polled
  <1> HIDE DEF z, y, frame
  <1>4. Polling(p, z) /\ Polling(p, y)
    <2>1. CASE Unnoticed(p, s)
      BY <1>2, <2>1, UnnoticedTrans DEF Polling
    <2>2. CASE Took(p, s)
      BY <1>2, <2>2 DEF Polling, Took, Talks, Answers, Com, Silent, Unnoticed
    <2> QED
      BY <2>1, <2>2 DEF Polling
  <1>5. PollsOn(p, r, c)
    BY <1>3, <1>4, PolledFrameMoves
  <1>6. PollsOn(p, [ok |-> TRUE, p |-> z], c)
    BY <1>4 DEF PollsOn
  <1> HIDE DEF r
  <1> QED
    BY <1>1, <1>5, <1>6, Zenon

\* One round of the poll.
LEMMA PollFrameMoves ==
    ASSUME NEW p \in Good, NEW r \in Polls, NEW n \in Nat, NEW c, Ready(p),
           Silent(p), PollsOn(p, r, c)
    PROVE  PollsOn(p, PollFrame(r, n, c), c)
  <1> DEFINE k == FrameEnd(r.p, n)
  <1>1. r.p \in Good /\ (r.ok => Polled(r.p))
    BY DEF Polls
  <1>2. k \in Nat
    <2>1. Len(r.p.rx) \in Nat
      BY <1>1, LenProperties DEF Good, Ports
    <2> QED
      BY <2>1 DEF FrameEnd
  <1>3. PollFrame(r, n, c)
           = IF ~r.ok \/ r.p.fifo = <<>> THEN r ELSE Collect(r.p, k, c)
    BY DEF PollFrame
  <1> HIDE DEF k
  <1>4. r.ok => PollsOn(p, Collect(r.p, k, c), c)
    BY <1>1, <1>2, CollectMoves DEF PollsOn
  <1> QED
    BY <1>3, <1>4

\* poll_rx takes replies, or ends with a move.
LEMMA PollRxMoves ==
    ASSUME NEW p \in Good, NEW c, Ready(p), Silent(p)
    PROVE  PollsOn(p, PollRx(p, c), c)
  <1> DEFINE n == Len(ExpectedReply(p))
             r0 == [ok |-> TRUE, p |-> p]
             r1 == PollFrame(r0, n, c)
             r2 == PollFrame(r1, n, c)
             r3 == PollFrame(r2, n, c)
             r4 == PollFrame(r3, n, c)
             e == [Error(r4.p) EXCEPT !.rx = <<>>]
  <1>1. PollRx(p, c) = IF ~Polled(p) THEN r0
                       ELSE IF r4.ok /\ c.fail = "recv_byte"
                       THEN [ok |-> FALSE, p |-> e]
                       ELSE r4
    BY DEF PollRx
  <1>2. n \in Nat
    BY DEF ExpectedReply, TypedReply
  <1> HIDE DEF n
  <1>3. PollsOn(p, r0, c)
    BY DEF PollsOn, Polling, Unnoticed
  <1>4. CASE ~Polled(p)
    BY <1>1, <1>3, <1>4
  <1>5. CASE Polled(p)
    <2>1. r0 \in Polls
      BY <1>5 DEF Polls
    <2> HIDE DEF r0
    <2>2. r1 \in Polls /\ PollsOn(p, r1, c)
      BY <1>2, <1>3, <2>1, PollFrameType, PollFrameMoves
    <2> HIDE DEF r1
    <2>3. r2 \in Polls /\ PollsOn(p, r2, c)
      BY <1>2, <2>2, PollFrameType, PollFrameMoves
    <2> HIDE DEF r2
    <2>4. r3 \in Polls /\ PollsOn(p, r3, c)
      BY <1>2, <2>3, PollFrameType, PollFrameMoves
    <2> HIDE DEF r3
    <2>5. r4 \in Polls /\ PollsOn(p, r4, c)
      BY <1>2, <2>4, PollFrameType, PollFrameMoves
    <2> HIDE DEF r4
    <2>6. CASE r4.ok /\ c.fail = "recv_byte"
      <3> DEFINE s == r4.p
      <3>1. s \in Good /\ Polling(p, s)
        BY <2>5, <2>6 DEF Polls, PollsOn
      <3> HIDE DEF s
      <3>2. s \in Ports /\ Error(s) \in Ports
        BY <3>1, ErrorGood DEF Good
      <3>3. /\ e.state = "ERROR" /\ e.tx = s.tx
            /\ e.baudrate_index = s.baudrate_index
            /\ e.wake_attempts = s.wake_attempts
        <4>1. /\ e.state = Error(s).state /\ e.tx = Error(s).tx
              /\ e.baudrate_index = Error(s).baudrate_index
              /\ e.wake_attempts = Error(s).wake_attempts
          BY <3>2 DEF Ports, s
        <4> QED
          BY <3>2, <4>1, ErrorFields
      <3> HIDE DEF e
      <3>4. Ready(s) /\ Silent(s)
        BY <3>1, PollingReady
      <3>5. Fails(p, e, c)
        BY <2>6, <3>3, <3>4 DEF Fails, Ready, Silent
      <3> QED
        BY <1>1, <1>5, <2>6, <3>5 DEF PollsOn, Moves
    <2>7. CASE ~(r4.ok /\ c.fail = "recv_byte")
      BY <1>1, <1>5, <2>5, <2>7
    <2> QED
      BY <2>6, <2>7
  <1> QED
    BY <1>4, <1>5


\* The next rate of the scan, or a failing PHY (establish_attempt_failed).
LEMMA NextRateMoves ==
    ASSUME NEW p \in Good, NEW a \in Good, NEW c, Ready(p), Failing(p),
           MoreRates(p), Silent(a), ~a.awaiting_response,
           a.state = p.state, a.step = p.step,
           a.baudrate_index = p.baudrate_index,
           a.wake_attempts = p.wake_attempts
    PROVE  LET q == NextRate(a, c) IN Slows(p, q) \/ Fails(p, q, c)
  <1> DEFINE i == a.baudrate_index + 1
             z == [a EXCEPT !.baudrate_index = i]
             s == SetBaudrate(z, c)
             t == [s EXCEPT !.step = "SEND_TYPE0"]
             q == ArmSendGate(t, TDmt, Timed)
  <1>1. NextRate(a, c) = IF Failed(s) THEN s ELSE q
    BY DEF NextRate
  <1>2. i \in 0..LastRate /\ i = p.baudrate_index + 1 /\ AutoBaudrate
    BY FieldTypes DEF MoreRates, LastRate
  <1> HIDE DEF i
  <1>3. z \in Ports
    BY <1>2, FieldTypes, PutLink
  <1>4. /\ z.state = "STARTUP" /\ z.tx = a.tx /\ z.baudrate_index = i
        /\ z.wake_attempts = p.wake_attempts
        /\ z.awaiting_response = a.awaiting_response
    BY DEF Good, Ports, Failing
  <1> HIDE DEF z
  <1>5. /\ s.tx = z.tx /\ s.baudrate_index = z.baudrate_index
        /\ s.wake_attempts = z.wake_attempts
        /\ s.awaiting_response = z.awaiting_response
        /\ \/ s.state = "ERROR" /\ c.fail # "none"
           \/ s.state = z.state /\ s.step = z.step
    BY <1>3, SetBaudrateFields
  <1>6. s \in Ports
    BY <1>3, SetBaudrateLink
  <1> HIDE DEF s
  <1>7. CASE s.state = "ERROR" /\ c.fail # "none"
    BY <1>1, <1>2, <1>4, <1>5, <1>7 DEF Failed, Fails, Ready, Silent
  <1>8. CASE s.state = "STARTUP"
    <2>1. t \in Ports /\ TDmt \in Nat
      BY <1>6, Literals, PutLink, TimesAssumption
    <2>2. /\ t.state = "STARTUP" /\ t.step = "SEND_TYPE0" /\ t.tx = s.tx
          /\ t.baudrate_index = s.baudrate_index
          /\ t.wake_attempts = s.wake_attempts
          /\ t.awaiting_response = s.awaiting_response
      BY <1>6, <1>8 DEF Ports
    <2> HIDE DEF t
    <2>3. /\ q.state = t.state /\ q.step = t.step /\ q.tx = t.tx
          /\ q.baudrate_index = t.baudrate_index
          /\ q.wake_attempts = t.wake_attempts
          /\ q.awaiting_response = t.awaiting_response
          /\ Timed => q.send_gate = TDmt
      BY <2>1, ArmSendGateFields
    <2> HIDE DEF q
    <2> QED
      BY <1>1, <1>2, <1>4, <1>5, <1>8, <2>2, <2>3 DEF Failed, Slows, Silent
  <1> QED
    BY <1>4, <1>5, <1>7, <1>8

\* The end of a wake-up sequence (establish_attempt_failed).
LEMMA GiveUpSequenceMoves ==
    ASSUME NEW p \in Good, NEW s \in Good, NEW c, Ready(p), Failing(p),
           ~MoreRates(p), s.state = "STARTUP", Silent(s),
           ~s.awaiting_response, s.baudrate_index = 0,
           (p.wake_attempts + 1) % 256 > WakeRetryLimit
    PROVE  LET q == GiveUpSequence(s, c) IN Pauses(p, q) \/ Fails(p, q, c)
  <1> DEFINE z == [s EXCEPT !.wake_attempts = 0]
             m == SetMode(z, "INACTIVE", c)
             t == [m EXCEPT !.step = "INACTIVE"]
             q == ArmSendGate(t, TSd, Timed)
  <1>1. GiveUpSequence(s, c) = IF Failed(m) THEN m ELSE q
    BY DEF GiveUpSequence
  <1>2. z \in Ports
    BY Literals, PutCounters DEF Kept, Good
  <1>3. /\ z.state = "STARTUP" /\ z.tx = s.tx /\ z.baudrate_index = 0
        /\ z.wake_attempts = 0 /\ z.awaiting_response = s.awaiting_response
    BY DEF Good, Ports
  <1> HIDE DEF z
  <1>4. m \in Ports
    BY <1>2, Literals, PutLink, ErrorGood DEF SetMode, Good
  <1>5. /\ m.tx = z.tx /\ m.baudrate_index = 0 /\ m.wake_attempts = 0
        /\ m.awaiting_response = z.awaiting_response
        /\ (m.state = "ERROR" /\ c.fail # "none") \/ m.state = "STARTUP"
    BY <1>2, <1>3 DEF SetMode, Error, Ports
  <1> HIDE DEF m
  <1>6. CASE m.state = "ERROR" /\ c.fail # "none"
    BY <1>1, <1>3, <1>5, <1>6, LimitAssumption DEF Failed, Fails, Silent
  <1>7. CASE m.state = "STARTUP"
    <2>1. t \in Ports /\ TSd \in Nat
      BY <1>4, Literals, PutLink, TimesAssumption
    <2>2. /\ t.state = "STARTUP" /\ t.step = "INACTIVE" /\ t.tx = m.tx
          /\ t.baudrate_index = 0 /\ t.wake_attempts = 0
          /\ t.awaiting_response = m.awaiting_response
      BY <1>4, <1>5, <1>7 DEF Ports
    <2> HIDE DEF t
    <2>3. /\ q.state = t.state /\ q.step = t.step /\ q.tx = t.tx
          /\ q.baudrate_index = t.baudrate_index
          /\ q.wake_attempts = t.wake_attempts
          /\ q.awaiting_response = t.awaiting_response
      BY <2>1, ArmSendGateFields
    <2> HIDE DEF q
    <2> QED
      BY <1>1, <1>3, <1>5, <1>7, <2>2, <2>3 DEF Failed, Pauses, Silent
  <1> QED
    BY <1>5, <1>6, <1>7

\* A failed attempt moves on to the next rate, the next wake-up or the pause.
LEMMA EstablishAttemptFailedMoves ==
    ASSUME NEW p \in Good, NEW c, Ready(p), Failing(p), Silent(p)
    PROVE  Moves(p, EstablishAttemptFailed(p, c), c)
  <1> DEFINE a == [p EXCEPT !.awaiting_response = FALSE]
             n == (p.wake_attempts + 1) % 256
             z == [a EXCEPT !.wake_attempts = n]
             s == ResetRateScan(z, c)
             t == [s EXCEPT !.step = "WAKE"]
             q == ArmSendGate(t, TDwu, Timed)
  <1>1. a \in Good /\ a.state = "STARTUP" /\ a.step # "INACTIVE"
    BY PutFlags DEF Kept, SameLink, Failing
  <1>2. /\ a.state = p.state /\ a.step = p.step /\ a.tx = p.tx
        /\ a.baudrate_index = p.baudrate_index
        /\ a.wake_attempts = p.wake_attempts /\ ~a.awaiting_response
    BY DEF Good, Ports
  <1>3. EstablishAttemptFailed(p, c)
           = IF MoreRates(a) THEN NextRate(a, c)
             ELSE IF Failed(s) THEN s
             ELSE IF MoreWakeUps(s) THEN q
             ELSE GiveUpSequence(s, c)
    BY <1>2 DEF EstablishAttemptFailed
  <1>4. MoreRates(a) <=> MoreRates(p)
    BY <1>2 DEF MoreRates
  <1>5. n \in 0..255 /\ n <= WakeRetryLimit + 1
    BY FieldTypes, LimitAssumption DEF Ready, Failing
  <1> HIDE DEF a, n
  <1>6. CASE MoreRates(p)
    <2>1. LET r == NextRate(a, c) IN Slows(p, r) \/ Fails(p, r, c)
      BY <1>1, <1>2, <1>6, NextRateMoves DEF Silent
    <2> QED
      BY <1>3, <1>4, <1>6, <2>1 DEF Moves
  <1>7. CASE ~MoreRates(p)
    <2>1. z \in Good /\ z.state = "STARTUP" /\ z.step # "INACTIVE"
      BY <1>1, <1>5, PutCounters DEF Kept, SameLink
    <2>2. /\ z.tx = p.tx /\ z.baudrate_index = p.baudrate_index
          /\ z.wake_attempts = n /\ ~z.awaiting_response
      BY <1>1, <1>2 DEF Good, Ports
    <2> HIDE DEF z
    <2>3. s \in Good
      BY <2>1, ResetRateScanGood
    <2>4. /\ s.tx = p.tx /\ s.baudrate_index = 0 /\ s.wake_attempts = n
          /\ ~s.awaiting_response
          /\ \/ s.state = "ERROR" /\ c.fail # "none"
             \/ s.state = "STARTUP"
      <3>1. z \in Ports /\ (~AutoBaudrate => z.baudrate_index = 0)
        BY <2>1, <2>2 DEF Good, Ready
      <3> QED
        BY <2>1, <2>2, <3>1, ResetRateScanFields
    <2> HIDE DEF s
    <2>5. CASE Failed(s)
      <3>1. Fails(p, s, c)
        BY <1>5, <2>4, <2>5 DEF Failed, Fails, Silent
      <3> QED
        BY <1>3, <1>4, <1>7, <2>5, <3>1 DEF Moves
    <2>6. CASE ~Failed(s) /\ MoreWakeUps(s)
      <3>1. t \in Ports /\ TDwu \in Nat
        BY <2>3, Literals, PutLink, TimesAssumption DEF Good
      <3>2. /\ t.state = "STARTUP" /\ t.step = "WAKE" /\ t.tx = p.tx
            /\ t.baudrate_index = 0 /\ t.wake_attempts = n
            /\ ~t.awaiting_response
        BY <2>3, <2>4, <2>6 DEF Good, Ports, Failed
      <3> HIDE DEF t
      <3>3. /\ q.state = t.state /\ q.step = t.step /\ q.tx = t.tx
            /\ q.baudrate_index = t.baudrate_index
            /\ q.wake_attempts = t.wake_attempts
            /\ q.awaiting_response = t.awaiting_response
        BY <3>1, ArmSendGateFields
      <3> HIDE DEF q
      <3>4. n <= WakeRetryLimit
        BY <2>4, <2>6 DEF MoreWakeUps
      <3>5. Retries(p, q)
        BY <1>7, <3>2, <3>3, <3>4 DEF Retries, Silent, n
      <3> QED
        BY <1>3, <1>4, <1>7, <2>6, <3>5 DEF Moves
    <2>7. CASE ~Failed(s) /\ ~MoreWakeUps(s)
      <3>1. (p.wake_attempts + 1) % 256 > WakeRetryLimit
        <4>1. n > WakeRetryLimit
          BY <1>5, <2>4, <2>7, LimitAssumption DEF MoreWakeUps
        <4> QED
          BY <4>1 DEF n
      <3>2. s.state = "STARTUP" /\ Silent(s)
        BY <2>4, <2>7 DEF Failed, Silent
      <3>3. LET r == GiveUpSequence(s, c) IN Pauses(p, r) \/ Fails(p, r, c)
        BY <1>7, <2>3, <2>4, <3>1, <3>2, GiveUpSequenceMoves
      <3> QED
        BY <1>3, <1>4, <1>7, <2>7, <3>3 DEF Moves
    <2> QED
      BY <2>5, <2>6, <2>7
  <1> QED
    BY <1>6, <1>7


\* What becomes of a port that talks is a move.
LEMMA TalksOnMoves ==
    ASSUME NEW p, NEW q, NEW c, TalksOn(p, q, c)
    PROVE  Moves(p, q, c)
BY DEF TalksOn, Moves

\* A timeout costs a retry, the connection or the attempt (on_timeout_at).
LEMMA OnTimeoutAtMoves ==
    ASSUME NEW p \in Good, NEW c, Ready(p), Silent(p),
           p.state = "STARTUP" /\ p.step # "INACTIVE" => Failing(p)
    PROVE  LET q == OnTimeoutAt(p, c)
           IN  Moves(p, q, c) /\ (Com(p) => TalksOn(p, q, c))
  <1> DEFINE s == FlushRx(p, c)
             n == s.rx_retry_count + 1
             t == [s EXCEPT !.rx_retry_count = n]
             q == OnTimeoutAt(p, c)
  <1>1. q = IF c.fail = "flush_rx" THEN Error(s)
            ELSE IF s.state = "OPERATE"
            THEN IF MoreRetries(s) THEN t ELSE RestartEstablish(s, Timed, c)
            ELSE IF s.state = "STARTUP" /\ s.step # "INACTIVE"
            THEN EstablishAttemptFailed(s, c)
            ELSE s
    BY DEF OnTimeoutAt
  <1>2. Unnoticed(p, s) /\ s \in Good /\ s \in Ports
    BY ReceivePathUnnoticed, FlushRxKept, KeptTrans DEF Good
  <1> HIDE DEF s, q
  <1>3. Rests(p, s) /\ Silent(s)
    BY <1>2, UnnoticedRests DEF Unnoticed, Silent
  <1>4. Ready(s)
    BY <1>2 DEF Unnoticed, Ready
  <1>5. CASE c.fail = "flush_rx"
    <2>1. Fails(p, Error(s), c)
      BY <1>2, <1>3, <1>5, ErrorFails DEF Unnoticed
    <2> QED
      BY <1>1, <1>5, <2>1 DEF Moves, TalksOn, q
  <1>6. CASE c.fail # "flush_rx" /\ s.state = "OPERATE"
    <2>1. Com(p) /\ Com(s)
      BY <1>2, <1>6 DEF Com, Unnoticed
    <2>2. CASE MoreRetries(s)
      <3>1. /\ t.state = s.state /\ t.tx = s.tx
            /\ t.baudrate_index = s.baudrate_index
            /\ t.wake_attempts = s.wake_attempts
        BY <1>2 DEF Ports
      <3> HIDE DEF t
      <3>2. Talks(p, t)
        BY <1>2, <1>3, <2>1, <3>1 DEF Talks, Com, Silent, Unnoticed
      <3> QED
        BY <1>1, <1>6, <2>2, <3>2 DEF TalksOn, Moves, q
    <2>3. CASE ~MoreRetries(s)
      <3> DEFINE l == RestartEstablish(s, Timed, c)
      <3>1. Loses(s, l) \/ Fails(s, l, c)
        BY <1>2, <1>3, <1>4, <2>1, RestartEstablishMoves
      <3>2. q = l
        BY <1>1, <1>6, <2>3
      <3> HIDE DEF l
      <3>3. ~MoreRetries(p)
        BY <1>2, <2>3 DEF MoreRetries, Unnoticed
      <3>4. Loses(p, l) \/ Fails(p, l, c)
        BY <1>2, <2>1, <3>1 DEF Loses, Fails, Unnoticed
      <3> QED
        BY <3>2, <3>3, <3>4 DEF TalksOn, Moves, q
    <2> QED
      BY <2>2, <2>3
  <1>7. CASE /\ c.fail # "flush_rx" /\ s.state = "STARTUP"
             /\ s.step # "INACTIVE"
    <2>1. Failing(s) /\ ~Com(p)
      BY <1>2, <1>7 DEF Failing, Unnoticed, Com
    <2>2. Moves(s, EstablishAttemptFailed(s, c), c)
      BY <1>2, <1>3, <1>4, <2>1, EstablishAttemptFailedMoves
    <2>3. q = EstablishAttemptFailed(s, c)
      BY <1>1, <1>7
    <2>4. Moves(p, q, c)
      BY <1>3, <2>2, <2>3, MovesAfterRest
    <2> QED
      BY <2>1, <2>4 DEF q
  <1>8. CASE /\ c.fail # "flush_rx" /\ s.state # "OPERATE"
             /\ ~(s.state = "STARTUP" /\ s.step # "INACTIVE")
    <2>1. q = s
      BY <1>1, <1>8
    <2>2. Com(p) => Talks(p, s)
      BY <1>2, <1>3 DEF Talks, Com, Unnoticed
    <2> QED
      BY <1>3, <2>1, <2>2 DEF Moves, TalksOn, q
  <1> QED
    BY <1>5, <1>6, <1>7, <1>8

\* A tick that carries RESPONSE_TIMEOUT (tick_common): on a timed port only an
\* attempt that awaits its answer can time out.
LEMMA TimeoutTickMoves ==
    ASSUME NEW p \in Good, NEW c, Ready(p), Silent(p)
    PROVE  LET q == TimeoutTick(p, c)
           IN  Moves(p, q, c) /\ (Com(p) => TalksOn(p, q, c))
  <1>1. CASE Timed /\ ~p.awaiting_response
    <2>1. TimeoutTick(p, c) = p
      BY <1>1 DEF TimeoutTick
    <2>2. Rests(p, p) /\ (Com(p) => Talks(p, p))
      BY DEF Rests, Talks
    <2> QED
      BY <2>1, <2>2 DEF Moves, TalksOn
  <1>2. CASE ~(Timed /\ ~p.awaiting_response)
    <2> DEFINE s == IF p.awaiting_response THEN FlushRx(p, c) ELSE p
               z == [s EXCEPT !.awaiting_response = FALSE]
               q == OnTimeoutAt(z, c)
    <2>1. TimeoutTick(p, c) = q
      BY <1>2 DEF TimeoutTick
    <2>2. s \in Good /\ Unnoticed(p, s)
      BY FlushRxKept, KeptTrans, ReceivePathUnnoticed DEF Good, Unnoticed
    <2> HIDE DEF s
    <2>3. z \in Good
      BY <2>2, PutFlags, KeptTrans
    <2>4. /\ z.state = p.state /\ z.step = p.step
          /\ z.baudrate_index = p.baudrate_index
          /\ z.wake_attempts = p.wake_attempts
          /\ z.rx_retry_count = p.rx_retry_count
          /\ z.send_gate = p.send_gate /\ z.tx = p.tx
          /\ z.awaiting_response = FALSE
      BY <2>2 DEF Good, Ports, Unnoticed
    <2> HIDE DEF z
    <2>5. Rests(p, z) /\ Ready(z) /\ Silent(z)
      BY <2>4 DEF Rests, Ready, Silent
    <2>6. p.state = "STARTUP" /\ p.step # "INACTIVE" => Failing(p)
      BY <1>2 DEF Ready, Failing
    <2>7. z.state = "STARTUP" /\ z.step # "INACTIVE" => Failing(z)
      BY <2>4, <2>6 DEF Failing
    <2>8. Moves(z, q, c) /\ (Com(z) => TalksOn(z, q, c))
      BY <2>3, <2>5, <2>7, OnTimeoutAtMoves
    <2> HIDE DEF q
    <2>9. Moves(p, q, c)
      BY <2>5, <2>8, MovesAfterRest
    <2>10. Com(p) => TalksOn(p, q, c)
      BY <2>4, <2>8 DEF TalksOn, Talks, Loses, Fails, Com, MoreRetries
    <2> QED
      BY <2>1, <2>9, <2>10
  <1> QED
    BY <1>1, <1>2


-----------------------------------------------------------------------------
(* Sending.                                                                *)

\* What sending does to a port that talks.
SendsOn(p, q, c) == Talks(p, q) \/ Fails(p, q, c)

\* A frame is sent and nothing else changes, or the PHY fails (send_full).
LEMMA SendFullFields ==
    ASSUME NEW p \in Ports, NEW kind, NEW read, NEW reply, NEW c
    PROVE  LET q == SendFull(p, kind, read, reply, c)
           IN  /\ q.baudrate_index = p.baudrate_index
               /\ q.wake_attempts = p.wake_attempts
               /\ q.awaiting_response = p.awaiting_response
               /\ \/ q.state = "ERROR" /\ q.tx = p.tx /\ c.fail # "none"
                  \/ q.state = p.state /\ q.step = p.step /\ q.tx = kind
BY DEF SendFull, Error, Ports

\* A port that talks sends a frame and goes on talking.
LEMMA SendFullSends ==
    ASSUME NEW p \in Good, NEW s \in Good, NEW c, NEW kind, NEW read,
           NEW reply, kind \notin {"wake", "test"}, Ready(p), Com(p),
           Silent(p), Unnoticed(p, s)
    PROVE  SendsOn(p, SendFull(s, kind, read, reply, c), c)
  <1> DEFINE q == SendFull(s, kind, read, reply, c)
  <1>1. /\ q.baudrate_index = s.baudrate_index
        /\ q.wake_attempts = s.wake_attempts
        /\ \/ q.state = "ERROR" /\ q.tx = s.tx /\ c.fail # "none"
           \/ q.state = s.state /\ q.tx = kind
    BY SendFullFields DEF Good
  <1> HIDE DEF q
  <1>2. CASE q.state = "ERROR" /\ q.tx = s.tx /\ c.fail # "none"
    BY <1>1, <1>2 DEF SendsOn, Fails, Ready, Silent, Unnoticed, q
  <1>3. CASE q.state = s.state /\ q.tx = kind
    BY <1>1, <1>3 DEF SendsOn, Talks, Com, Silent, Unnoticed, q
  <1> QED
    BY <1>1, <1>2, <1>3

\* Bookkeeping after the frame changes nothing of that.
LEMMA SendsThen ==
    ASSUME NEW p, NEW s, NEW q, NEW c, SendsOn(p, s, c),
           q.state = s.state, q.tx = s.tx,
           q.baudrate_index = s.baudrate_index,
           q.wake_attempts = s.wake_attempts
    PROVE  SendsOn(p, q, c)
BY DEF SendsOn, Talks, Fails, Com, Silent

\* One M-sequence of the event memory (send_event).
LEMMA SendEventSends ==
    ASSUME NEW p \in Good, NEW c, Ready(p), Com(p), Silent(p)
    PROVE  SendsOn(p, SendEvent(p, c), c)
  <1> DEFINE read == EventReading(p)
             reply == IF Type0 THEN Type0Reply(read) ELSE TypedReply(read)
             s == SendFull(p, "event", read, reply, c)
             b == s.event_od_expected \/ ~Failed(s)
             x == [s EXCEPT !.event_od_expected = b]
             z == [s EXCEPT !.event = "done", !.event_od_expected = FALSE]
  <1>1. SendEvent(p, c) = IF read THEN x ELSE z
    BY DEF SendEvent
  <1>2. SendsOn(p, s, c)
    <2>1. Unnoticed(p, p)
      BY DEF Unnoticed
    <2> QED
      BY <2>1, SendFullSends
  <1>3. s \in Ports
    <2>1. read \in BOOLEAN
      BY DEF EventReading
    <2> HIDE DEF read
    <2>2. reply \in Shapes
      BY <2>1, ReplyTypes
    <2> HIDE DEF reply
    <2> QED
      BY <2>1, <2>2, Literals, SendFullKept DEF KeptOrFailed, Good
  <1> HIDE DEF s, b
  <1>4. /\ x.state = s.state /\ x.tx = s.tx
        /\ x.baudrate_index = s.baudrate_index
        /\ x.wake_attempts = s.wake_attempts
    BY <1>3 DEF Ports
  <1>5. /\ z.state = s.state /\ z.tx = s.tx
        /\ z.baudrate_index = s.baudrate_index
        /\ z.wake_attempts = s.wake_attempts
    BY <1>3 DEF Ports
  <1> HIDE DEF x, z, read
  <1> QED
    BY <1>1, <1>2, <1>4, <1>5, SendsThen

\* One M-sequence of the ISDU channel (send_isdu).
LEMMA SendIsduSends ==
    ASSUME NEW p \in Good, NEW c, Ready(p), Com(p), Silent(p)
    PROVE  SendsOn(p, SendIsdu(p, c), c)
  <1> DEFINE read == p.isdu_pending # "none" \/ p.isdu_phase # "request"
             reply == IF p.state = "OPERATE" /\ ~Type0 THEN TypedReply(read)
                      ELSE Type0Reply(read)
             x == [p EXCEPT !.isdu_pending = "none"]
             y == [p EXCEPT !.isdu_phase = "wait"]
             s == IF p.isdu_pending # "none" THEN x
                  ELSE IF p.isdu_phase = "request" /\ c.svc # "more" THEN y
                  ELSE p
  <1>1. SendIsdu(p, c) = SendFull(s, "isdu", read, reply, c)
    BY DEF SendIsdu
  <1>2. x \in Good /\ y \in Good
    BY PutService, KeptTrans
  <1>3. Unnoticed(p, x) /\ Unnoticed(p, y) /\ Unnoticed(p, p)
    BY DEF Good, Ports, Unnoticed
  <1> HIDE DEF x, y, read, reply
  <1>4. s \in Good /\ Unnoticed(p, s)
    BY <1>2, <1>3
  <1> HIDE DEF s
  <1> QED
    BY <1>1, <1>4, SendFullSends

\* The DeviceOperate write (process_at).
LEMMA SendOperateSends ==
    ASSUME NEW p \in Good, NEW s \in Good, NEW c, Ready(p), Com(p), Silent(p),
           Unnoticed(p, s)
    PROVE  SendsOn(p, SendOperate(s, c), c)
  <1> DEFINE q == SendFull(s, "operate", FALSE, <<"cks">>, c)
             t == [q EXCEPT !.step = "AWAIT_OPERATE_ACK"]
  <1>1. SendOperate(s, c) = IF Failed(q) THEN q ELSE t
    BY DEF SendOperate
  <1>2. SendsOn(p, q, c)
    BY SendFullSends
  <1>3. q \in Ports
    BY ReplyTypes, Literals, SendFullKept DEF KeptOrFailed, Good
  <1> HIDE DEF q
  <1>4. /\ t.state = q.state /\ t.tx = q.tx
        /\ t.baudrate_index = q.baudrate_index
        /\ t.wake_attempts = q.wake_attempts
    BY <1>3 DEF Ports
  <1> HIDE DEF t
  <1> QED
    BY <1>1, <1>2, <1>4, SendsThen

\* Reading the identity goes unnoticed, or ends in ERROR (read_device_info).
LEMMA ReadDeviceInfoFields ==
    ASSUME NEW p \in Ports
    PROVE  LET q == ReadDeviceInfo(p)
           IN  /\ q.baudrate_index = p.baudrate_index
               /\ q.wake_attempts = p.wake_attempts
               /\ q.tx = p.tx
               /\ Unnoticed(p, q) \/ q.state = "ERROR"
BY DEF ReadDeviceInfo, IsduStart, IsduFinish, Error, Ports, Unnoticed

\* What PREOPERATE sends, or the refusal of the device (process_at).
LEMMA PreoperateSends ==
    ASSUME NEW p \in Good, NEW c, Ready(p), p.state = "PREOPERATE", Silent(p)
    PROVE  SendsOn(p, Preoperate(p, c), c)
  <1> DEFINE q == IF Validate /\ p.device_info = "none" THEN ReadDeviceInfo(p)
                  ELSE p
  <1>1. Preoperate(p, c)
           = IF EventActive(p) THEN SendEvent(p, c)
             ELSE IF IsduSending(p) THEN SendIsdu(p, c)
             ELSE IF ~Validate THEN SendOperate(p, c)
             ELSE IF Failed(q) \/ q.device_info = "none" THEN q
             ELSE IF ~ValidIdentity(q) THEN Error(q)
             ELSE SendOperate(q, c)
    BY DEF Preoperate
  <1>2. Com(p) /\ Unnoticed(p, p)
    BY DEF Com, Unnoticed
  <1>3. /\ q.baudrate_index = p.baudrate_index /\ q.tx = p.tx
        /\ q.wake_attempts = p.wake_attempts
        /\ Unnoticed(p, q) \/ q.state = "ERROR"
    <2>1. LET r == ReadDeviceInfo(p)
          IN  /\ r.baudrate_index = p.baudrate_index
              /\ r.wake_attempts = p.wake_attempts
              /\ r.tx = p.tx
              /\ Unnoticed(p, r) \/ r.state = "ERROR"
      BY ReadDeviceInfoFields DEF Good
    <2> QED
      BY <1>2, <2>1
  <1>4. q \in Good
    BY ReadDeviceInfoKept, KeptTrans
  <1> HIDE DEF q
  <1>5. SendsOn(p, SendEvent(p, c), c) /\ SendsOn(p, SendIsdu(p, c), c)
    BY <1>2, SendEventSends, SendIsduSends
  <1>6. SendsOn(p, SendOperate(p, c), c)
    BY <1>2, SendOperateSends
  <1>7. CASE Validate
    <2>1. Failed(q) => SendsOn(p, q, c)
      BY <1>3, <1>7 DEF Failed, SendsOn, Fails, Ready, Silent
    <2>2. ~Failed(q) => SendsOn(p, q, c) /\ SendsOn(p, SendOperate(q, c), c)
      <3>1. SUFFICES ASSUME ~Failed(q)
                     PROVE  SendsOn(p, q, c) /\ SendsOn(p, SendOperate(q, c), c)
        OBVIOUS
      <3>2. Unnoticed(p, q)
        BY <1>3, <3>1 DEF Failed
      <3>3. Talks(p, q)
        BY <1>2, <3>2 DEF Talks, Com, Silent, Unnoticed
      <3> QED
        BY <1>2, <1>4, <3>2, <3>3, SendOperateSends DEF SendsOn
    <2>3. SendsOn(p, Error(q), c)
      <3>1. Fails(p, Error(q), c)
        BY <1>3, <1>4, <1>7, ErrorFails DEF Good, Silent
      <3> QED
        BY <3>1 DEF SendsOn
    <2> QED
      BY <1>1, <1>5, <1>6, <2>1, <2>2, <2>3
  <1> QED
    BY <1>1, <1>5, <1>6, <1>7

\* The M-sequence of a cycle (process_at).
LEMMA OperateSends ==
    ASSUME NEW p \in Good, NEW c, Ready(p), Com(p), Silent(p)
    PROVE  SendsOn(p, Operate(p, c), c)
  <1> DEFINE reply == IF Type0 THEN <<"od", "cks">> ELSE TypedReply(FALSE)
             q == SendFull(p, "cyclic", FALSE, reply, c)
  <1>1. Operate(p, c) = IF EventActive(p) THEN SendEvent(p, c)
                        ELSE IF IsduSending(p) THEN SendIsdu(p, c) ELSE q
    BY DEF Operate
  <1>2. Unnoticed(p, p)
    BY DEF Unnoticed
  <1>3. SendsOn(p, q, c)
    BY <1>2, SendFullSends
  <1> HIDE DEF q
  <1> QED
    BY <1>1, <1>3, SendEventSends, SendIsduSends


\* The wake-up request arms the delay of the first test message (process_at).
LEMMA StartupWakeMoves ==
    ASSUME NEW p \in Good, NEW c, Ready(p), p.state = "STARTUP",
           p.step \in WakingSteps, Silent(p), ~p.awaiting_response
    PROVE  LET q == StartupWake(p, c)
           IN  (Wakes(p, q) \/ Fails(p, q, c)) /\ q.tx \in {p.tx, "wake"}
  <1> DEFINE m == IF p.step = "INACTIVE" THEN SetMode(p, "SDCI", c) ELSE p
             n == [m EXCEPT !.step = "WAKE"]
             s == WakeUp(n, c)
             t == [s EXCEPT !.step = "SEND_TYPE0"]
             q == ArmSendGate(t, WakeDelay, Timed)
  <1>1. StartupWake(p, c) = IF Failed(m) THEN m ELSE IF Failed(s) THEN s ELSE q
    BY DEF StartupWake
  <1>2. p \in Ports
    BY DEF Good
  <1>3. m \in Ports
    BY <1>2, Literals, PutLink, ErrorGood DEF SetMode, Good
  <1>4. /\ m.tx = p.tx /\ m.baudrate_index = p.baudrate_index
        /\ m.wake_attempts = p.wake_attempts
        /\ m.awaiting_response = p.awaiting_response
        /\ (m.state = "ERROR" /\ c.fail # "none") \/ m.state = "STARTUP"
    BY <1>2 DEF SetMode, Error, Ports
  <1> HIDE DEF m
  <1>5. n \in Ports
    BY <1>3, Literals, PutLink
  <1>6. /\ n.tx = p.tx /\ n.baudrate_index = p.baudrate_index
        /\ n.wake_attempts = p.wake_attempts /\ n.state = m.state
        /\ n.awaiting_response = p.awaiting_response
    BY <1>3, <1>4 DEF Ports
  <1> HIDE DEF n
  <1>7. s \in Ports
    <2>1. [n EXCEPT !.tx = "wake", !.owed = <<>>] \in Ports
      BY <1>5, Literals, EmptySeq, ZenonT(40) DEF Ports
    <2> QED
      BY <1>5, <2>1, ErrorGood DEF WakeUp, Good
  <1>8. /\ s.baudrate_index = n.baudrate_index
        /\ s.wake_attempts = n.wake_attempts
        /\ s.awaiting_response = n.awaiting_response
        /\ \/ s.state = "ERROR" /\ s.tx = n.tx /\ c.fail # "none"
           \/ s.state = n.state /\ s.tx = "wake"
    BY <1>5 DEF WakeUp, Error, Ports
  <1> HIDE DEF s
  <1>9. t \in Ports /\ WakeDelay \in Nat
    BY <1>7, Literals, PutLink, TimesAssumption DEF WakeDelay
  <1>10. /\ t.state = s.state /\ t.step = "SEND_TYPE0" /\ t.tx = s.tx
         /\ t.baudrate_index = s.baudrate_index
         /\ t.wake_attempts = s.wake_attempts
         /\ t.awaiting_response = s.awaiting_response
    BY <1>7 DEF Ports
  <1> HIDE DEF t
  <1>11. /\ q.state = t.state /\ q.step = t.step /\ q.tx = t.tx
         /\ q.baudrate_index = t.baudrate_index
         /\ q.wake_attempts = t.wake_attempts
         /\ q.awaiting_response = t.awaiting_response
         /\ Timed => q.send_gate = WakeDelay
    BY <1>9, ArmSendGateFields
  <1> HIDE DEF q
  <1>12. CASE Failed(m)
    <2>1. Fails(p, m, c)
      BY <1>4, <1>12 DEF Fails, Failed, Ready, Silent
    <2> QED
      BY <1>1, <1>4, <1>12, <2>1
  <1>13. CASE ~Failed(m) /\ Failed(s)
    <2>1. Fails(p, s, c) /\ s.tx = p.tx
      BY <1>4, <1>6, <1>8, <1>13 DEF Fails, Failed, Ready, Silent
    <2> QED
      BY <1>1, <1>13, <2>1
  <1>14. CASE ~Failed(m) /\ ~Failed(s)
    <2>1. Wakes(p, q) /\ q.tx = "wake"
      BY <1>4, <1>6, <1>8, <1>10, <1>11, <1>14 DEF Wakes, Failed
    <2> QED
      BY <1>1, <1>14, <2>1
  <1> QED
    BY <1>12, <1>13, <1>14

\* The test message at the present rate (process_at).
LEMMA StartupTestMoves ==
    ASSUME NEW p \in Good, NEW c, Ready(p), p.state = "STARTUP",
           p.step = "SEND_TYPE0", Silent(p), Timed => p.send_gate = 0
    PROVE  LET q == StartupTest(p, c)
           IN  (Tests(p, q) \/ Fails(p, q, c)) /\ q.tx \in {p.tx, "test"}
  <1> DEFINE s == SendFull(p, "test", TRUE, <<"od", "cks">>, c)
             t == [s EXCEPT !.step = "AWAIT_RESPONSE"]
             q == ArmTestDeadline(t)
  <1>1. StartupTest(p, c) = IF Failed(s) THEN s ELSE q
    BY DEF StartupTest
  <1>2. s \in Ports
    BY ReplyTypes, Literals, SendFullKept DEF KeptOrFailed, Good
  <1>3. /\ s.baudrate_index = p.baudrate_index
        /\ s.wake_attempts = p.wake_attempts
        /\ \/ s.state = "ERROR" /\ s.tx = p.tx /\ c.fail # "none"
           \/ s.state = p.state /\ s.tx = "test"
    BY FieldTypes DEF SendFull, Error, Ports
  <1> HIDE DEF s
  <1>4. t \in Ports
    BY <1>2, Literals, PutLink
  <1>5. /\ t.state = s.state /\ t.step = "AWAIT_RESPONSE" /\ t.tx = s.tx
        /\ t.baudrate_index = s.baudrate_index
        /\ t.wake_attempts = s.wake_attempts
    BY <1>2 DEF Ports
  <1> HIDE DEF t
  <1>6. /\ q.state = t.state /\ q.step = t.step /\ q.tx = t.tx
        /\ q.baudrate_index = t.baudrate_index
        /\ q.wake_attempts = t.wake_attempts
    BY <1>4 DEF ArmTestDeadline, Ports
  <1> HIDE DEF q
  <1>7. CASE Failed(s)
    <2>1. Fails(p, s, c) /\ s.tx = p.tx
      BY <1>3, <1>7 DEF Fails, Failed, Ready, Silent
    <2> QED
      BY <1>1, <1>7, <2>1
  <1>8. CASE ~Failed(s)
    <2>1. Tests(p, q) /\ q.tx = "test"
      BY <1>3, <1>5, <1>6, <1>8 DEF Tests, Failed
    <2> QED
      BY <1>1, <1>8, <2>1
  <1> QED
    BY <1>7, <1>8

\* The whole send side (process_at).
LEMMA ProcessAtMoves ==
    ASSUME NEW p \in Good, NEW c, Ready(p), Silent(p), ~p.awaiting_response
    PROVE  LET q == ProcessAt(p, c)
           IN  /\ Moves(p, q, c)
               /\ Com(p) => SendsOn(p, q, c)
               /\ ~Com(p) => q.tx \in {p.tx, "wake", "test"}
  <1> DEFINE q == ProcessAt(p, c)
  <1>0. Rests(p, p) /\ (Com(p) => Talks(p, p))
    BY DEF Rests, Talks
  <1>1. CASE Timed /\ p.send_gate > 0
    <2>1. ProcessAt(p, c) = p
      BY <1>1 DEF ProcessAt
    <2> QED
      BY <1>0, <2>1 DEF Moves, SendsOn
  <1>2. CASE ~(Timed /\ p.send_gate > 0)
    <2>0. Timed => p.send_gate = 0
      BY <1>2, FieldTypes
    <2>1. CASE p.state = "STARTUP" /\ p.step \in WakingSteps
      <3>1. ProcessAt(p, c) = StartupWake(p, c) /\ ~Com(p)
        BY <1>2, <2>1 DEF ProcessAt, WakingSteps, Com
      <3> QED
        BY <2>1, <3>1, StartupWakeMoves DEF Moves
    <2>2. CASE p.state = "STARTUP" /\ p.step = "SEND_TYPE0"
      <3>1. ProcessAt(p, c) = StartupTest(p, c) /\ ~Com(p)
        BY <1>2, <2>2 DEF ProcessAt, WakingSteps, Com
      <3> QED
        BY <2>0, <2>2, <3>1, StartupTestMoves DEF Moves
    <2>3. CASE p.state = "PREOPERATE"
      <3>1. ProcessAt(p, c) = Preoperate(p, c) /\ Com(p)
        BY <1>2, <2>3 DEF ProcessAt, Com
      <3>2. SendsOn(p, Preoperate(p, c), c)
        BY <2>3, PreoperateSends
      <3> QED
        BY <3>1, <3>2 DEF SendsOn, Moves
    <2>4. CASE p.state = "OPERATE"
      <3>1. ProcessAt(p, c) = Operate(p, c) /\ Com(p)
        BY <1>2, <2>4 DEF ProcessAt, Com
      <3>2. SendsOn(p, Operate(p, c), c)
        BY <3>1, OperateSends
      <3> QED
        BY <3>1, <3>2 DEF SendsOn, Moves
    <2>5. CASE /\ p.state \notin {"PREOPERATE", "OPERATE"}
               /\ p.state = "STARTUP"
                     => p.step \notin WakingSteps \cup {"SEND_TYPE0"}
      <3>1. ProcessAt(p, c) = p
        BY <1>2, <2>5 DEF ProcessAt
      <3> QED
        BY <1>0, <3>1 DEF Moves, SendsOn
    <2> QED
      BY <2>1, <2>2, <2>3, <2>4, <2>5
  <1> QED
    BY <1>1, <1>2

\* A tick that carries CYCLE_DUE (tick_common); only a cycle of OPERATE starts
\* the response timer.
LEMMA CycleTickMoves ==
    ASSUME NEW p \in Good, NEW c, Ready(p), Silent(p),
           Com(p) \/ p.tx = "none"
    PROVE  LET q == CycleTick(p, c)
           IN  Moves(p, q, c) /\ (Com(p) => TalksOn(p, q, c))
  <1>1. CASE p.awaiting_response \/ (Timed /\ ~CycleDue(p))
    <2>1. CycleTick(p, c) = p
      BY <1>1 DEF CycleTick
    <2>2. Rests(p, p) /\ (Com(p) => Talks(p, p))
      BY DEF Rests, Talks
    <2> QED
      BY <2>1, <2>2 DEF Moves, TalksOn
  <1>2. CASE ~(p.awaiting_response \/ (Timed /\ ~CycleDue(p)))
    <2> DEFINE s == ProcessAt(p, c)
               q == StartCycleTimer(s)
    <2>1. CycleTick(p, c) = IF Timed /\ s.tx = "cyclic" THEN q ELSE s
      BY <1>2 DEF CycleTick
    <2>2. /\ Moves(p, s, c)
          /\ Com(p) => SendsOn(p, s, c)
          /\ ~Com(p) => s.tx \in {p.tx, "wake", "test"}
      BY <1>2, ProcessAtMoves
    <2>3. s \in Ports
      BY ProcessAtGood DEF Good
    <2> HIDE DEF s
    <2>4. CASE Com(p)
      <3>1. /\ q.state = s.state /\ q.tx = s.tx
            /\ q.baudrate_index = s.baudrate_index
            /\ q.wake_attempts = s.wake_attempts
        BY <2>3 DEF StartCycleTimer, Ports
      <3> HIDE DEF q
      <3>2. SendsOn(p, s, c) /\ SendsOn(p, q, c)
        BY <2>2, <2>4, <3>1, SendsThen
      <3> QED
        BY <2>1, <2>4, <3>2 DEF SendsOn, TalksOn, Moves
    <2>5. CASE ~Com(p)
      <3>1. s.tx # "cyclic"
        BY <2>2, <2>5
      <3> QED
        BY <2>1, <2>2, <2>5, <3>1
    <2> QED
      BY <2>4, <2>5
  <1> QED
    BY <1>1, <1>2

\* Whatever a tick carries, it makes one move of the procedure: a poll that
\* takes the answer is never followed by the timeout of the same attempt.
LEMMA TickCommonMoves ==
    ASSUME NEW p \in Good, NEW event, NEW c, Ready(p)
    PROVE  Moves(p, TickCommon(p, event, c), c)
  <1> DEFINE z == [p EXCEPT !.tx = "none"]
             r == PollRx(z, c)
             s == r.p
             q == CASE event = "CYCLE_DUE" -> CycleTick(s, c)
                    [] event = "RESPONSE_TIMEOUT" -> TimeoutTick(s, c)
                    [] OTHER -> s
  <1>1. TickCommon(p, event, c) = IF ~r.ok THEN s ELSE q
    BY DEF TickCommon
  <1>2. z \in Good
    BY Literals, PutWire, KeptTrans
  <1>3. /\ z.state = p.state /\ z.step = p.step
        /\ z.baudrate_index = p.baudrate_index
        /\ z.wake_attempts = p.wake_attempts
        /\ z.awaiting_response = p.awaiting_response
        /\ z.send_gate = p.send_gate /\ z.tx = "none"
    BY DEF Good, Ports
  <1> HIDE DEF z
  <1>4. Rests(p, z) /\ Ready(z) /\ Silent(z)
    BY <1>3 DEF Rests, Ready, Silent
  <1>5. IF r.ok THEN Polling(z, s) ELSE Moves(z, s, c)
    BY <1>2, <1>4, PollRxMoves DEF PollsOn
  <1>6. s \in Good
    BY <1>2, PollRxGood
  <1> HIDE DEF r, s
  <1>7. CASE ~r.ok
    <2>1. Moves(p, s, c)
      BY <1>4, <1>5, <1>7, MovesAfterRest
    <2> QED
      BY <1>1, <1>7, <2>1
  <1>8. CASE r.ok
    <2>1. Polling(z, s) /\ Ready(s) /\ Silent(s)
      BY <1>2, <1>4, <1>5, <1>6, <1>8, PollingReady
    <2>2. Com(s) \/ s.tx = "none"
      BY <1>3, <2>1 DEF Polling, Unnoticed, Took, Talks, Answers
    <2>3. /\ Moves(s, CycleTick(s, c), c)
          /\ Com(s) => TalksOn(s, CycleTick(s, c), c)
      BY <1>6, <2>1, <2>2, CycleTickMoves
    <2>4. /\ Moves(s, TimeoutTick(s, c), c)
          /\ Com(s) => TalksOn(s, TimeoutTick(s, c), c)
      BY <1>6, <2>1, TimeoutTickMoves
    <2>5. /\ Moves(s, s, c)
          /\ Com(s) => TalksOn(s, s, c)
      BY <2>1 DEF Moves, Rests, TalksOn, Talks
    <2>6. Moves(s, q, c) /\ (Com(s) => TalksOn(s, q, c))
      BY <2>3, <2>4, <2>5
    <2> HIDE DEF q
    <2>7. Moves(z, q, c)
      <3>1. CASE Unnoticed(z, s)
        BY <1>4, <2>6, <3>1, UnnoticedRests, MovesAfterRest
      <3>2. CASE Took(z, s)
        <4>1. Com(s)
          BY <3>2 DEF Took, Talks, Answers
        <4> QED
          BY <2>6, <3>2, <4>1, MovesAfterReply
      <3> QED
        BY <2>1, <3>1, <3>2 DEF Polling
    <2> QED
      BY <1>1, <1>4, <1>8, <2>7, MovesAfterRest
  <1> QED
    BY <1>7, <1>8


-----------------------------------------------------------------------------
(* The specification.                                                      *)

\* A port just initialised, and time passing.
Fresh(q, c) ==
    /\ q.baudrate_index = 0 /\ q.wake_attempts = 0 /\ q.tx = "none"
    /\ ~q.awaiting_response
    /\ \/ q.state = "ERROR" /\ c.fail # "none"
       \/ q.state = "STARTUP" /\ q.step = "WAKE"

Elapses(p, q) ==
    /\ q.state = p.state /\ q.step = p.step
    /\ q.baudrate_index = p.baudrate_index
    /\ q.wake_attempts = p.wake_attempts
    /\ q.awaiting_response = p.awaiting_response
    /\ q.send_gate = Less(p.send_gate) /\ q.tx = "none"

\* iolink_master_init leaves a fresh port, or one in ERROR.
LEMMA PortInitFresh ==
    ASSUME NEW phy, phy.phy_mode \in Modes, phy.phy_rate \in 0..LastRate,
           phy.fifo \in Seq(Octets), phy.owed \in Seq(Shapes), NEW c
    PROVE  Fresh(PortInit(phy, c), c)
  <1> DEFINE p == NewPort(phy)
             f == FlushRx(p, c)
             b == SetBaudrate(f, c)
             m == SetMode(b, "SDCI", c)
  <1>1. PortInit(phy, c)
           = IF c.fail = "init" THEN Error(p)
             ELSE IF c.fail = "flush_rx" THEN Error(f)
             ELSE IF Failed(b) THEN b
             ELSE m
    BY DEF PortInit
  <1>2. p \in Ports
    BY NewPortType
  <1>3. /\ p.state = "STARTUP" /\ p.step = "WAKE" /\ p.baudrate_index = 0
        /\ p.wake_attempts = 0 /\ p.tx = "none" /\ p.awaiting_response = FALSE
    BY DEF NewPort
  <1> HIDE DEF p
  <1>4. f \in Ports /\ Unnoticed(p, f)
    BY <1>2, FlushRxLink, ReceivePathUnnoticed
  <1> HIDE DEF f
  <1>5. /\ b.tx = f.tx /\ b.baudrate_index = f.baudrate_index
        /\ b.wake_attempts = f.wake_attempts
        /\ b.awaiting_response = f.awaiting_response
        /\ \/ b.state = "ERROR" /\ c.fail # "none"
           \/ b.state = f.state /\ b.step = f.step
    BY <1>4, SetBaudrateFields
  <1>6. b \in Ports
    BY <1>4, SetBaudrateLink
  <1> HIDE DEF b
  <1>7. /\ m.tx = b.tx /\ m.baudrate_index = b.baudrate_index
        /\ m.wake_attempts = b.wake_attempts
        /\ m.awaiting_response = b.awaiting_response
        /\ \/ m.state = "ERROR" /\ c.fail # "none"
           \/ m.state = b.state /\ m.step = b.step
    BY <1>6 DEF SetMode, Error, Ports
  <1> HIDE DEF m
  <1>8. \A s \in {p, f} :
           /\ Error(s).tx = s.tx /\ Error(s).baudrate_index = s.baudrate_index
           /\ Error(s).wake_attempts = s.wake_attempts
           /\ Error(s).awaiting_response = s.awaiting_response
           /\ Error(s).state = "ERROR"
    BY <1>2, <1>4 DEF Error, Ports
  <1>9. Fresh(b, c)
    BY <1>3, <1>4, <1>5 DEF Fresh, Unnoticed
  <1>10. ~Failed(b) => Fresh(m, c)
    BY <1>7, <1>9 DEF Fresh, Failed
  <1>11. c.fail # "none" => Fresh(Error(p), c) /\ Fresh(Error(f), c)
    BY <1>3, <1>4, <1>8 DEF Fresh, Unnoticed
  <1> QED
    BY <1>1, <1>9, <1>10, <1>11

\* Restarting leaves a fresh port.
LEMMA RestartFresh ==
    ASSUME port \in Good, NEW c, Restart(c)
    PROVE  Fresh(port', c)
  <1>1. /\ port.phy_mode \in Modes /\ port.phy_rate \in 0..LastRate
        /\ port.fifo \in Seq(Octets) /\ port.owed \in Seq(Shapes)
    BY DEF Good, Ports
  <1>2. port' = PortInit(port, c)
    BY DEF Restart
  <1> QED
    BY <1>1, <1>2, PortInitFresh

\* A call that goes unnoticed, and sends nothing.
LEMMA SilentCallRests ==
    ASSUME NEW p, NEW s \in Ports, Unnoticed(p, s)
    PROVE  Rests(p, [s EXCEPT !.tx = "none"])
  <1> DEFINE q == [s EXCEPT !.tx = "none"]
  <1>1. /\ q.state = s.state /\ q.step = s.step
        /\ q.baudrate_index = s.baudrate_index
        /\ q.wake_attempts = s.wake_attempts
        /\ q.awaiting_response = s.awaiting_response
        /\ q.send_gate = s.send_gate /\ q.tx = "none"
    BY DEF Ports
  <1> HIDE DEF q
  <1>2. Rests(p, q)
    BY <1>1 DEF Rests, Silent, Unnoticed
  <1> QED
    BY <1>2 DEF q

\* Octets arrive without the procedure noticing.
LEMMA ReceivedRests ==
    ASSUME port \in Ports, NEW octets, Received(octets)
    PROVE  Rests(port, port')
  <1> DEFINE f == port.fifo \o octets
             o == Tail(port.owed)
             q == [port EXCEPT !.fifo = f, !.owed = o, !.tx = "none"]
  <1>1. port' = q
    BY Zenon DEF Received
  <1> HIDE DEF f, o
  <1>2. /\ q.state = port.state /\ q.step = port.step
        /\ q.baudrate_index = port.baudrate_index
        /\ q.wake_attempts = port.wake_attempts
        /\ q.awaiting_response = port.awaiting_response
        /\ q.send_gate = port.send_gate /\ q.tx = "none"
    BY DEF Ports
  <1> HIDE DEF q
  <1> QED
    BY <1>1, <1>2 DEF Rests, Silent

\* The inductive invariant.
EInv == Inv /\ Ready(port)

\* What the steps of the specification do to the procedure.
PortSteps ==
    \/ Rests(port, port')
    \/ Elapses(port, port') /\ Elapse
    \/ \E c \in Choices : Moves(port, port', c)
    \/ \E c \in Choices : Fresh(port', c) /\ Restart(c)

\* Every step of the specification is one of them.
LEMMA NextSteps == ASSUME EInv, Next PROVE PortSteps
  <1>1. port \in Good /\ port \in Ports /\ Ready(port)
    BY DEF EInv, Inv, Good
  <1>2. ASSUME NEW c \in Choices, TickAt(c)
        PROVE  PortSteps
    BY <1>1, <1>2, TickCommonMoves DEF TickAt, PortSteps
  <1>3. ASSUME NEW c \in Choices,
               NEW e \in {"NONE", "CYCLE_DUE", "RESPONSE_TIMEOUT"},
               TickEvent(e, c)
        PROVE  PortSteps
    BY <1>1, <1>3, TickCommonMoves DEF TickEvent, PortSteps
  <1>4. ASSUME NEW c \in Choices, Restart(c)
        PROVE  PortSteps
    BY <1>1, <1>4, RestartFresh DEF PortSteps
  <1>5. CASE StartIsdu
    <2>1. /\ IsduStart(port, "app") \in Ports
          /\ Unnoticed(port, IsduStart(port, "app"))
      BY <1>1, IsduStartKept, IsduUnnoticed DEF Kept, Good
    <2> QED
      BY <1>5, <2>1, SilentCallRests DEF StartIsdu, PortSteps
  <1>6. CASE CollectIsdu
    <2>1. IsduFinish(port) \in Ports /\ Unnoticed(port, IsduFinish(port))
      BY <1>1, IsduFinishKept, IsduUnnoticed DEF Kept, Good
    <2> QED
      BY <1>6, <2>1, SilentCallRests DEF CollectIsdu, PortSteps
  <1>7. ASSUME NEW phase \in {"read", "read_ack"}, StartEvent(phase)
        PROVE  PortSteps
    <2> DEFINE x == [port EXCEPT !.event = phase, !.event_od_expected = FALSE]
    <2>1. port' = [x EXCEPT !.tx = "none"]
      BY <1>7 DEF StartEvent
    <2>2. x \in Ports
      BY <1>1, ZenonT(40) DEF Ports
    <2>3. Unnoticed(port, x)
      BY <1>1 DEF Ports, Unnoticed
    <2> HIDE DEF x
    <2> QED
      BY <2>1, <2>2, <2>3, SilentCallRests DEF PortSteps
  <1>8. CASE CollectEvent
    <2> DEFINE x == [port EXCEPT !.event = "none"]
    <2>1. port' = [x EXCEPT !.tx = "none"]
      BY <1>8 DEF CollectEvent
    <2>2. x \in Ports
      BY <1>1, ZenonT(40) DEF Ports
    <2>3. Unnoticed(port, x)
      BY <1>1 DEF Ports, Unnoticed
    <2> HIDE DEF x
    <2> QED
      BY <2>1, <2>2, <2>3, SilentCallRests DEF PortSteps
  <1>9. ASSUME NEW d \in Pluggable, Plug(d)
        PROVE  PortSteps
    <2> DEFINE x == [port EXCEPT !.owed = <<>>]
    <2>1. port' = [x EXCEPT !.tx = "none"]
      BY <1>9 DEF Plug
    <2>2. x \in Ports
      BY <1>1, EmptySeq, PutWire DEF Kept, Good
    <2>3. Unnoticed(port, x)
      BY <1>1 DEF Ports, Unnoticed
    <2> HIDE DEF x
    <2> QED
      BY <2>1, <2>2, <2>3, SilentCallRests DEF PortSteps
  <1>10. CASE \/ \E cks \in CksOctets : Answer(cks)
              \/ AnswerGarbled \/ AnswerTruncated
    <2>1. \E octets : Received(octets)
      BY <1>10, Zenon DEF Answer, AnswerGarbled, AnswerTruncated
    <2> QED
      BY <1>1, <2>1, ReceivedRests DEF PortSteps
  <1>11. CASE Elapse
    <2> DEFINE a == Less(port.deadline)
               b == Less(port.send_gate)
               d == Less(port.cycle_left)
               q == [port EXCEPT !.deadline = a, !.send_gate = b,
                                 !.cycle_left = d, !.tx = "none"]
    <2>1. port' = q
      BY <1>11, Zenon DEF Elapse
    <2> HIDE DEF a, b, d
    <2>2. /\ q.state = port.state /\ q.step = port.step
          /\ q.baudrate_index = port.baudrate_index
          /\ q.wake_attempts = port.wake_attempts
          /\ q.awaiting_response = port.awaiting_response
          /\ q.send_gate = b /\ q.tx = "none"
      BY <1>1 DEF Ports
    <2> HIDE DEF q
    <2> QED
      BY <1>11, <2>1, <2>2 DEF Elapses, PortSteps, b
  <1> QED
    BY <1>2, <1>3, <1>4, <1>5, <1>6, <1>7, <1>8, <1>9, <1>10, <1>11 DEF Next


\* A fresh port is ready.
LEMMA FreshReady ==
    ASSUME NEW q, NEW c, Fresh(q, c)
    PROVE  Ready(q)
BY LimitAssumption DEF Fresh, Ready

\* The port after power-on is fresh.
LEMMA InitFresh ==
    ASSUME Init
    PROVE  \E c \in Choices : Fresh(port, c)
  <1>1. PICK c \in Choices : port = PortInit(PowerOnPhy, c)
    BY DEF Init
  <1>2. /\ PowerOnPhy.phy_mode \in Modes
        /\ PowerOnPhy.phy_rate \in 0..LastRate
        /\ PowerOnPhy.fifo \in Seq(Octets) /\ PowerOnPhy.owed \in Seq(Shapes)
    BY EnvironmentAssumption, EmptySeq DEF PowerOnPhy, Modes, LastRate
  <1> QED
    BY <1>1, <1>2, PortInitFresh

\* Ports that are good and ready are all a run ever reaches.
LEMMA EInvHolds ==
    /\ Init => EInv
    /\ EInv /\ [Next]_vars => EInv'
  <1>1. ASSUME Init PROVE EInv
    BY <1>1, InitInv, InitFresh, FreshReady DEF EInv
  <1>2. ASSUME EInv, [Next]_vars PROVE EInv'
    <2>1. Inv' /\ port' \in Good /\ port \in Good /\ Ready(port)
      BY <1>2, NextInv DEF EInv, Inv
    <2>2. CASE Next
      <3>1. PortSteps
        BY <1>2, <2>2, NextSteps
      <3>2. CASE Rests(port, port')
        <4>1. Moves(port, port', [fail |-> "none"])
          BY <3>2 DEF Moves
        <4> QED
          BY <2>1, <4>1, MovesReady DEF EInv
      <3>3. CASE Elapses(port, port')
        BY <2>1, <3>3 DEF Elapses, Ready, EInv
      <3>4. CASE \E c \in Choices : Moves(port, port', c)
        BY <2>1, <3>4, MovesReady DEF EInv
      <3>5. CASE \E c \in Choices : Fresh(port', c)
        BY <2>1, <3>5, FreshReady DEF EInv
      <3> QED
        BY <3>1, <3>2, <3>3, <3>4, <3>5 DEF PortSteps
    <2>3. CASE UNCHANGED vars
      BY <1>2, <2>3 DEF vars, EInv, Inv
    <2> QED
      BY <1>2, <2>2, <2>3
  <1> QED
    BY <1>1, <1>2

\* The inductive invariant holds throughout.
LEMMA SpecEInv == Spec => []EInv
BY EInvHolds, PTL DEF Spec

\* A port that validates nothing latches ERROR only when a PHY callback fails:
\* no reply, no silence, no noise, no timeout and no mix of application calls
\* takes it there (restart_establish, process_at, on_rx, on_timeout_at).
THEOREM ErrorsFromPhy ==
    ASSUME ~Validate
    PROVE  Spec => []ErrorOnlyFromPhy
  <1>1. Init => ErrorOnlyFromPhy
    <2>1. SUFFICES ASSUME Init, Faults = {} PROVE port.state # "ERROR"
      BY DEF ErrorOnlyFromPhy
    <2>2. \A c \in Choices : c.fail = "none"
      BY <2>1 DEF Choices
    <2> QED
      BY <2>1, <2>2, InitFresh DEF Fresh
  <1>2. EInv /\ ErrorOnlyFromPhy /\ [Next]_vars => ErrorOnlyFromPhy'
    <2>1. SUFFICES ASSUME EInv, Faults = {}, port.state # "ERROR", [Next]_vars
                   PROVE  port'.state # "ERROR"
      BY DEF ErrorOnlyFromPhy
    <2>2. \A c \in Choices : c.fail = "none"
      BY <2>1 DEF Choices
    <2>3. CASE Next
      <3>1. PortSteps
        BY <2>1, <2>3, NextSteps
      <3>2. ASSUME NEW c \in Choices, Moves(port, port', c)
            PROVE  port'.state # "ERROR"
        BY <2>1, <2>2, <3>2
        DEF Moves, Rests, Talks, Answers, Loses, Fails, Wakes, Tests, Slows,
            Retries, Pauses, Com
      <3> QED
        BY <2>1, <2>2, <3>1, <3>2 DEF PortSteps, Rests, Elapses, Fresh
    <2>4. CASE UNCHANGED vars
      BY <2>1, <2>4 DEF vars
    <2> QED
      BY <2>1, <2>3, <2>4
  <1> QED
    BY <1>1, <1>2, SpecEInv, PTL DEF Spec

-----------------------------------------------------------------------------
(* The refinement.                                                         *)

\* The first and the last rate of the scan, or the only one.
LEMMA ScanEnds ==
    /\ Establish!First = IF AutoBaudrate THEN 0 ELSE LastRate
    /\ Establish!Last = LastRate
  <1> DEFINE rates == IF AutoBaudrate THEN 0..LastRate ELSE {LastRate}
             lo == IF AutoBaudrate THEN 0 ELSE LastRate
  <1>1. /\ lo \in rates /\ LastRate \in rates
        /\ \A r \in rates : lo <= r /\ r <= LastRate
        /\ \A r \in rates : r \in Int
    BY DEF LastRate
  <1>2. \A r \in rates : (\A s \in rates : r <= s) <=> r = lo
    BY DEF LastRate
  <1>3. \A r \in rates : (\A s \in rates : s <= r) <=> r = LastRate
    BY DEF LastRate
  <1>4. Establish!First = CHOOSE r \in rates : \A s \in rates : r <= s
    BY DEF Establish!First
  <1>5. Establish!Last = CHOOSE r \in rates : \A s \in rates : s <= r
    BY DEF Establish!Last
  <1> HIDE DEF rates, lo
  <1>6. Establish!First = lo
    BY <1>1, <1>2, <1>4
  <1>7. Establish!Last = LastRate
    BY <1>1, <1>3, <1>5
  <1> QED
    BY <1>6, <1>7 DEF lo


\* The phase of the procedure, by the state and the step of the port.
LEMMA PhaseCases ==
    ASSUME Ready(port), port \in Good
    PROVE  /\ port.state = "ERROR" => Phase = "fault"
           /\ Com(port) => Phase = "com"
           /\ port.state = "STARTUP" /\ port.step = "WAKE" => Phase = "wurq"
           /\ port.state = "STARTUP" /\ port.step = "SEND_TYPE0"
                 => Phase = "test"
           /\ port.state = "STARTUP" /\ port.step = "AWAIT_RESPONSE"
                 => Phase = "await"
           /\ port.state = "STARTUP" /\ port.step = "INACTIVE"
                 => Phase = "pause"
           /\ port.state = "ERROR" \/ Com(port) \/ port.state = "STARTUP"
           /\ port.state = "STARTUP" =>
                 port.step \in {"WAKE", "SEND_TYPE0", "AWAIT_RESPONSE", "INACTIVE"}
BY FieldTypes DEF Phase, Com, Ready, States, Steps

\* Every move of the timed port is a step of the procedure.
LEMMA MovesImplement ==
    ASSUME Timed, WakeRetryLimit < 255, EInv, EInv', NEW c,
           Moves(port, port', c)
    PROVE  Establish!Next
  <1>1. /\ port \in Good /\ port' \in Good /\ Ready(port) /\ Ready(port')
    BY DEF EInv, Inv
  <1>2. /\ port.baudrate_index \in 0..2 /\ port.wake_attempts \in 0..255
        /\ port'.baudrate_index \in 0..2 /\ port'.wake_attempts \in 0..255
        /\ WakeRetryLimit \in 1..255
    BY <1>1, FieldTypes, LimitAssumption
  <1>3. /\ port.state = "ERROR" => Phase = "fault"
        /\ Com(port) => Phase = "com"
        /\ port.state = "STARTUP" /\ port.step = "WAKE" => Phase = "wurq"
        /\ port.state = "STARTUP" /\ port.step = "SEND_TYPE0"
              => Phase = "test"
        /\ port.state = "STARTUP" /\ port.step = "AWAIT_RESPONSE"
              => Phase = "await"
        /\ port.state = "STARTUP" /\ port.step = "INACTIVE"
              => Phase = "pause"
    BY <1>1, PhaseCases
  <1>4. /\ port'.state = "ERROR" => Phase' = "fault"
        /\ Com(port') => Phase' = "com"
        /\ port'.state = "STARTUP" /\ port'.step = "WAKE" => Phase' = "wurq"
        /\ port'.state = "STARTUP" /\ port'.step = "SEND_TYPE0"
              => Phase' = "test"
        /\ port'.state = "STARTUP" /\ port'.step = "AWAIT_RESPONSE"
              => Phase' = "await"
        /\ port'.state = "STARTUP" /\ port'.step = "INACTIVE"
              => Phase' = "pause"
    BY <1>1, FieldTypes DEF Phase, Com, Ready, States, Steps
  <1>5. CASE Rests(port, port')
    <2>1. Phase' = Phase
      BY <1>5 DEF Rests, Phase
    <2> QED
      BY <1>5, <2>1 DEF Rests, Silent, Establish!Next, Establish!Quiet
  <1>6. CASE Talks(port, port')
    BY <1>3, <1>4, <1>6 DEF Talks, Silent, Establish!Next, Establish!Quiet
  <1>7. CASE Answers(port, port')
    BY <1>3, <1>4, <1>7 DEF Answers, Silent, Establish!Next, Establish!Answered
  <1>8. CASE Loses(port, port')
    BY <1>3, <1>4, <1>8, ScanEnds
    DEF Loses, Silent, Establish!Next, Establish!ComLost
  <1>9. CASE Fails(port, port', c)
    BY <1>2, <1>4, <1>9
    DEF Fails, Silent, LastRate, Establish!Next, Establish!Fault
  <1>10. CASE Wakes(port, port')
    <2>1. Phase \in {"wurq", "pause"} /\ port.baudrate_index = 0
      BY <1>1, <1>3, <1>10 DEF Wakes, WakingSteps, Ready
    <2> QED
      BY <1>4, <1>10, <2>1, ScanEnds
      DEF Wakes, Establish!Next, Establish!WakeUp
  <1>11. CASE Tests(port, port')
    BY <1>3, <1>4, <1>11 DEF Tests, Establish!Next, Establish!Test
  <1>12. CASE Slows(port, port')
    BY <1>2, <1>3, <1>4, <1>12, ScanEnds
    DEF Slows, Failing, MoreRates, LastRate, Silent,
        Establish!Next, Establish!NextRate
  <1>13. CASE Retries(port, port') \/ Pauses(port, port')
    <2>1. port.state = "STARTUP" /\ Phase = "await"
      BY <1>3, <1>13 DEF Retries, Pauses, Failing
    <2>2. (IF AutoBaudrate THEN port.baudrate_index ELSE LastRate) = LastRate
      BY <1>2, <1>13 DEF Retries, Pauses, MoreRates, LastRate
    <2>3. /\ (port.wake_attempts + 1) % 256 = port.wake_attempts + 1
          /\ port.wake_attempts <= WakeRetryLimit
      BY <1>1, <1>2, <2>1 DEF Ready
    <2>4. CASE Retries(port, port')
      BY <1>2, <1>4, <2>1, <2>2, <2>3, <2>4, ScanEnds, SMTT(20)
      DEF Retries, Silent, Establish!Next, Establish!RetryWakeUp
    <2>5. CASE Pauses(port, port')
      BY <1>2, <1>4, <2>1, <2>2, <2>3, <2>5, ScanEnds, SMTT(20)
      DEF Pauses, Silent, Establish!Next, Establish!GiveUp
    <2> QED
      BY <1>13, <2>4, <2>5
  <1> QED
    BY <1>5, <1>6, <1>7, <1>8, <1>9, <1>10, <1>11, <1>12, <1>13 DEF Moves


\* Establishing communication is the procedure of Figure 36: on a timed port
\* with fewer than 255 wake-up retries (at 255 the uint8_t counter wraps and
\* the sequence is never given up) every tick makes one step of it or none,
\* whatever is received, late, lost, garbled or failing in between.
THEOREM Implementation ==
    ASSUME Timed, WakeRetryLimit < 255
    PROVE  Spec => EstablishImplemented
  <1>1. Init => Establish!Init
    <2>1. SUFFICES ASSUME Init PROVE Establish!Init
      OBVIOUS
    <2>2. PICK c \in Choices : Fresh(port, c)
      BY <2>1, InitFresh
    <2>3. Phase \in {"wurq", "fault"}
      BY <2>2 DEF Fresh, Phase
    <2> QED
      BY <2>2, <2>3, ScanEnds DEF Fresh, Establish!Init
  <1>2. EInv /\ EInv' /\ [Next]_vars => [Establish!Next]_(Establish!vars)
    <2>1. SUFFICES ASSUME EInv, EInv', [Next]_vars
                   PROVE  [Establish!Next]_(Establish!vars)
      OBVIOUS
    <2>2. CASE UNCHANGED vars
      BY <2>2 DEF vars, Phase, Establish!vars
    <2>3. CASE Next
      <3>1. PortSteps
        BY <2>1, <2>3, NextSteps
      <3>2. CASE Rests(port, port') \/ Elapses(port, port')
        <4>1. Phase' = Phase
          BY <3>2 DEF Rests, Elapses, Phase
        <4> QED
          BY <3>2, <4>1
          DEF Rests, Elapses, Silent, Establish!Next, Establish!Quiet
      <3>3. CASE \E c \in Choices : Moves(port, port', c)
        BY <2>1, <3>3, MovesImplement
      <3>4. CASE \E c \in Choices : Fresh(port', c) /\ Restart(c)
        <4>1. PICK c \in Choices : Fresh(port', c) /\ Restart(c)
          BY <3>4
        <4>2. CASE port'.state = "ERROR"
          <5>1. Phase' = "fault"
            BY <4>2 DEF Phase
          <5>2. WakeRetryLimit \in 1..255
            BY LimitAssumption
          <5> QED
            BY <4>1, <5>1, <5>2
            DEF Fresh, LastRate, Establish!Next, Establish!Fault
        <4>3. CASE port'.state = "STARTUP" /\ port'.step = "WAKE"
          <5>1. Phase' = "wurq" /\ "restart" \in AppCalls
            BY <4>1, <4>3 DEF Phase, Restart
          <5> QED
            BY <4>1, <5>1, ScanEnds
            DEF Fresh, Establish!Next, Establish!Restart
        <4> QED
          BY <4>1, <4>2, <4>3 DEF Fresh
      <3> QED
        BY <3>1, <3>2, <3>3, <3>4 DEF PortSteps
    <2> QED
      BY <2>1, <2>2, <2>3
  <1> QED
    BY <1>1, <1>2, SpecEInv, PTL DEF Spec, EstablishImplemented, Establish!Spec

-----------------------------------------------------------------------------
(* The observer.                                                           *)

\* The wake-ups observed are those of the attempts the port has counted, and
\* the one it is still trying.
WakesCounted ==
    /\ wakes \in Nat
    /\ port.state # "STARTUP" \/ port.step = "INACTIVE" => wakes = 0
    /\ port.state = "STARTUP" =>
          wakes <= port.wake_attempts + (IF port.step = "WAKE" THEN 0 ELSE 1)

\* The time observed and the time still to wait make up the delay of the next
\* test message.
TestGated ==
    /\ quiet \in Nat
    /\ port.state = "STARTUP" /\ port.step = "SEND_TYPE0"
          => quiet + port.send_gate
                >= TDmt + (IF port.baudrate_index = 0 THEN TRen ELSE 0)

\* What the observer sees of a step.
Observed ==
    \/ /\ Observe
       /\ \/ Rests(port, port')
          \/ Elapses(port, port') /\ Elapse
          \/ \E c \in Choices : Moves(port, port', c)
    \/ /\ \E c \in Choices : Fresh(port', c)
       /\ quiet' = 0 /\ wakes' = 0

\* The observer only watches.
LEMMA ObserverWatches ==
    /\ HInit => Init
    /\ [HNext]_hvars => [Next]_vars
    /\ EInv /\ HNext => Observed
  <1>1. HInit => Init
    BY DEF HInit
  <1>2. [HNext]_hvars => [Next]_vars
    BY DEF HNext, hvars, vars, Next
  <1>3. ASSUME EInv, HNext
        PROVE  Observed
    <2>1. CASE Next /\ Observe /\ ~(\E c \in Choices : Restart(c))
      BY <1>3, <2>1, NextSteps DEF PortSteps, Observed
    <2>2. CASE (\E c \in Choices : Restart(c)) /\ quiet' = 0 /\ wakes' = 0
      BY <1>3, <2>2, RestartFresh DEF EInv, Inv, Observed
    <2> QED
      BY <1>3, <2>1, <2>2 DEF HNext
  <1> QED
    BY <1>1, <1>2, <1>3

\* The port under observation is the port of the specification.
LEMMA HSpecEInv == HSpec => []EInv
BY ObserverWatches, EInvHolds, PTL DEF HSpec

\* A move of the port keeps the count of the wake-ups.
LEMMA MovesCounted ==
    ASSUME WakeRetryLimit < 255, EInv, EInv', WakesCounted, NEW c,
           Moves(port, port', c), Observe
    PROVE  WakesCounted'
  <1>1. /\ port.wake_attempts \in 0..255 /\ port'.wake_attempts \in 0..255
        /\ WakeRetryLimit \in 1..255 /\ wakes \in Nat
    BY FieldTypes, LimitAssumption DEF EInv, Inv, WakesCounted
  <1>2. wakes' = IF port'.tx = "wake" THEN Upto(wakes, WakeRetryLimit + 2)
                 ELSE IF port'.state # "STARTUP" \/ port'.step = "INACTIVE"
                 THEN 0 ELSE wakes
    BY Zenon DEF Observe
  <1>3. /\ Upto(wakes, WakeRetryLimit + 2) \in Nat
        /\ Upto(wakes, WakeRetryLimit + 2) <= wakes + 1
    BY <1>1 DEF Upto
  <1>4. CASE Rests(port, port')
    BY <1>1, <1>2, <1>4 DEF Rests, Silent, WakesCounted
  <1>5. CASE Talks(port, port') \/ Answers(port, port') \/ Fails(port, port', c)
    BY <1>1, <1>2, <1>5 DEF Talks, Answers, Fails, Com, Silent, WakesCounted
  <1>6. CASE Loses(port, port')
    BY <1>1, <1>2, <1>6 DEF Loses, Com, Silent, WakesCounted
  <1>7. CASE Wakes(port, port')
    BY <1>1, <1>2, <1>3, <1>7 DEF Wakes, WakingSteps, WakesCounted
  <1>8. CASE Tests(port, port')
    BY <1>1, <1>2, <1>8 DEF Tests, WakesCounted
  <1>9. CASE Slows(port, port')
    BY <1>1, <1>2, <1>9 DEF Slows, Failing, Silent, WakesCounted
  <1>10. CASE Retries(port, port')
    <2>1. /\ port.state = "STARTUP" /\ port.step # "INACTIVE"
          /\ port'.state = "STARTUP" /\ port'.step = "WAKE"
          /\ port'.tx # "wake"
          /\ port'.wake_attempts = (port.wake_attempts + 1) % 256
      BY <1>10 DEF Retries, Failing, Silent
    <2>2. port.wake_attempts <= WakeRetryLimit
      BY <2>1 DEF EInv, Ready
    <2>3. port'.wake_attempts = port.wake_attempts + 1
      BY <1>1, <2>1, <2>2
    <2> QED
      BY <1>1, <1>2, <2>1, <2>3 DEF WakesCounted
  <1>11. CASE Pauses(port, port')
    BY <1>1, <1>2, <1>11 DEF Pauses, Silent, WakesCounted
  <1> QED
    BY <1>4, <1>5, <1>6, <1>7, <1>8, <1>9, <1>10, <1>11 DEF Moves

\* One wake-up sequence makes at most n_WU + 1 wake-up requests, on a timed and
\* on an untimed port, whatever the ticks carry and wherever COMLOST, a restart
\* or a failing callback cut the sequence short; n_WU = 255 is excluded, where
\* the uint8_t counter wraps (establish_attempt_failed).
THEOREM WakesWithinBudget ==
    ASSUME WakeRetryLimit < 255
    PROVE  HSpec => []WakeBudget
  <1>1. HInit => WakesCounted
    BY InitFresh, LimitAssumption DEF HInit, WakesCounted, Fresh
  <1>2. EInv /\ EInv' /\ WakesCounted /\ [HNext]_hvars => WakesCounted'
    <2>1. SUFFICES ASSUME EInv, EInv', WakesCounted, [HNext]_hvars
                   PROVE  WakesCounted'
      OBVIOUS
    <2>2. CASE UNCHANGED hvars
      BY <2>1, <2>2 DEF hvars, vars, WakesCounted
    <2>3. CASE HNext
      <3>1. Observed
        BY <2>1, <2>3, ObserverWatches
      <3>2. CASE (\E c \in Choices : Fresh(port', c)) /\ wakes' = 0
        BY <3>2 DEF Fresh, WakesCounted
      <3>3. CASE Observe /\ Rests(port, port')
        <4>1. Moves(port, port', [fail |-> "none"])
          BY <3>3 DEF Moves
        <4> QED
          BY <2>1, <3>3, <4>1, MovesCounted
      <3>4. CASE Observe /\ Elapses(port, port')
        <4>1. wakes' = IF port'.state # "STARTUP" \/ port'.step = "INACTIVE"
                       THEN 0 ELSE wakes
          BY <3>4 DEF Observe, Elapses
        <4> QED
          BY <2>1, <3>4, <4>1 DEF Elapses, WakesCounted
      <3>5. CASE Observe /\ \E c \in Choices : Moves(port, port', c)
        BY <2>1, <3>5, MovesCounted
      <3> QED
        BY <3>1, <3>2, <3>3, <3>4, <3>5 DEF Observed
    <2> QED
      BY <2>1, <2>2, <2>3
  <1>3. EInv /\ WakesCounted => WakeBudget
    <2>1. SUFFICES ASSUME EInv, WakesCounted PROVE WakeBudget
      OBVIOUS
    <2>2. port.wake_attempts \in 0..255 /\ WakeRetryLimit \in 1..255
      BY <2>1, FieldTypes, LimitAssumption DEF EInv, Inv
    <2> QED
      BY <2>1, <2>2 DEF EInv, Ready, WakesCounted, WakeBudget
  <1> QED
    BY <1>1, <1>2, <1>3, HSpecEInv, PTL DEF HSpec

\* A move of the timed port keeps the delay of the next test message.
LEMMA MovesGated ==
    ASSUME Timed, EInv, EInv', TestGated, NEW c, Moves(port, port', c), Observe
    PROVE  TestGated'
  <1>1. /\ port.baudrate_index \in 0..2 /\ port'.baudrate_index \in 0..2
        /\ port.send_gate \in Nat /\ port'.send_gate \in Nat
        /\ quiet \in Nat /\ TDmt \in Nat /\ TRen \in Nat /\ HoldOff \in Nat
    BY FieldTypes, TimesAssumption DEF EInv, Inv, TestGated, HoldOff
  <1>2. quiet' = IF Moved THEN 0
                 ELSE IF Elapse THEN Upto(quiet, HoldOff) ELSE quiet
    BY Zenon DEF Observe
  <1>3. Upto(quiet, HoldOff) \in Nat /\ Upto(quiet, HoldOff) >= quiet
    BY <1>1 DEF Upto
  <1>4. quiet' \in Nat /\ (~Moved => quiet' >= quiet) /\ (Moved => quiet' = 0)
    BY <1>1, <1>2, <1>3
  <1>5. CASE Rests(port, port')
    <2>1. ~Moved
      BY <1>5 DEF Rests, Moved
    <2> QED
      BY <1>1, <1>4, <1>5, <2>1 DEF Rests, TestGated
  <1>6. CASE Wakes(port, port')
    <2>1. Moved
      BY <1>6 DEF Wakes, WakingSteps, Moved
    <2> QED
      BY <1>1, <1>4, <1>6, <2>1 DEF Wakes, WakeDelay, TestGated
  <1>7. CASE Slows(port, port')
    <2>1. Moved
      BY <1>1, <1>7 DEF Slows, Moved
    <2> QED
      BY <1>1, <1>4, <1>7, <2>1 DEF Slows, TestGated
  <1>8. CASE \/ Talks(port, port') \/ Answers(port, port')
             \/ Loses(port, port') \/ Fails(port, port', c)
             \/ Tests(port, port') \/ Retries(port, port')
             \/ Pauses(port, port')
    BY <1>4, <1>8
    DEF Talks, Answers, Loses, Fails, Tests, Retries, Pauses, Com, TestGated
  <1> QED
    BY <1>5, <1>6, <1>7, <1>8 DEF Moves

\* Every test message of a timed port keeps T_REN and T_DMT from the wake-up,
\* or T_DMT from the test message at the rate before: no tick, early or late,
\* and no event between gets past the send gate (process_at, arm_send_gate).
THEOREM TestsHeldOff ==
    ASSUME Timed
    PROVE  HSpec => TestHoldOff
  <1>1. HInit => TestGated
    BY InitFresh DEF HInit, TestGated, Fresh
  <1>2. EInv /\ EInv' /\ TestGated /\ [HNext]_hvars => TestGated'
    <2>1. SUFFICES ASSUME EInv, EInv', TestGated, [HNext]_hvars
                   PROVE  TestGated'
      OBVIOUS
    <2>2. CASE UNCHANGED hvars
      BY <2>1, <2>2 DEF hvars, vars, TestGated
    <2>3. CASE HNext
      <3>1. Observed
        BY <2>1, <2>3, ObserverWatches
      <3>2. CASE (\E c \in Choices : Fresh(port', c)) /\ quiet' = 0
        BY <3>2 DEF Fresh, TestGated
      <3>3. CASE Observe /\ Rests(port, port')
        <4>1. Moves(port, port', [fail |-> "none"])
          BY <3>3 DEF Moves
        <4> QED
          BY <2>1, <3>3, <4>1, MovesGated
      <3>4. CASE Observe /\ Elapses(port, port') /\ Elapse
        <4>1. quiet' = Upto(quiet, HoldOff)
          BY <3>4 DEF Observe, Elapses, Moved
        <4>2. /\ quiet \in Nat /\ port.send_gate \in Nat
              /\ {TDmt, TRen, TDwu, TSd} \subseteq Nat
          BY <2>1, FieldTypes, TimesAssumption DEF EInv, Inv, TestGated
        <4>3. port'.send_gate = Less(port.send_gate)
          BY <3>4 DEF Elapses
        <4>4. \/ quiet' = quiet + 1
              \/ quiet' = quiet /\ quiet >= TDwu + TSd + TRen + TDmt
          BY <4>1, <4>2 DEF Upto, HoldOff
        <4>5. /\ port'.send_gate \in Nat
              /\ port'.send_gate >= port.send_gate - 1
          BY <4>2, <4>3 DEF Less
        <4>6. quiet' \in Nat
          BY <4>2, <4>4
        <4> QED
          BY <2>1, <3>4, <4>2, <4>4, <4>5, <4>6 DEF Elapses, TestGated
      <3>5. CASE Observe /\ \E c \in Choices : Moves(port, port', c)
        BY <2>1, <3>5, MovesGated
      <3> QED
        BY <3>1, <3>2, <3>3, <3>4, <3>5 DEF Observed
    <2> QED
      BY <2>1, <2>2, <2>3
  <1>3. EInv /\ TestGated /\ [HNext]_hvars
          => [port'.tx = "test"
                => quiet >= TDmt + (IF port.baudrate_index = 0 THEN TRen
                                    ELSE 0)]_hvars
    <2>1. SUFFICES ASSUME EInv, TestGated, HNext, port'.tx = "test"
                   PROVE  quiet >= TDmt + (IF port.baudrate_index = 0
                                           THEN TRen ELSE 0)
      OBVIOUS
    <2>2. Observed
      BY <2>1, ObserverWatches
    <2>3. Tests(port, port')
      BY <2>1, <2>2
      DEF Observed, Moves, Rests, Elapses, Fresh, Talks, Answers, Loses, Fails,
          Wakes, Slows, Retries, Pauses, Silent
    <2>4. quiet \in Nat /\ port.send_gate = 0
      BY <2>1, <2>3 DEF TestGated, Tests
    <2> QED
      BY <2>1, <2>3, <2>4 DEF TestGated, Tests
  <1> QED
    BY <1>1, <1>2, <1>3, HSpecEInv, PTL DEF HSpec, TestHoldOff


=============================================================================
