----------------------------- MODULE PortClock -----------------------------
(***************************************************************************)
(* A port on the 32-bit clock (src/master_port.c, src/master_sio.c): the    *)
(* tick engine with its absolute time stamps, and the port modes.           *)
(*                                                                          *)
(* A port record keeps true times.  The code has only their low bits, and   *)
(* sees them through Stamp and Since; where those disagree with true time   *)
(* is what this module is for.  Frames are reduced to whether a reply came, *)
(* and the rate scan and the acyclic services are left to MasterPort.       *)
(***************************************************************************)
EXTENDS Naturals

CONSTANTS
    ClockRange,       \* the clock counts modulo this (2^32)
    MinCycle,         \* config.min_cycle_time
    ResponseTimeout,  \* of a cycle
    TestTimeout,      \* of the test message of the startup
    TReady,           \* T_REN + T_DMT: from the wake-up to the test message
    TDwu, TSd,        \* between wake-ups, and between sequences of them
    WakeRetryLimit, RxRetryLimit

ASSUME ClockAssumption ==
    /\ {ClockRange, MinCycle, ResponseTimeout, TestTimeout, TReady, TDwu, TSd}
         \subseteq Nat \ {0}
    /\ {WakeRetryLimit, RxRetryLimit} \subseteq Nat
    /\ \A t \in {MinCycle, ResponseTimeout, TestTimeout, TReady, TDwu, TSd} :
          t < ClockRange

Stamp(t) == t % ClockRange                         \* a uint32_t time
Since(t, now) == (now - t) % ClockRange            \* uint32_t subtraction
Lap(t) == t \div ClockRange

PortModes == {"IOLINK", "DI", "DQ", "DEACTIVATED"}

Ports == [
    mode : PortModes,                   \* config.port_mode
    state : {"INACTIVE", "STARTUP", "PREOPERATE", "OPERATE", "ERROR"},
    step : {"WAKE", "SEND_TYPE0", "AWAIT_RESPONSE", "AWAIT_OPERATE_ACK",
            "INACTIVE"},
    wake_attempts : 0..WakeRetryLimit,
    rx_retry_count : 0..RxRetryLimit,
    awaiting_response : BOOLEAN, response_deadline : Nat,
    send_ready_valid : BOOLEAN, send_ready_at : Nat,
    cycle_timer_valid : BOOLEAN, last_cycle_start : Nat,
    \* of this call: the frame sent and the jitter recorded
    tx : {"none", "wake", "test", "operate", "cyclic"}, jitter : Nat,
    phy_mode : {"INACTIVE", "SIO", "SDCI"}]

\* What the PHY and the wire do during a call: nothing comes in, a good or a
\* garbled reply does, receiving fails, the flush of the receiver fails, another
\* PHY operation fails.
Outcomes == {"quiet", "reply", "garbled", "recv", "flush", "phy"}

Error(p) == [p EXCEPT !.state = "ERROR"]
SetMode(p, mode, c) == IF c = "phy" THEN Error(p) ELSE [p EXCEPT !.phy_mode = mode]
Failed(p) == p.state = "ERROR"

-----------------------------------------------------------------------------
(* The send gate and the establishing of communication.                    *)

ArmSendGate(p, now, delay, timed) ==
    IF timed THEN [p EXCEPT !.send_ready_at = now + delay, !.send_ready_valid = TRUE]
    ELSE p

Held(p, now) == p.send_ready_valid /\ Stamp(now) < Stamp(p.send_ready_at)

\* fault: the wake-up is put off, but the port stays where it is.
RestartEstablishStays(p, now, timed) ==
    ArmSendGate([p EXCEPT !.rx_retry_count = 0, !.awaiting_response = FALSE],
                now, TDwu, timed)

RestartEstablish(p, now, timed) ==
    ArmSendGate([p EXCEPT !.state = "STARTUP", !.step = "WAKE",
                          !.wake_attempts = 0, !.rx_retry_count = 0,
                          !.awaiting_response = FALSE], now, TDwu, timed)

EstablishAttemptFailed(p, now, timed, c) ==
    LET q == [p EXCEPT !.awaiting_response = FALSE]
        out == SetMode([q EXCEPT !.wake_attempts = 0], "INACTIVE", c)
    IN  IF p.wake_attempts + 1 <= WakeRetryLimit
        THEN ArmSendGate([q EXCEPT !.wake_attempts = @ + 1, !.step = "WAKE"],
                         now, TDwu, timed)
        ELSE IF Failed(out) THEN out
        ELSE ArmSendGate([out EXCEPT !.step = "INACTIVE"], now, TSd, timed)

\* fault: one retry too many.
MoreRetriesExtra(p) == p.rx_retry_count <= RxRetryLimit

MoreRetries(p) == p.rx_retry_count < RxRetryLimit

OnTimeoutAt(p, now, timed, c) ==
    CASE c = "flush" -> Error(p)
      [] c # "flush" /\ p.state = "OPERATE" ->
           IF MoreRetries(p)
           THEN [p EXCEPT !.rx_retry_count = @ + 1]
           ELSE RestartEstablish(p, now, timed)
      [] c # "flush" /\ p.state = "STARTUP" /\ p.step # "INACTIVE" ->
           EstablishAttemptFailed(p, now, timed, c)
      [] OTHER -> p

-----------------------------------------------------------------------------
(* Receiving.                                                              *)

Polled(p) ==
    \/ p.state = "STARTUP" /\ p.step = "AWAIT_RESPONSE"
    \/ p.state \in {"PREOPERATE", "OPERATE"}

\* A good reply; a garbled one in STARTUP is none, and later spends a retry.
OnReply(p) ==
    LET q == [p EXCEPT !.rx_retry_count = 0, !.awaiting_response = FALSE]
    IN  CASE p.state = "STARTUP" ->
               [q EXCEPT !.wake_attempts = 0, !.state = "PREOPERATE"]
          [] p.state = "PREOPERATE" /\ p.step = "AWAIT_OPERATE_ACK" ->
               [q EXCEPT !.state = "OPERATE"]
          [] OTHER -> q

OnGarbled(p) ==
    CASE p.state = "STARTUP" -> p
      [] p.state # "STARTUP" /\ MoreRetries(p) ->
           [p EXCEPT !.rx_retry_count = @ + 1]
      [] OTHER -> RestartEstablish(p, 0, FALSE)

PollRx(p, c) ==
    IF ~Polled(p) THEN p
    ELSE CASE c = "reply" -> OnReply(p)
           [] c = "garbled" -> OnGarbled(p)
           [] c = "recv" -> Error(p)
           [] OTHER -> p

-----------------------------------------------------------------------------
(* Sending.                                                                *)

Send(p, frame, c) == IF c = "phy" THEN Error(p) ELSE [p EXCEPT !.tx = frame]

StartupWake(p, now, timed, c) ==
    LET up == IF p.step = "INACTIVE" THEN SetMode(p, "SDCI", c) ELSE p
        q == Send([up EXCEPT !.step = "WAKE"], "wake", c)
    IN  IF Failed(up) THEN up
        ELSE IF Failed(q) THEN q
        ELSE ArmSendGate([q EXCEPT !.step = "SEND_TYPE0"], now, TReady, timed)

StartupTest(p, now, timed, c) ==
    LET q == Send(p, "test", c)
        sent == [q EXCEPT !.step = "AWAIT_RESPONSE"]
    IN  IF Failed(q) THEN q
        ELSE IF timed
        THEN [sent EXCEPT !.response_deadline = now + TestTimeout,
                          !.awaiting_response = TRUE]
        ELSE sent

Preoperate(p, c) ==
    LET q == Send(p, "operate", c)
    IN  IF Failed(q) THEN q ELSE [q EXCEPT !.step = "AWAIT_OPERATE_ACK"]

ProcessAt(p, now, timed, c) ==
    IF timed /\ Held(p, now) THEN p
    ELSE CASE p.state = "STARTUP" /\ p.step \in {"INACTIVE", "WAKE"} ->
                StartupWake(p, now, timed, c)
           [] p.state = "STARTUP" /\ p.step = "SEND_TYPE0" ->
                StartupTest(p, now, timed, c)
           [] p.state = "PREOPERATE" -> Preoperate(p, c)
           [] p.state = "OPERATE" -> Send(p, "cyclic", c)
           [] OTHER -> p

-----------------------------------------------------------------------------
(* The tick engine.                                                        *)

Paced(p) == p.state = "OPERATE" /\ p.cycle_timer_valid

\* fault: the end of the cycle is compared as an absolute time.
CycleDueAtAbsolute(p, now) ==
    Paced(p) => Stamp(now) >= Stamp(p.last_cycle_start + MinCycle)

CycleDueAt(p, now) == Paced(p) => Since(p.last_cycle_start, now) >= MinCycle

CycleJitterAt(p, now) ==
    IF Paced(p) /\ Since(p.last_cycle_start, now) > MinCycle
    THEN Since(p.last_cycle_start, now) - MinCycle ELSE 0

\* fault: the deadline of the last frame is left in place.
CycleStartedOldDeadline(p, jitter, now) ==
    [p EXCEPT !.jitter = jitter, !.last_cycle_start = now,
              !.cycle_timer_valid = TRUE, !.awaiting_response = TRUE]

CycleStarted(p, jitter, now) ==
    [p EXCEPT !.jitter = jitter, !.last_cycle_start = now,
              !.cycle_timer_valid = TRUE, !.awaiting_response = TRUE,
              !.response_deadline = now + ResponseTimeout]

CycleTick(p, now, timed, c) ==
    LET q == ProcessAt(p, now, timed, c)
    IN  IF p.awaiting_response \/ (timed /\ ~CycleDueAt(p, now)) THEN p
        ELSE IF timed /\ q.tx = "cyclic"
        THEN CycleStarted(q, CycleJitterAt(p, now), now) ELSE q

TimeoutTick(p, now, timed, c) ==
    IF timed /\ ~p.awaiting_response THEN p
    ELSE OnTimeoutAt([p EXCEPT !.awaiting_response = FALSE], now, timed, c)

TickCommon(p, event, timed, now, c) ==
    LET r == PollRx([p EXCEPT !.tx = "none", !.jitter = 0], c)
    IN  CASE Polled(p) /\ c \in {"garbled", "recv"} -> r     \* rx_ret < 0
          [] event = "RESPONSE_TIMEOUT" -> TimeoutTick(r, now, timed, c)
          [] event = "CYCLE_DUE" -> CycleTick(r, now, timed, c)
          [] OTHER -> r

ResponseDueAt(p, now) ==
    p.awaiting_response /\ Stamp(now) >= Stamp(p.response_deadline)

\* iolink_master_get_next_tick_time.
NextTickTime(p, now) ==
    LET due == CASE p.awaiting_response -> Stamp(p.response_deadline)
                 [] ~p.awaiting_response /\ p.state = "STARTUP" /\ Held(p, now) ->
                      Stamp(p.send_ready_at)
                 [] ~p.awaiting_response /\ Paced(p) ->
                      Stamp(p.last_cycle_start + MinCycle)
                 [] OTHER -> Stamp(now)
    IN  IF p.state \in {"INACTIVE", "ERROR"} \/ Stamp(now) >= due
        THEN Stamp(now) ELSE due

-----------------------------------------------------------------------------
(* Initialisation in the four port modes.                                  *)

\* The storage of a port before its first initialisation: zeros.
BlankPort ==
    [mode |-> "IOLINK", state |-> "INACTIVE", step |-> "WAKE",
     wake_attempts |-> 0, rx_retry_count |-> 0,
     awaiting_response |-> FALSE, response_deadline |-> 0,
     send_ready_valid |-> FALSE, send_ready_at |-> 0,
     cycle_timer_valid |-> FALSE, last_cycle_start |-> 0,
     tx |-> "none", jitter |-> 0, phy_mode |-> "INACTIVE"]

\* iolink_master_init: c is "ok", a configuration that is refused before the
\* storage is touched, a failure of phy->init or of a later PHY operation.
InitOutcomes == {"ok", "refused", "init", "phy"}

PhyModeFor(mode) ==
    CASE mode = "IOLINK" -> "SDCI"
      [] mode \in {"DI", "DQ"} -> "SIO"
      [] mode = "DEACTIVATED" -> "INACTIVE"

PortInit(p, mode, c) ==
    LET new == [BlankPort EXCEPT
                  !.mode = mode, !.phy_mode = p.phy_mode,
                  !.state = IF mode = "IOLINK" THEN "STARTUP" ELSE "INACTIVE"]
    IN  CASE c = "refused" -> p
          [] c = "init" -> Error(new)
          [] OTHER -> SetMode(new, PhyModeFor(mode), c)

=============================================================================
