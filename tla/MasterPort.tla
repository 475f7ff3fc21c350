----------------------------- MODULE MasterPort -----------------------------
(***************************************************************************)
(* One IO-Link port of the master (src/master_port.c): the wake-up and     *)
(* rate-scan procedure, PREOPERATE, the cyclic exchange of OPERATE, message *)
(* retries and the return to STARTUP when communication is lost, as driven  *)
(* by the tick entry points.                                                *)
(*                                                                          *)
(* Every C function is an operator from the port record to the port record; *)
(* a public entry point is an action that applies the whole chain of calls. *)
(* The second argument, c, collects what the code cannot choose: which PHY  *)
(* callback fails during this call, and what the acyclic service (ISDU or   *)
(* event memory) makes of the octet it gets next.                           *)
(*                                                                          *)
(* Timestamps are kept as the time left until they are due, so that the     *)
(* comparisons of the code with the current time become comparisons with 0. *)
(*                                                                          *)
(* An operator that is followed by "fault:" in its comment is a faulty      *)
(* variant of the operator after it, the slip a property is there to catch; *)
(* no specification uses it.                                                *)
(***************************************************************************)
EXTENDS Integers, Sequences

CONSTANTS
    Timed,            \* TRUE: iolink_master_tick_at, FALSE: iolink_master_tick
    AutoBaudrate,     \* config.auto_baudrate
    ConfigRate,       \* config.baudrate, as an index of the scan order
    Type0,            \* m_seq_type TYPE_0 without PD; otherwise OD = PD-in = 1
    Validate,         \* startup_validation_required
    WakeRetryLimit,   \* n_WU
    TDmt, TRen,       \* delays before a test message
    TDwu, TSd,        \* delays before a wake-up retry, a wake-up sequence
    TestTimeout,      \* answer window of a test message
    ResponseTimeout,  \* answer window of a cyclic exchange
    MinCycle,         \* config.min_cycle_time
    Faults,           \* PHY callbacks that may fail
    AppCalls,         \* what the application calls: restart, isdu, event
    ServiceStates,    \* port states in which it starts a service
    DevIds,           \* the devices
    Pluggable,        \* devices, or "absent", that may be plugged at run time
    ExpectedId,       \* the device the configuration asks for
    DevRate,          \* the rate of each device
    CksOctets,        \* CKS octets the device sends (flags)
    Type0WriteOd,     \* the device answers an acyclic TYPE_0 write with OD, CKS
    MaxOwed,          \* requests whose replies may be on their way at a time
    Noise             \* what the line does to a reply: garbled, truncated

PhyCalls == {"init", "set_mode", "set_baudrate", "flush_rx", "wake_up",
             "send", "recv_byte"}

ASSUME FlagsAssumption ==
    {Timed, AutoBaudrate, Type0, Validate, Type0WriteOd} \subseteq BOOLEAN

ASSUME TimesAssumption ==
    {TDmt, TRen, TDwu, TSd, TestTimeout, ResponseTimeout, MinCycle} \subseteq Nat

ASSUME LimitAssumption == WakeRetryLimit \in 1..255 /\ MaxOwed \in {1, 2}

ASSUME EnvironmentAssumption ==
    /\ ConfigRate \in 0..2
    /\ Faults \subseteq PhyCalls
    /\ AppCalls \subseteq {"restart", "isdu", "event"}
    /\ ServiceStates \subseteq {"PREOPERATE", "OPERATE"}
    /\ Pluggable \subseteq DevIds \cup {"absent"}
    /\ Noise \subseteq {"garbled", "truncated"}
    /\ ExpectedId \in DevIds
    /\ DevRate \in [DevIds -> 0..2]
    /\ CksOctets \subseteq {"cks", "cks_event", "cks_invalid"}
    /\ DevIds \cap {"od", "pd", "cks", "cks_event", "cks_invalid", "bad",
                    "none", "error", "absent", "idle"} = {}

RxRetryLimit == 2   \* IOLINK_MASTER_RX_RETRY_LIMIT
LastRate == 2       \* COM3 = 0, COM2 = 1, COM1 = 2
FifoDepth == 6      \* bound: two replies of the longest shape

VARIABLES
    port,     \* the port state, and the PHY driver behind it
    dev,      \* the connected device, or "absent"
    awake     \* the device has taken the wake-up request

vars == <<port, dev, awake>>

-----------------------------------------------------------------------------
(* Octets and frames.  An OD octet is represented by the device it came     *)
(* from, or "idle" when it carries nothing (0x00).  A frame on the wire is  *)
(* represented by the reply it calls for: the order of its octets, "od"     *)
(* standing for the octet the device fills in.                              *)

Cks == {"cks", "cks_event", "cks_invalid"}
OdOctets == DevIds \cup {"idle"}
Octets == OdOctets \cup Cks \cup {"pd", "bad"}
Shapes == {<<"cks">>, <<"od", "cks">>, <<"idle", "cks">>, <<"pd", "cks">>,
           <<"od", "pd", "cks">>}
Kinds == {"none", "wake", "test", "operate", "cyclic", "isdu", "event"}

States == {"INACTIVE", "STARTUP", "PREOPERATE", "OPERATE", "ERROR"}
Steps == {"WAKE", "SEND_TYPE0", "AWAIT_RESPONSE", "AWAIT_OPERATE_ACK",
          "INACTIVE"}
Modes == {"INACTIVE", "SDCI"}       \* of the PHY; SIO modes: see the README

Ports == [
    \* iolink_master_port_state_t
    state : States,
    step : Steps,
    baudrate_index : 0..LastRate,
    wake_attempts : 0..255,             \* uint8_t
    rx_retry_count : 0..RxRetryLimit,
    awaiting_response : BOOLEAN,
    deadline : Nat,                     \* response_deadline - now
    send_gate : Nat,                    \* send_ready_at - now
    cycle_timer_valid : BOOLEAN,
    cycle_left : Nat,                   \* last_cycle_start + min_cycle - now
    rx_od_expected : BOOLEAN,
    rx : Seq(Octets),
    device_info : DevIds \cup {"none"},
    pd_valid : BOOLEAN,
    event_pending : BOOLEAN,
    \* isdu and event, reduced to what the port sees of them
    isdu_op : {"none", "app", "info"},
    isdu_phase : {"none", "request", "wait", "done"},
    isdu_pending : {"none", "idle", "abort"},
    isdu_result : DevIds \cup {"none", "error"},
    event : {"none", "read", "read_ack", "write", "done"},
    event_od_expected : BOOLEAN,
    \* the PHY driver: mode, rate, receive FIFO, frame sent by the last call
    \* and the replies the device still owes, oldest first
    phy_mode : Modes,
    phy_rate : 0..LastRate,
    fifo : Seq(Octets),
    tx : Kinds,
    owed : Seq(Shapes)]

\* Only a port that runs acyclic services has a service outcome to choose.
Outcomes == IF Validate \/ AppCalls \cap {"isdu", "event"} # {}
            THEN {"more", "ok", "neg", "seg", "abort"} ELSE {"more"}

Choices == [fail : Faults \cup {"none"}, svc : Outcomes]

-----------------------------------------------------------------------------
(* PHY helpers.  Every caller of a checked PHY operation latches ERROR when *)
(* it fails, which is folded into the operator; Failed tells the caller.    *)

Failed(p) == p.state = "ERROR"
Error(p) == [p EXCEPT !.state = "ERROR"]

ScanRate(p) == IF AutoBaudrate THEN p.baudrate_index ELSE ConfigRate

SetMode(p, mode, c) ==
    IF c.fail = "set_mode" THEN Error(p) ELSE [p EXCEPT !.phy_mode = mode]

\* A request sent at another rate finds no answer any more.
SetBaudrate(p, c) ==
    IF c.fail = "set_baudrate" THEN Error(p)
    ELSE [p EXCEPT !.phy_rate = ScanRate(p),
                   !.owed = IF p.phy_rate = ScanRate(p) THEN @ ELSE <<>>]

FlushRx(p, c) ==
    [p EXCEPT !.rx = <<>>,
              !.fifo = IF c.fail = "flush_rx" THEN @ ELSE <<>>]

\* The reply a frame calls for (Figures A.5, A.9, A.10, A.13, A.14).
TypedReply(read) == IF read THEN <<"od", "pd", "cks">> ELSE <<"pd", "cks">>
Type0Reply(read) ==
    IF read THEN <<"od", "cks">>
    ELSE IF Type0WriteOd THEN <<"idle", "cks">> ELSE <<"cks">>

\* A request is owed a reply; beyond MaxOwed it supersedes the last one.
Owe(owed, reply) ==
    IF Len(owed) < MaxOwed THEN Append(owed, reply)
    ELSE [owed EXCEPT ![MaxOwed] = reply]

\* fault: the direction of the frame on the wire is not recorded.
SendFullNoDirection(p, kind, read, reply, c) ==
    IF c.fail = "send" THEN Error(p)
    ELSE [p EXCEPT !.rx_od_expected = TRUE, !.tx = kind, !.owed = Owe(@, reply)]

SendFull(p, kind, read, reply, c) ==
    IF c.fail = "send" THEN Error(p)
    ELSE [p EXCEPT !.rx_od_expected = read, !.tx = kind,
                   !.owed = Owe(@, reply)]

WakeUp(p, c) ==
    IF c.fail = "wake_up" THEN Error(p)
    ELSE [p EXCEPT !.tx = "wake", !.owed = <<>>]

ArmSendGate(p, delay, timed) ==
    IF timed THEN [p EXCEPT !.send_gate = delay] ELSE p

-----------------------------------------------------------------------------
(* Establishing communication, and losing it.                              *)

\* fault: the scan goes back to its first rate, the PHY does not.
ResetRateScanSilent(p, c) ==
    IF AutoBaudrate THEN [p EXCEPT !.baudrate_index = 0] ELSE p

ResetRateScan(p, c) ==
    IF AutoBaudrate /\ p.baudrate_index # 0
    THEN SetBaudrate([p EXCEPT !.baudrate_index = 0], c)
    ELSE p

\* fault: COMLOST latches ERROR.
RestartEstablishLatched(p, timed, c) == Error(p)

\* fault: the wake-up after COMLOST is not delayed.
RestartEstablishUngated(p, timed, c) ==
    ResetRateScan([p EXCEPT !.state = "STARTUP", !.step = "WAKE",
                            !.wake_attempts = 0, !.rx_retry_count = 0,
                            !.awaiting_response = FALSE], c)

RestartEstablish(p, timed, c) ==
    LET q == ResetRateScan([p EXCEPT !.state = "STARTUP", !.step = "WAKE",
                                     !.wake_attempts = 0,
                                     !.rx_retry_count = 0,
                                     !.awaiting_response = FALSE], c)
    IN  IF Failed(q) THEN q ELSE ArmSendGate(q, TDwu, timed)

\* fault: the scan runs past the last rate.
MoreRatesUnbounded(p) == AutoBaudrate

MoreRates(p) == AutoBaudrate /\ p.baudrate_index < LastRate

\* fault: one wake-up too many.
MoreWakeUpsExtra(p) == p.wake_attempts <= WakeRetryLimit + 1

\* fault: one wake-up too few.
MoreWakeUpsShort(p) == p.wake_attempts < WakeRetryLimit

MoreWakeUps(p) == p.wake_attempts <= WakeRetryLimit

\* fault: one message retry too many.
MoreRetriesExtra(p) == p.rx_retry_count <= RxRetryLimit

\* fault: one message retry too few.
MoreRetriesShort(p) == p.rx_retry_count + 1 < RxRetryLimit

MoreRetries(p) == p.rx_retry_count < RxRetryLimit

NextRate(p, c) ==
    LET q == SetBaudrate([p EXCEPT !.baudrate_index = @ + 1], c)
    IN  IF Failed(q) THEN q
        ELSE ArmSendGate([q EXCEPT !.step = "SEND_TYPE0"], TDmt, Timed)

GiveUpSequence(p, c) ==
    LET q == SetMode([p EXCEPT !.wake_attempts = 0], "INACTIVE", c)
    IN  IF Failed(q) THEN q
        ELSE ArmSendGate([q EXCEPT !.step = "INACTIVE"], TSd, Timed)

EstablishAttemptFailed(p, c) ==
    LET a == [p EXCEPT !.awaiting_response = FALSE]
        q == ResetRateScan([a EXCEPT !.wake_attempts = (@ + 1) % 256], c)
    IN  IF MoreRates(a) THEN NextRate(a, c)
        ELSE IF Failed(q) THEN q
        ELSE IF MoreWakeUps(q)
        THEN ArmSendGate([q EXCEPT !.step = "WAKE"], TDwu, Timed)
        ELSE GiveUpSequence(q, c)

OnTimeoutAt(p, c) ==
    LET q == FlushRx(p, c)
    IN  IF c.fail = "flush_rx" THEN Error(q)
        ELSE IF q.state = "OPERATE"
        THEN IF MoreRetries(q)
             THEN [q EXCEPT !.rx_retry_count = @ + 1]
             ELSE RestartEstablish(q, Timed, c)
        ELSE IF q.state = "STARTUP" /\ q.step # "INACTIVE"
        THEN EstablishAttemptFailed(q, c)
        ELSE q

-----------------------------------------------------------------------------
(* Receiving.                                                              *)

\* Acyclic services.  The octet either leaves the service wanting more, or
\* completes it: a positive response, a negative one, one that cannot be
\* segmented, or a perturbed one.
IsduOnOd(p, od, c) ==
    IF p.isdu_phase # "wait" \/ od = "idle" \/ c.svc = "more" THEN p
    ELSE [p EXCEPT !.isdu_phase = "done",
                   !.isdu_pending = CASE c.svc = "abort" -> "abort"
                                      [] c.svc = "seg" -> @
                                      [] OTHER -> "idle",
                   !.isdu_result = IF c.svc = "ok" THEN od ELSE "error"]

EventOnOd(p, c) ==
    IF c.svc = "more" THEN p
    ELSE [p EXCEPT !.event = IF @ = "read_ack" THEN "write" ELSE "done"]

EventActive(p) == p.event \in {"read", "read_ack", "write"}
EventReading(p) == p.event \in {"read", "read_ack"}

RouteOd(p, od, c) ==
    IF EventActive(p)
    THEN IF EventReading(p) /\ p.event_od_expected
         THEN EventOnOd([p EXCEPT !.event_od_expected = FALSE], c)
         ELSE p
    ELSE IsduOnOd(p, od, c)

\* A buffer passes the A.1.6 checksum iff it is exactly one intact reply.
Intact(shape, f) ==
    /\ Len(f) = Len(shape)
    /\ \A i \in 1..Len(f) :
          CASE shape[i] = "od" -> f[i] \in OdOctets
            [] shape[i] = "pd" -> f[i] = "pd"
            [] shape[i] = "cks" -> f[i] \in Cks

\* Bad checksum in PREOPERATE or OPERATE: retry, then COMLOST.
ChecksumError(p, c) ==
    IF MoreRetries(p)
    THEN [p EXCEPT !.rx_retry_count = @ + 1]
    ELSE RestartEstablish(p, FALSE, c)

ReplyTaken(p) == [p EXCEPT !.rx_retry_count = 0, !.awaiting_response = FALSE]

OnRxStartup(p) ==
    [ReplyTaken(p) EXCEPT !.wake_attempts = 0, !.state = "PREOPERATE"]

OnRxOperateAck(p, f) ==
    [ReplyTaken(p) EXCEPT !.event_pending = (f[1] = "cks_event"),
                          !.state = "OPERATE"]

OnRxTyped(p, f, c) ==
    LET cks == f[Len(f)]
        q == [ReplyTaken(p) EXCEPT !.event_pending = (cks = "cks_event"),
                                   !.pd_valid = @ \/ cks # "cks_invalid"]
    IN  IF p.rx_od_expected THEN RouteOd(q, f[1], c)
        ELSE [q EXCEPT !.event_od_expected = @ /\ ~EventReading(q)]

\* The reply the port is ready to decode in its present state.
ExpectedReply(p) ==
    IF p.state = "OPERATE" /\ ~Type0 THEN TypedReply(p.rx_od_expected)
    ELSE IF p.state = "PREOPERATE" /\ p.step = "AWAIT_OPERATE_ACK"
    THEN <<"cks">>
    ELSE <<"od", "cks">>

\* iolink_master_on_rx: the frame is decoded, or rejected with an error.

\* fault: the checksum of a reply is not verified.
AcceptsUnchecked(p, f) ==
    /\ p.state = "STARTUP" => p.step = "AWAIT_RESPONSE"
    /\ Len(f) = Len(ExpectedReply(p))

Accepts(p, f) ==
    /\ p.state = "STARTUP" => p.step = "AWAIT_RESPONSE"
    /\ Intact(ExpectedReply(p), f)

OnRx(p, f, c) ==
    IF Accepts(p, f)
    THEN IF p.state = "STARTUP" THEN OnRxStartup(p)
         ELSE IF p.state = "OPERATE" /\ ~Type0 THEN OnRxTyped(p, f, c)
         ELSE IF p.state = "PREOPERATE" /\ p.step = "AWAIT_OPERATE_ACK"
         THEN OnRxOperateAck(p, f)
         ELSE RouteOd(ReplyTaken(p), f[1], c)
    ELSE IF p.state = "STARTUP" \/ Len(f) # Len(ExpectedReply(p)) THEN p
    ELSE ChecksumError(p, c)

\* iolink_master_poll_rx: octets are collected until n octets, a number fixed
\* when the poll starts, are there; an error ends the poll and leaves the rest
\* in the FIFO.  FifoDepth octets and a started frame make at most three
\* frames and the start of another.
Polled(p) ==
    \/ p.state = "STARTUP" /\ p.step = "AWAIT_RESPONSE"
    \/ p.state \in {"PREOPERATE", "OPERATE"}

FrameEnd(p, n) == IF Len(p.rx) < n THEN n ELSE Len(p.rx) + 1

Consumed(p, k) ==
    [p EXCEPT !.rx = <<>>,
              !.fifo = SubSeq(p.rx \o p.fifo, k + 1, Len(p.rx \o p.fifo))]

PolledFrame(p, frame, c) ==
    [ok |-> Accepts(p, frame), p |-> OnRx(p, frame, c)]

Collect(p, k, c) ==
    IF Len(p.rx \o p.fifo) < k
    THEN [ok |-> TRUE, p |-> [p EXCEPT !.rx = @ \o p.fifo, !.fifo = <<>>]]
    ELSE PolledFrame(Consumed(p, k), SubSeq(p.rx \o p.fifo, 1, k), c)

PollFrame(r, n, c) ==
    IF ~r.ok \/ r.p.fifo = <<>> THEN r ELSE Collect(r.p, FrameEnd(r.p, n), c)

PollRx(p, c) ==
    LET n == Len(ExpectedReply(p))
        Poll(r) == PollFrame(r, n, c)
        r == Poll(Poll(Poll(Poll([ok |-> TRUE, p |-> p]))))
    IN  IF ~Polled(p) THEN [ok |-> TRUE, p |-> p]
        ELSE IF r.ok /\ c.fail = "recv_byte"
        THEN [ok |-> FALSE, p |-> [Error(r.p) EXCEPT !.rx = <<>>]]
        ELSE r

-----------------------------------------------------------------------------
(* Sending.                                                                *)

\* iolink_master_send_event: one M-sequence on the diagnosis channel, in the
\* frame format of the configured type whatever the state of the port.
SendEvent(p, c) ==
    LET read == EventReading(p)
        reply == IF Type0 THEN Type0Reply(read) ELSE TypedReply(read)
        q == SendFull(p, "event", read, reply, c)
    IN  IF read THEN [q EXCEPT !.event_od_expected = @ \/ ~Failed(q)]
        ELSE [q EXCEPT !.event = "done", !.event_od_expected = FALSE]

\* iolink_master_send_isdu: an ABORT or IDLE read concludes a service, a
\* request segment is a write, a response poll a read.  The transport
\* advances whether or not the send succeeds.
IsduSending(p) ==
    \/ p.isdu_pending # "none"
    \/ p.isdu_phase \in {"request", "wait"}

SendIsdu(p, c) ==
    LET read == p.isdu_pending # "none" \/ p.isdu_phase # "request"
        reply == IF p.state = "OPERATE" /\ ~Type0 THEN TypedReply(read)
                 ELSE Type0Reply(read)
        q == IF p.isdu_pending # "none" THEN [p EXCEPT !.isdu_pending = "none"]
             ELSE IF p.isdu_phase = "request" /\ c.svc # "more"
             THEN [p EXCEPT !.isdu_phase = "wait"]
             ELSE p
    IN  SendFull(q, "isdu", read, reply, c)

IsduStart(p, op) ==
    [p EXCEPT !.isdu_op = op, !.isdu_phase = "request",
              !.isdu_pending = "none", !.isdu_result = "none"]

\* iolink_master_isdu_finish_read / _write: only a pending ABORT survives.
IsduFinish(p) ==
    [p EXCEPT !.isdu_op = "none", !.isdu_phase = "none",
              !.isdu_pending = IF @ = "abort" THEN @ ELSE "none",
              !.isdu_result = "none"]

\* fault: the port enters OPERATE without consuming the acknowledgement.
SendOperateUnacked(p, c) ==
    LET q == SendFull(p, "operate", FALSE, <<"cks">>, c)
    IN  IF Failed(q) THEN q ELSE [q EXCEPT !.state = "OPERATE"]

SendOperate(p, c) ==
    LET q == SendFull(p, "operate", FALSE, <<"cks">>, c)
    IN  IF Failed(q) THEN q ELSE [q EXCEPT !.step = "AWAIT_OPERATE_ACK"]

\* iolink_master_read_device_info and iolink_master_validate_device_info, as
\* PREOPERATE calls them before it lets the device operate.
ReadDeviceInfo(p) ==
    IF p.isdu_op = "none" THEN IsduStart(p, "info")
    ELSE IF p.isdu_op # "info" THEN Error(p)
    ELSE IF p.isdu_phase # "done" THEN p
    ELSE IF p.isdu_result \in DevIds
    THEN [IsduFinish(p) EXCEPT !.device_info = p.isdu_result]
    ELSE Error(IsduFinish(p))

\* fault: any device passes the validation.
ValidIdentityAny(p) == p.device_info # "none"

ValidIdentity(p) == p.device_info = ExpectedId

Preoperate(p, c) ==
    LET q == IF Validate /\ p.device_info = "none" THEN ReadDeviceInfo(p) ELSE p
    IN  IF EventActive(p) THEN SendEvent(p, c)
        ELSE IF IsduSending(p) THEN SendIsdu(p, c)
        ELSE IF ~Validate THEN SendOperate(p, c)
        ELSE IF Failed(q) \/ q.device_info = "none" THEN q
        ELSE IF ~ValidIdentity(q) THEN Error(q)
        ELSE SendOperate(q, c)

Operate(p, c) ==
    IF EventActive(p) THEN SendEvent(p, c)
    ELSE IF IsduSending(p) THEN SendIsdu(p, c)
    ELSE SendFull(p, "cyclic", FALSE,
                  IF Type0 THEN <<"od", "cks">> ELSE TypedReply(FALSE), c)

\* fault: the first test message does not wait for T_REN.
WakeDelayNoTRen == TDmt

WakeDelay == TRen + TDmt

StartupWake(p, c) ==
    LET m == IF p.step = "INACTIVE" THEN SetMode(p, "SDCI", c) ELSE p
        q == WakeUp([m EXCEPT !.step = "WAKE"], c)
    IN  IF Failed(m) THEN m
        ELSE IF Failed(q) THEN q
        ELSE ArmSendGate([q EXCEPT !.step = "SEND_TYPE0"], WakeDelay, Timed)

\* fault: a silent device leaves the port waiting for ever.
ArmTestDeadlineNever(p) == p

ArmTestDeadline(p) ==
    IF Timed
    THEN [p EXCEPT !.deadline = TestTimeout, !.awaiting_response = TRUE]
    ELSE p

StartupTest(p, c) ==
    LET q == SendFull(p, "test", TRUE, <<"od", "cks">>, c)
    IN  IF Failed(q) THEN q
        ELSE ArmTestDeadline([q EXCEPT !.step = "AWAIT_RESPONSE"])

\* fault: the pause after a failed sequence never ends.
WakingStepsNoPause == {"WAKE"}

WakingSteps == {"INACTIVE", "WAKE"}

ProcessAt(p, c) ==
    IF Timed /\ p.send_gate > 0 THEN p
    ELSE CASE p.state = "STARTUP" /\ p.step \in WakingSteps ->
                  StartupWake(p, c)
           [] p.state = "STARTUP" /\ p.step = "SEND_TYPE0" -> StartupTest(p, c)
           [] p.state = "PREOPERATE" -> Preoperate(p, c)
           [] p.state = "OPERATE" -> Operate(p, c)
           [] OTHER -> p

-----------------------------------------------------------------------------
(* The tick engine.                                                        *)

CycleDue(p) ==
    \/ p.state # "OPERATE" \/ ~p.cycle_timer_valid
    \/ p.cycle_left = 0

\* fault: the response deadline of a cycle is not watched.
StartCycleTimerUnwatched(p) ==
    [p EXCEPT !.cycle_left = MinCycle, !.cycle_timer_valid = TRUE]

StartCycleTimer(p) ==
    [p EXCEPT !.cycle_left = MinCycle, !.cycle_timer_valid = TRUE,
              !.deadline = ResponseTimeout, !.awaiting_response = TRUE]

CycleTick(p, c) ==
    LET q == ProcessAt(p, c)
    IN  IF p.awaiting_response \/ (Timed /\ ~CycleDue(p)) THEN p
        ELSE IF Timed /\ q.tx = "cyclic" THEN StartCycleTimer(q)
        ELSE q

TimeoutTick(p, c) ==
    IF Timed /\ ~p.awaiting_response THEN p
    ELSE LET q == IF p.awaiting_response THEN FlushRx(p, c) ELSE p
         IN  OnTimeoutAt([q EXCEPT !.awaiting_response = FALSE], c)

\* fault: the timeout is handled before the received octets.
TickCommonTimeoutFirst(p, event, c) ==
    LET q == [p EXCEPT !.tx = "none"]
        r == PollRx(q, c)
    IN  IF event = "RESPONSE_TIMEOUT" THEN TimeoutTick(q, c)
        ELSE IF r.ok /\ event = "CYCLE_DUE" THEN CycleTick(r.p, c)
        ELSE r.p

TickCommon(p, event, c) ==
    LET r == PollRx([p EXCEPT !.tx = "none"], c)
    IN  IF ~r.ok THEN r.p
        ELSE CASE event = "CYCLE_DUE" -> CycleTick(r.p, c)
               [] event = "RESPONSE_TIMEOUT" -> TimeoutTick(r.p, c)
               [] OTHER -> r.p

\* iolink_master_init in IO-Link mode: the state is cleared, then the FIFO is
\* flushed, the rate and the mode are set; the first failure latches ERROR.
NewPort(phy) ==
    [state |-> "STARTUP", step |-> "WAKE", baudrate_index |-> 0,
     wake_attempts |-> 0, rx_retry_count |-> 0, awaiting_response |-> FALSE,
     deadline |-> 0, send_gate |-> 0, cycle_timer_valid |-> FALSE,
     cycle_left |-> 0, rx_od_expected |-> FALSE, rx |-> <<>>,
     device_info |-> "none", pd_valid |-> FALSE, event_pending |-> FALSE,
     isdu_op |-> "none", isdu_phase |-> "none", isdu_pending |-> "none",
     isdu_result |-> "none", event |-> "none", event_od_expected |-> FALSE,
     phy_mode |-> phy.phy_mode, phy_rate |-> phy.phy_rate,
     fifo |-> phy.fifo, tx |-> "none", owed |-> phy.owed]

PortInit(phy, c) ==
    LET f == FlushRx(NewPort(phy), c)
        b == SetBaudrate(f, c)
    IN  IF c.fail = "init" THEN Error(NewPort(phy))
        ELSE IF c.fail = "flush_rx" THEN Error(f)
        ELSE IF Failed(b) THEN b
        ELSE SetMode(b, "SDCI", c)

-----------------------------------------------------------------------------
(* Actions.                                                                *)

PowerOnPhy == [phy_mode |-> "INACTIVE", phy_rate |-> ConfigRate,
               fifo |-> <<>>, owed |-> <<>>]

Init ==
    /\ \E c \in Choices : port = PortInit(PowerOnPhy, c)
    /\ dev \in DevIds \cup {"absent"}
    /\ awake = FALSE

\* iolink_master_tick_at, called as iolink_master_controller_tick_at does: the
\* response deadline decides which event the tick carries.
ResponseDue(p) == p.awaiting_response /\ p.deadline = 0

\* A connected device may take or miss the wake-up request.
DeviceHears ==
    IF port'.tx = "wake" /\ dev # "absent" THEN awake' \in {awake, TRUE}
    ELSE awake' = awake

TickAt(c) ==
    /\ Timed
    /\ port' = TickCommon(port, IF ResponseDue(port) THEN "RESPONSE_TIMEOUT"
                                 ELSE "CYCLE_DUE", c)
    /\ DeviceHears
    /\ dev' = dev

\* iolink_master_tick_event: no time base, the host decides what a tick means.
TickEvent(event, c) ==
    /\ ~Timed
    /\ port' = TickCommon(port, event, c)
    /\ DeviceHears
    /\ dev' = dev

Restart(c) ==
    /\ "restart" \in AppCalls
    /\ port' = PortInit(port, c)
    /\ UNCHANGED <<dev, awake>>

\* The application: ISDU and event services are started in PREOPERATE or
\* OPERATE only, and collected when they are done.
Serviceable(call) == call \in AppCalls /\ port.state \in ServiceStates

StartIsdu ==
    /\ Serviceable("isdu")
    /\ port.isdu_op = "none"
    /\ port' = [IsduStart(port, "app") EXCEPT !.tx = "none"]
    /\ UNCHANGED <<dev, awake>>

CollectIsdu ==
    /\ Serviceable("isdu")
    /\ port.isdu_op = "app" /\ port.isdu_phase = "done"
    /\ port' = [IsduFinish(port) EXCEPT !.tx = "none"]
    /\ UNCHANGED <<dev, awake>>

StartEvent(phase) ==
    /\ Serviceable("event")
    /\ port.event = "none"
    /\ port' = [port EXCEPT !.event = phase, !.event_od_expected = FALSE,
                            !.tx = "none"]
    /\ UNCHANGED <<dev, awake>>

CollectEvent ==
    /\ Serviceable("event")
    /\ port.event = "done"
    /\ port' = [port EXCEPT !.event = "none", !.tx = "none"]
    /\ UNCHANGED <<dev, awake>>

\* The wire and the device.
Less(n) == IF n > 0 THEN n - 1 ELSE 0

Elapse ==
    /\ Timed
    /\ port.deadline > 0 \/ port.send_gate > 0 \/ port.cycle_left > 0
    /\ port' = [port EXCEPT !.deadline = Less(@), !.send_gate = Less(@),
                            !.cycle_left = Less(@), !.tx = "none"]
    /\ UNCHANGED <<dev, awake>>

CanAnswer ==
    /\ dev # "absent" /\ awake
    /\ port.phy_mode = "SDCI" /\ port.phy_rate = DevRate[dev]
    /\ port.owed # <<>>

Filled(shape, cks) ==
    [i \in 1..Len(shape) |-> CASE shape[i] = "od" -> dev
                               [] shape[i] = "cks" -> cks
                               [] OTHER -> shape[i]]

Received(octets) ==
    /\ Len(port.fifo) + Len(octets) <= FifoDepth
    /\ port' = [port EXCEPT !.fifo = @ \o octets, !.owed = Tail(@), !.tx = "none"]
    /\ UNCHANGED <<dev, awake>>

Answer(cks) == CanAnswer /\ Received(Filled(Head(port.owed), cks))

AnswerGarbled ==
    /\ "garbled" \in Noise
    /\ CanAnswer
    /\ Received([i \in 1..Len(Head(port.owed)) |-> "bad"])

AnswerTruncated ==
    /\ "truncated" \in Noise
    /\ CanAnswer
    /\ LET reply == Filled(Head(port.owed), "cks")
       IN  Received(SubSeq(reply, 1, Len(reply) - 1))

Plug(d) ==
    /\ dev # d
    /\ dev' = d
    /\ awake' = FALSE
    /\ port' = [port EXCEPT !.owed = <<>>, !.tx = "none"]

Next ==
    \/ \E c \in Choices : TickAt(c) \/ Restart(c)
    \/ \E c \in Choices, e \in {"NONE", "CYCLE_DUE", "RESPONSE_TIMEOUT"} :
          TickEvent(e, c)
    \/ StartIsdu \/ CollectIsdu \/ CollectEvent
    \/ \E phase \in {"read", "read_ack"} : StartEvent(phase)
    \/ Elapse
    \/ \E cks \in CksOctets : Answer(cks)
    \/ AnswerGarbled \/ AnswerTruncated
    \/ \E d \in Pluggable : Plug(d)

Spec == Init /\ [][Next]_vars

-----------------------------------------------------------------------------
(* Properties.                                                             *)

\* Every field of the port stays within its type, and the connected device is
\* one of the devices.
TypeOK ==
    /\ port \in Ports
    /\ dev \in DevIds \cup {"absent"}
    /\ awake \in BOOLEAN

\* The PHY runs at the rate the port believes it runs at, and is inactive
\* exactly while the port pauses for T_SD, whatever mix of rate steps, COMLOST
\* restarts and failing PHY callbacks came before (only ERROR is exempt).
PhyAgrees ==
    port.state # "ERROR" =>
        /\ port.phy_rate = ScanRate(port)
        /\ port.phy_mode = "INACTIVE"
              <=> port.state = "STARTUP" /\ port.step = "INACTIVE"

\* A test message is answered by a device that talks at the rate just tried: no
\* octet left in the receive path from an earlier attempt, rate or exchange is
\* taken for the answer (flush_rx in on_timeout_at and tick_common).
Established == port.state = "STARTUP" /\ port'.state \in {"PREOPERATE", "OPERATE"}

AnsweredAtItsRate ==
    [][Established =>
          \E i \in 1..Len(port.rx \o port.fifo) :
              LET o == (port.rx \o port.fifo)[i]
              IN  o \in DevIds /\ DevRate[o] = port'.phy_rate]_vars

\* Only a failing PHY callback latches ERROR; whatever the device or the line
\* does, the port goes back to STARTUP (restart_establish) instead.
ErrorOnlyFromPhy == Faults = {} => port.state # "ERROR"

\* The device woken up and taken into OPERATE is the one the configuration asks
\* for (startup_validation_required, validate_device_info).
OperatesExpectedDevice ==
    Validate /\ port.state = "OPERATE" /\ awake => dev = ExpectedId

\* The octets being collected never begin in the middle of a reply: every reply
\* is consumed with the length it was sent with (poll_rx, rx_od_expected).
RepliesFramed == port.rx # <<>> => port.rx[1] \notin Cks

\* One M-sequence at a time (tick_common): no request is put on the wire before
\* the reply to the previous one, or the end of its answer window.
OneMSequence ==
    [][port'.tx \notin {"none", "wake"}
          => port.owed = <<>> \/ (port.awaiting_response /\ port.deadline = 0)]_vars

\* A complete reply that is in the receive path when its deadline passes wins
\* over the timeout: the tick that carries RESPONSE_TIMEOUT polls first.
ReplyWaiting(p) ==
    /\ p.state = "OPERATE" /\ p.awaiting_response
    /\ p.rx = <<>> /\ Intact(ExpectedReply(p), p.fifo)

ReplyBeatsTimeout ==
    [][ReplyWaiting(port) /\ (\E c \in Choices : c.fail = "none" /\ TickAt(c))
          => port'.state = "OPERATE" /\ port'.rx_retry_count = 0]_vars

-----------------------------------------------------------------------------
(* The establish-communication procedure of Figure 36, which the timed port *)
(* implements.                                                              *)

Phase ==
    CASE port.state = "ERROR" -> "fault"
      [] port.state = "STARTUP" /\ port.step = "WAKE" -> "wurq"
      [] port.state = "STARTUP" /\ port.step = "SEND_TYPE0" -> "test"
      [] port.state = "STARTUP" /\ port.step = "AWAIT_RESPONSE" -> "await"
      [] port.state = "STARTUP" /\ port.step = "INACTIVE" -> "pause"
      [] OTHER -> "com"

Establish == INSTANCE EstablishCom WITH
    nWU <- WakeRetryLimit,
    Rates <- IF AutoBaudrate THEN 0..LastRate ELSE {LastRate},
    Restartable <- "restart" \in AppCalls,
    phase <- Phase,
    rate <- IF AutoBaudrate THEN port.baudrate_index ELSE LastRate,
    retry <- port.wake_attempts,
    line <- IF port.tx \in {"wake", "test"} THEN port.tx ELSE "none"

\* Every wake-up is followed by one test message per rate from COM3 down, a
\* failed scan by a new wake-up until n_WU retries are spent, then by a pause;
\* a lost connection by a fresh sequence (Figure 36 T1-T19).
EstablishImplemented == Establish!Spec

=============================================================================
