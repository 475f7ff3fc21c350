----------------------- MODULE MasterController_proofs -----------------------
(***************************************************************************)
(* Proofs about MasterController, for any number of ports and any times:    *)
(* what its ports keep to, and from that every property its run checks.     *)
(***************************************************************************)
EXTENDS MasterController, WellFoundedInduction, TLAPS

-----------------------------------------------------------------------------
(* The inductive invariant.                                                *)

\* The port has sent its test message: the gate before it has opened.
GatePassed(p) ==
    \/ p.state = "STARTUP" /\ p.step = "AWAIT_RESPONSE"
    \/ p.state \in {"PREOPERATE", "OPERATE"}

\* The gate between the wake-up and the test message was closed by now.
GateClosed(p, now) ==
    p.send_ready_valid /\ TReady <= p.send_ready_at /\ p.send_ready_at <= now + TReady

\* What the times of a port on a clock have to do with each other and with now.
Timely(p, now) ==
    /\ p.state = "STARTUP" /\ p.step = "AWAIT_RESPONSE" => p.awaiting_response
    /\ p.state = "OPERATE" /\ p.awaiting_response
         => p.response_deadline = p.last_cycle_start + ResponseTimeout
    /\ GatePassed(p) \/ (p.state = "STARTUP" /\ p.step = "SEND_TYPE0")
         => GateClosed(p, now)
    /\ GatePassed(p) => p.send_ready_at <= now \/ Stamp(p.send_ready_at) < TReady

\* A port that was initialised.
Sound(p, now, clocked) ==
    /\ p \in Ports /\ p.last_cycle_start <= now
    /\ p.state = "STARTUP" => p.step # "AWAIT_OPERATE_ACK"
    /\ clocked => Timely(p, now)
    /\ ModesAgree(p)

\* A port that never was.
Unused(p) ==
    /\ p \in Ports /\ p.last_cycle_start = 0
    /\ p.mode = "IOLINK" /\ p.state = "INACTIVE"

Inv ==
    /\ count \in 0..N /\ time \in 0..MaxTime /\ timed \in BOOLEAN
    /\ touched \in 0..N
    /\ touched # 0 => ports[touched].mode \in {"DI", "DQ"}
    /\ ports = [k \in 1..N |-> ports[k]]
    /\ \A i \in 1..N :
          Sound(ports[i], time, timed) \/ (i > count /\ Unused(ports[i]))

-----------------------------------------------------------------------------
(* The clock.                                                              *)

\* Division with a remainder.
LEMMA Division ==
    \A a \in Int, b \in Int : b > 0 => a = b * (a \div b) + (a % b)
BY Z3

\* A time is its lap and its stamp.
LEMMA DivMod ==
    ASSUME NEW t \in Nat
    PROVE  /\ Stamp(t) \in Nat /\ Lap(t) \in Nat /\ Stamp(t) < ClockRange
           /\ t = ClockRange * Lap(t) + Stamp(t)
<1>1. ClockRange \in Nat /\ ClockRange > 0
  BY ClockAssumption
<1>2. t % ClockRange \in 0..(ClockRange - 1) /\ t \div ClockRange \in Nat
  BY <1>1
<1>3. t = ClockRange * (t \div ClockRange) + (t % ClockRange)
  BY <1>1, Division
<1> QED  BY <1>1, <1>2, <1>3 DEF Stamp, Lap

LEMMA LapBase ==
    ASSUME NEW t \in Nat
    PROVE  ClockRange * Lap(t) \in Nat /\ ClockRange \in Nat
<1>1. Lap(t) \in Nat /\ ClockRange \in Nat
  BY DivMod, ClockAssumption
<1> HIDE DEF Lap
<1> QED  BY <1>1

\* Times in the same lap are ordered as their stamps are, and times in
\* different laps as the laps.
LEMMA LapOrder ==
    ASSUME NEW s \in Nat, NEW t \in Nat
    PROVE  /\ Lap(s) = Lap(t) => (s <= t <=> Stamp(s) <= Stamp(t))
           /\ Lap(s) < Lap(t) => s < ClockRange * Lap(t)
<1> DEFINE R == ClockRange
           a == Lap(s)
           b == Lap(t)
<1>1. R \in Nat /\ R > 0
  BY ClockAssumption
<1>2. /\ a \in Nat /\ b \in Nat
      /\ s = R * a + Stamp(s) /\ t = R * b + Stamp(t)
      /\ Stamp(s) \in Nat /\ Stamp(t) \in Nat /\ Stamp(s) < R
  BY DivMod
<1>3. Lap(s) = Lap(t) => (s <= t <=> Stamp(s) <= Stamp(t))
  <2> HIDE DEF R, a, b
  <2> QED  BY <1>1, <1>2 DEF a, b
<1>4. ASSUME a < b  PROVE  s < R * b
  <2>1. PICK k \in Nat : b = a + 1 + k
    <3>1. b - a - 1 \in Nat /\ b = a + 1 + (b - a - 1)
      BY <1>2, <1>4
    <3> QED  BY <3>1
  <2>2. R * b = R * a + R + R * k /\ R * k \in Nat /\ R * a \in Nat
    BY <1>1, <1>2, <2>1
  <2> QED  BY <1>1, <1>2, <2>2
<1> QED  BY <1>3, <1>4

\* Stamps differ by what the times differ by, up to laps of the clock.
LEMMA SinceExact ==
    ASSUME NEW s \in Nat, NEW t \in Nat, s <= t
    PROVE  /\ Since(s, t) \in Nat /\ Since(s, t) <= t - s
           /\ t - s < ClockRange => Since(s, t) = t - s
<1> DEFINE d == t - s
<1>1. d \in Nat
  OBVIOUS
<1>2. Stamp(d) = Since(s, t)
  BY DEF Stamp, Since
<1>3. /\ Stamp(d) \in Nat /\ Lap(d) \in Nat /\ ClockRange \in Nat
      /\ d = ClockRange * Lap(d) + Stamp(d)
  BY DivMod, ClockAssumption, <1>1
<1>4. ClockRange * Lap(d) \in Nat /\ (d < ClockRange => ClockRange * Lap(d) = 0)
  <2>1. CASE Lap(d) = 0
    BY <1>3, <2>1
  <2>2. CASE Lap(d) # 0
    <3>1. PICK k \in Nat : Lap(d) = 1 + k
      <4>1. Lap(d) - 1 \in Nat /\ Lap(d) = 1 + (Lap(d) - 1)
        BY <1>3, <2>2
      <4> QED  BY <4>1
    <3>2. ClockRange * Lap(d) = ClockRange + ClockRange * k /\ ClockRange * k \in Nat
      BY <1>3, <3>1
    <3> QED  BY <1>3, <3>2
  <2> QED  BY <2>1, <2>2
<1> HIDE DEF d
<1>5. Stamp(d) <= d /\ (d < ClockRange => Stamp(d) = d)
  BY <1>1, <1>3, <1>4
<1> QED  BY <1>2, <1>3, <1>5 DEF d

\* A gate that opens before its time does so because the clock went round.
LEMMA GateOpens ==
    ASSUME NEW gate \in Nat, NEW now \in Nat, gate <= now + TReady,
           ~(Stamp(now) < Stamp(gate))
    PROVE  gate <= now \/ Stamp(gate) < TReady
<1> SUFFICES ASSUME now < gate  PROVE  Stamp(gate) < TReady
  OBVIOUS
<1>1. /\ Stamp(now) \in Nat /\ Stamp(gate) \in Nat /\ Lap(now) \in Nat /\ Lap(gate) \in Nat
      /\ now = ClockRange * Lap(now) + Stamp(now)
      /\ gate = ClockRange * Lap(gate) + Stamp(gate)
  BY DivMod
<1>2. TReady \in Nat /\ ClockRange \in Nat
  BY ClockAssumption
<1>3. ~(Lap(gate) <= Lap(now))
  <2>1. Lap(gate) # Lap(now)
    BY <1>1, LapOrder
  <2>2. ~(Lap(gate) < Lap(now))
    <3>1. Lap(gate) < Lap(now) => gate < ClockRange * Lap(now)
      BY LapOrder
    <3>2. ClockRange * Lap(now) \in Nat
      BY <1>1, <1>2
    <3> QED  BY <1>1, <3>1, <3>2
  <2> QED  BY <1>1, <2>1, <2>2
<1>4. now < ClockRange * Lap(gate)
  BY <1>1, <1>3, LapOrder
<1>5. ClockRange * Lap(gate) \in Nat
  BY <1>1, <1>2
<1> QED  BY <1>1, <1>2, <1>4, <1>5

\* Closing behind a port in OPERATE, it does so for the rest of its time.
LEMMA GateCloses ==
    ASSUME NEW gate \in Nat, NEW now \in Nat,
           gate <= now \/ Stamp(gate) < TReady, Stamp(now) < Stamp(gate)
    PROVE  Lap(gate) < Lap(now) \/ (now < gate /\ Stamp(gate) < TReady)
<1> SUFFICES ASSUME gate <= now  PROVE  Lap(gate) < Lap(now)
  BY ClockAssumption
<1>1. /\ Stamp(now) \in Nat /\ Stamp(gate) \in Nat /\ Lap(now) \in Nat /\ Lap(gate) \in Nat
      /\ gate = ClockRange * Lap(gate) + Stamp(gate)
  BY DivMod
<1>2. Lap(gate) # Lap(now)
  BY <1>1, LapOrder
<1>3. ~(Lap(now) < Lap(gate))
  <2>1. Lap(now) < Lap(gate) => now < ClockRange * Lap(gate)
    BY LapOrder
  <2>2. ClockRange * Lap(gate) \in Nat
    BY <1>1, ClockAssumption
  <2> QED  BY <1>1, <2>1, <2>2
<1> QED  BY <1>1, <1>2, <1>3

-----------------------------------------------------------------------------
(* The operations of a port.                                               *)

\* The bounds of a port's counters and times.
LEMMA Bounds ==
    /\ ClockRange \in Nat /\ MinCycle \in Nat /\ ResponseTimeout \in Nat
    /\ TestTimeout \in Nat /\ TReady \in Nat /\ TDwu \in Nat /\ TSd \in Nat
    /\ WakeRetryLimit \in Nat /\ RxRetryLimit \in Nat
    /\ 0 \in 0..WakeRetryLimit /\ 0 \in 0..RxRetryLimit
BY ClockAssumption

\* A call that fails.
LEMMA ErrorSound ==
    ASSUME NEW p, NEW now \in Nat, NEW clocked \in BOOLEAN, Sound(p, now, clocked)
    PROVE  Sound(Error(p), now, clocked)
BY DEF Error, Sound, Ports, Timely, GatePassed, ModesAgree

\* The observations of the last call are cleared.
LEMMA ClearSound ==
    ASSUME NEW p, NEW now \in Nat, NEW clocked \in BOOLEAN, Sound(p, now, clocked)
    PROVE  Sound([p EXCEPT !.tx = "none", !.jitter = 0], now, clocked)
<1> DEFINE q == [p EXCEPT !.tx = "none", !.jitter = 0]
<1>1. p \in Ports
  BY DEF Sound
<1>2. /\ q \in Ports /\ q.state = p.state /\ q.step = p.step /\ q.mode = p.mode
      /\ q.phy_mode = p.phy_mode /\ q.last_cycle_start = p.last_cycle_start
      /\ q.awaiting_response = p.awaiting_response
      /\ q.response_deadline = p.response_deadline
      /\ q.send_ready_valid = p.send_ready_valid /\ q.send_ready_at = p.send_ready_at
  BY <1>1 DEF Ports
<1> HIDE DEF q
<1> QED
  BY <1>2 DEF Sound, Timely, GatePassed, GateClosed, ModesAgree, q

\* Time passes.
LEMMA LaterSound ==
    ASSUME NEW p, NEW now \in Nat, NEW later \in Nat, now <= later,
           NEW clocked \in BOOLEAN, Sound(p, now, clocked)
    PROVE  Sound(p, later, clocked)
<1>1. p.last_cycle_start \in Nat /\ p.send_ready_at \in Nat
  BY DEF Sound, Ports
<1> QED  BY <1>1, Bounds DEF Sound, Timely, GateClosed

\* The send gate is closed before a wake-up.
LEMMA ArmSound ==
    ASSUME NEW p, NEW now \in Nat, NEW clocked \in BOOLEAN, NEW armed \in BOOLEAN,
           NEW at \in Nat, NEW delay \in Nat, Sound(p, now, clocked),
           p.state = "STARTUP", p.step \in {"WAKE", "INACTIVE"}
    PROVE  Sound(ArmSendGate(p, at, delay, armed), now, clocked)
<1>1. CASE ~armed
  BY <1>1 DEF ArmSendGate
<1>2. CASE armed
  <2> DEFINE q == [p EXCEPT !.send_ready_at = at + delay, !.send_ready_valid = TRUE]
  <2>1. q \in Ports
    <3>1. at + delay \in Nat
      OBVIOUS
    <3> QED  BY <3>1 DEF Sound, Ports
  <2>2. /\ q.state = p.state /\ q.step = p.step
        /\ q.last_cycle_start = p.last_cycle_start
        /\ q.mode = p.mode /\ q.phy_mode = p.phy_mode
    BY DEF Sound, Ports
  <2> HIDE DEF q
  <2>3. Sound(q, now, clocked)
    BY <2>1, <2>2 DEF Sound, Timely, GatePassed, ModesAgree, PhyModeFor
  <2> QED  BY <1>2, <2>3 DEF ArmSendGate, q
<1> QED  BY <1>1, <1>2

\* A port whose communication is lost establishes it anew.
LEMMA RestartSound ==
    ASSUME NEW p, NEW now \in Nat, NEW clocked \in BOOLEAN, NEW armed \in BOOLEAN,
           NEW at \in Nat,
           Sound(p, now, clocked), p.state \in {"PREOPERATE", "OPERATE"}
    PROVE  Sound(RestartEstablish(p, at, armed), now, clocked)
<1> DEFINE q == [p EXCEPT !.state = "STARTUP", !.step = "WAKE",
                          !.wake_attempts = 0, !.rx_retry_count = 0,
                          !.awaiting_response = FALSE]
<1>1. /\ q \in Ports /\ q.state = "STARTUP" /\ q.step = "WAKE"
      /\ q.last_cycle_start = p.last_cycle_start
      /\ q.mode = p.mode /\ q.phy_mode = p.phy_mode
  BY Bounds DEF Sound, Ports
<1>2. ModesAgree(q)
  BY <1>1 DEF Sound, ModesAgree, PhyModeFor
<1>3. Sound(q, now, clocked)
  BY <1>1, <1>2 DEF Sound, Timely, GatePassed
<1>4. RestartEstablish(p, at, armed) = ArmSendGate(q, at, TDwu, armed)
  BY DEF RestartEstablish
<1> HIDE DEF q
<1> QED  BY <1>1, <1>3, <1>4, ArmSound, Bounds

\* An attempt to establish communication fails.
LEMMA AttemptFailedSound ==
    ASSUME NEW p, NEW now \in Nat, NEW clocked \in BOOLEAN, NEW c,
           Sound(p, now, FALSE), p.state = "STARTUP", p.step # "INACTIVE"
    PROVE  Sound(EstablishAttemptFailed(p, now, clocked, c), now, clocked)
<1> DEFINE q == [p EXCEPT !.awaiting_response = FALSE]
           again == [q EXCEPT !.wake_attempts = @ + 1, !.step = "WAKE"]
           out == SetMode([q EXCEPT !.wake_attempts = 0], "INACTIVE", c)
           rest == [out EXCEPT !.step = "INACTIVE"]
<1>1. /\ q \in Ports /\ q.state = "STARTUP" /\ q.step = p.step
      /\ q.last_cycle_start <= now /\ q.mode = "IOLINK" /\ q.phy_mode = "SDCI"
      /\ q.wake_attempts = p.wake_attempts /\ p.wake_attempts \in Nat
  <2>1. /\ p \in Ports /\ p.mode = "IOLINK" /\ p.phy_mode = "SDCI"
        /\ p.last_cycle_start <= now
    BY DEF Sound, ModesAgree, PhyModeFor
  <2>2. p.wake_attempts \in Nat
    BY <2>1, Bounds DEF Ports
  <2>3. /\ q \in Ports /\ q.state = p.state /\ q.step = p.step
        /\ q.last_cycle_start = p.last_cycle_start /\ q.mode = p.mode
        /\ q.phy_mode = p.phy_mode /\ q.wake_attempts = p.wake_attempts
    BY <2>1 DEF Ports
  <2> QED  BY <2>1, <2>2, <2>3
<1>2. ASSUME p.wake_attempts + 1 <= WakeRetryLimit
      PROVE  Sound(ArmSendGate(again, now, TDwu, clocked), now, clocked)
  <2>1. again \in Ports
    <3>1. p.wake_attempts + 1 \in 0..WakeRetryLimit
      BY <1>1, <1>2, Bounds
    <3> QED  BY <1>1, <3>1 DEF Ports
  <2>2. /\ again.state = "STARTUP" /\ again.step = "WAKE"
        /\ again.last_cycle_start = q.last_cycle_start
        /\ again.mode = q.mode /\ again.phy_mode = q.phy_mode
    BY <1>1 DEF Ports
  <2> HIDE DEF again, q
  <2>3. Sound(again, now, clocked)
    BY <1>1, <2>1, <2>2 DEF Sound, Timely, GatePassed, ModesAgree, PhyModeFor
  <2> QED  BY <2>2, <2>3, ArmSound, Bounds
<1>3. ASSUME c # "phy"
      PROVE  /\ Sound(ArmSendGate(rest, now, TSd, clocked), now, clocked)
             /\ ~Failed(out)
  <2>1. out = [q EXCEPT !.wake_attempts = 0, !.phy_mode = "INACTIVE"]
    BY <1>1, <1>3 DEF SetMode, Ports
  <2>2. /\ rest \in Ports /\ rest.state = "STARTUP" /\ rest.step = "INACTIVE"
        /\ rest.last_cycle_start = q.last_cycle_start
        /\ rest.mode = q.mode /\ rest.phy_mode = "INACTIVE"
        /\ out.state = "STARTUP"
    <3> HIDE DEF q, out
    <3>1. /\ out \in Ports /\ out.state = q.state /\ out.mode = q.mode
          /\ out.last_cycle_start = q.last_cycle_start /\ out.phy_mode = "INACTIVE"
      BY <1>1, <2>1, Bounds DEF Ports
    <3>2. q.state = "STARTUP"
      BY <1>1
    <3> QED  BY <3>1, <3>2 DEF Ports
  <2> HIDE DEF rest, out, q
  <2>3. Sound(rest, now, clocked)
    BY <1>1, <2>2 DEF Sound, Timely, GatePassed, ModesAgree, PhyModeFor
  <2> QED  BY <2>2, <2>3, ArmSound, Bounds DEF Failed
<1>4. ASSUME c = "phy"
      PROVE  Sound(out, now, clocked) /\ Failed(out)
  <2>1. /\ out \in Ports /\ out.state = "ERROR"
        /\ out.last_cycle_start = q.last_cycle_start
    BY <1>1, <1>4, Bounds DEF SetMode, Error, Ports
  <2> HIDE DEF out, q
  <2> QED  BY <1>1, <2>1 DEF Sound, Timely, GatePassed, ModesAgree, Failed
<1>5. EstablishAttemptFailed(p, now, clocked, c) =
        IF p.wake_attempts + 1 <= WakeRetryLimit
        THEN ArmSendGate(again, now, TDwu, clocked)
        ELSE IF Failed(out) THEN out ELSE ArmSendGate(rest, now, TSd, clocked)
  BY DEF EstablishAttemptFailed
<1> HIDE DEF q, again, out, rest
<1> QED  BY <1>2, <1>3, <1>4, <1>5

\* A retry is spent.
LEMMA RetrySound ==
    ASSUME NEW p, NEW now \in Nat, NEW clocked \in BOOLEAN,
           Sound(p, now, clocked), MoreRetries(p)
    PROVE  Sound([p EXCEPT !.rx_retry_count = @ + 1], now, clocked)
<1>1. p.rx_retry_count + 1 \in 0..RxRetryLimit
  BY Bounds DEF Sound, Ports, MoreRetries
<1> DEFINE q == [p EXCEPT !.rx_retry_count = @ + 1]
<1>2. /\ q \in Ports /\ q.state = p.state /\ q.step = p.step
      /\ q.last_cycle_start = p.last_cycle_start
      /\ q.mode = p.mode /\ q.phy_mode = p.phy_mode
      /\ q.awaiting_response = p.awaiting_response
      /\ q.response_deadline = p.response_deadline
      /\ q.send_ready_valid = p.send_ready_valid /\ q.send_ready_at = p.send_ready_at
  BY <1>1 DEF Sound, Ports
<1> HIDE DEF q
<1>3. Sound(q, now, clocked)
  BY <1>2 DEF Sound, Timely, GatePassed, GateClosed, ModesAgree
<1> QED  BY <1>3 DEF q

\* The answer a port waited for does not come.
LEMMA TimeoutSound ==
    ASSUME NEW p, NEW now \in Nat, NEW clocked \in BOOLEAN, NEW c,
           Sound(p, now, clocked)
    PROVE  Sound(TimeoutTick(p, now, clocked, c), now, clocked)
<1> DEFINE q == [p EXCEPT !.awaiting_response = FALSE]
<1>1. /\ q \in Ports /\ q.state = p.state /\ q.step = p.step
      /\ q.last_cycle_start = p.last_cycle_start
      /\ q.mode = p.mode /\ q.phy_mode = p.phy_mode
      /\ q.awaiting_response = FALSE
      /\ q.send_ready_valid = p.send_ready_valid /\ q.send_ready_at = p.send_ready_at
  BY DEF Sound, Ports
<1> HIDE DEF q
<1>2. Sound(q, now, FALSE)
  BY <1>1 DEF Sound, ModesAgree
<1>3. ASSUME ~(q.state = "STARTUP" /\ q.step = "AWAIT_RESPONSE")
      PROVE  Sound(q, now, clocked)
  BY <1>1, <1>3 DEF Sound, Timely, GatePassed, GateClosed, ModesAgree
<1>4. Sound(OnTimeoutAt(q, now, clocked, c), now, clocked)
  <2>1. CASE c = "flush"
    <3>1. OnTimeoutAt(q, now, clocked, c) = Error(q)
      BY <2>1 DEF OnTimeoutAt
    <3>2. /\ Error(q) \in Ports /\ Error(q).state = "ERROR"
          /\ Error(q).last_cycle_start = q.last_cycle_start
      BY <1>1 DEF Error, Ports
    <3>3. Sound(Error(q), now, clocked)
      BY <1>2, <3>2 DEF Sound, Timely, GatePassed, ModesAgree
    <3> QED  BY <3>1, <3>3
  <2>2. CASE c # "flush" /\ q.state = "OPERATE"
    <3>1. OnTimeoutAt(q, now, clocked, c) =
            IF MoreRetries(q) THEN [q EXCEPT !.rx_retry_count = @ + 1]
            ELSE RestartEstablish(q, now, clocked)
      BY <2>2 DEF OnTimeoutAt
    <3> QED  BY <1>3, <2>2, <3>1, RetrySound, RestartSound
  <2>3. CASE c # "flush" /\ q.state = "STARTUP" /\ q.step # "INACTIVE"
    <3>1. OnTimeoutAt(q, now, clocked, c) = EstablishAttemptFailed(q, now, clocked, c)
      BY <2>3 DEF OnTimeoutAt
    <3> QED  BY <1>2, <2>3, <3>1, AttemptFailedSound
  <2>4. CASE /\ c # "flush" /\ q.state # "OPERATE"
             /\ ~(q.state = "STARTUP" /\ q.step # "INACTIVE")
    <3>1. OnTimeoutAt(q, now, clocked, c) = q
      BY <2>4 DEF OnTimeoutAt
    <3> QED  BY <1>3, <2>4, <3>1
  <2> QED  BY <2>1, <2>2, <2>3, <2>4
<1> QED  BY <1>4 DEF TimeoutTick, q

\* A reply, good or not, is taken in.
LEMMA ReplySound ==
    ASSUME NEW p, NEW now \in Nat, NEW clocked \in BOOLEAN,
           Sound(p, now, clocked), Polled(p)
    PROVE  Sound(OnReply(p), now, clocked)
<1> DEFINE q == [p EXCEPT !.rx_retry_count = 0, !.awaiting_response = FALSE]
           pre == [q EXCEPT !.wake_attempts = 0, !.state = "PREOPERATE"]
           op == [q EXCEPT !.state = "OPERATE"]
<1>1. /\ q \in Ports /\ q.state = p.state /\ q.step = p.step
      /\ q.last_cycle_start = p.last_cycle_start
      /\ q.mode = p.mode /\ q.phy_mode = p.phy_mode
      /\ q.awaiting_response = FALSE
      /\ q.send_ready_valid = p.send_ready_valid /\ q.send_ready_at = p.send_ready_at
  BY Bounds DEF Sound, Ports
<1> HIDE DEF q
<1>2. CASE p.state = "STARTUP"
  <2>1. OnReply(p) = pre
    BY <1>2 DEF OnReply, q
  <2>2. /\ pre \in Ports /\ pre.state = "PREOPERATE" /\ pre.step = p.step
        /\ pre.last_cycle_start = p.last_cycle_start
        /\ pre.mode = p.mode /\ pre.phy_mode = p.phy_mode
        /\ pre.awaiting_response = FALSE
        /\ pre.send_ready_valid = p.send_ready_valid /\ pre.send_ready_at = p.send_ready_at
    BY <1>1, Bounds DEF Ports
  <2>3. p.step = "AWAIT_RESPONSE"
    BY <1>2 DEF Polled
  <2> HIDE DEF pre
  <2> QED  BY <1>2, <2>1, <2>2, <2>3
             DEF Sound, Timely, GatePassed, GateClosed, ModesAgree, PhyModeFor
<1>3. CASE p.state = "PREOPERATE" /\ p.step = "AWAIT_OPERATE_ACK"
  <2>1. OnReply(p) = op
    BY <1>3 DEF OnReply, q
  <2>2. /\ op \in Ports /\ op.state = "OPERATE" /\ op.step = p.step
        /\ op.last_cycle_start = p.last_cycle_start
        /\ op.mode = p.mode /\ op.phy_mode = p.phy_mode
        /\ op.awaiting_response = FALSE
        /\ op.send_ready_valid = p.send_ready_valid /\ op.send_ready_at = p.send_ready_at
    BY <1>1, Bounds DEF Ports
  <2> HIDE DEF op
  <2> QED  BY <1>3, <2>1, <2>2
             DEF Sound, Timely, GatePassed, GateClosed, ModesAgree, PhyModeFor
<1>4. CASE p.state # "STARTUP" /\ ~(p.state = "PREOPERATE" /\ p.step = "AWAIT_OPERATE_ACK")
  <2>1. OnReply(p) = q
    BY <1>4 DEF OnReply, q
  <2> QED  BY <1>1, <1>4, <2>1
             DEF Sound, Timely, GatePassed, GateClosed, ModesAgree, PhyModeFor
<1> QED  BY <1>2, <1>3, <1>4

LEMMA PollSound ==
    ASSUME NEW p, NEW now \in Nat, NEW clocked \in BOOLEAN, NEW c,
           Sound(p, now, clocked)
    PROVE  Sound(PollRx(p, c), now, clocked)
<1>1. CASE ~Polled(p) \/ c \notin {"reply", "garbled", "recv"}
  <2>1. PollRx(p, c) = p
    BY <1>1 DEF PollRx
  <2> QED  BY <2>1
<1>2. CASE Polled(p) /\ c = "reply"
  BY <1>2, ReplySound DEF PollRx
<1>3. CASE Polled(p) /\ c = "recv"
  BY <1>3, ErrorSound DEF PollRx
<1>4. CASE Polled(p) /\ c = "garbled"
  <2>1. PollRx(p, c) = OnGarbled(p)
    BY <1>4 DEF PollRx
  <2>2. CASE p.state = "STARTUP"
    BY <2>1, <2>2 DEF OnGarbled
  <2>3. CASE p.state # "STARTUP" /\ MoreRetries(p)
    BY <2>1, <2>3, RetrySound DEF OnGarbled
  <2>4. CASE p.state # "STARTUP" /\ ~MoreRetries(p)
    <3>1. OnGarbled(p) = RestartEstablish(p, 0, FALSE)
      BY <2>4 DEF OnGarbled
    <3>2. p.state \in {"PREOPERATE", "OPERATE"}
      BY <1>4, <2>4 DEF Polled
    <3> QED  BY <2>1, <3>1, <3>2, RestartSound
  <2> QED  BY <2>2, <2>3, <2>4
<1> QED  BY <1>1, <1>2, <1>3, <1>4

\* A frame is handed to the PHY.
LEMMA SendSound ==
    ASSUME NEW p, NEW now \in Nat, NEW clocked \in BOOLEAN, NEW c,
           NEW frame \in {"wake", "test", "operate", "cyclic"},
           Sound(p, now, clocked)
    PROVE  Sound(Send(p, frame, c), now, clocked)
<1>1. CASE c = "phy"
  BY <1>1, ErrorSound DEF Send
<1>2. CASE c # "phy"
  <2> DEFINE q == [p EXCEPT !.tx = frame]
  <2>1. /\ q \in Ports /\ q.state = p.state /\ q.step = p.step
        /\ q.last_cycle_start = p.last_cycle_start
        /\ q.mode = p.mode /\ q.phy_mode = p.phy_mode
        /\ q.awaiting_response = p.awaiting_response
        /\ q.response_deadline = p.response_deadline
        /\ q.send_ready_valid = p.send_ready_valid /\ q.send_ready_at = p.send_ready_at
    BY DEF Sound, Ports
  <2> HIDE DEF q
  <2>2. Sound(q, now, clocked)
    BY <2>1 DEF Sound, Timely, GatePassed, GateClosed, ModesAgree
  <2> QED  BY <1>2, <2>2 DEF Send, q
<1> QED  BY <1>1, <1>2

\* The wake-up, and the gate before the test message.
LEMMA WakeSound ==
    ASSUME NEW p, NEW now \in Nat, NEW clocked \in BOOLEAN, NEW c,
           Sound(p, now, clocked), p.state = "STARTUP", p.step \in {"WAKE", "INACTIVE"}
    PROVE  Sound(StartupWake(p, now, clocked, c), now, clocked)
<1>1. CASE c = "phy"
  <2>1. CASE p.step = "INACTIVE"
    <3>1. Error(p).state = "ERROR"
      BY DEF Error, Sound, Ports
    <3>2. StartupWake(p, now, clocked, c) = Error(p)
      BY <1>1, <2>1, <3>1 DEF StartupWake, SetMode, Failed
    <3> QED  BY <3>2, ErrorSound
  <2>2. CASE p.step # "INACTIVE"
    <3> DEFINE w == [p EXCEPT !.step = "WAKE"]
    <3>1. w = p
      BY <2>2 DEF Sound, Ports
    <3>2. Error(p).state = "ERROR"
      BY DEF Error, Sound, Ports
    <3>3. StartupWake(p, now, clocked, c) = Error(p)
      BY <1>1, <2>2, <3>1, <3>2 DEF StartupWake, Send, Failed
    <3> QED  BY <3>3, ErrorSound
  <2> QED  BY <2>1, <2>2
<1>2. CASE c # "phy"
  <2> DEFINE up == IF p.step = "INACTIVE" THEN [p EXCEPT !.phy_mode = "SDCI"] ELSE p
             q == [[up EXCEPT !.step = "WAKE"] EXCEPT !.tx = "wake"]
             w == [q EXCEPT !.step = "SEND_TYPE0"]
             s == [w EXCEPT !.send_ready_at = now + TReady, !.send_ready_valid = TRUE]
  <2>1. /\ up \in Ports /\ up.state = "STARTUP" /\ up.mode = p.mode /\ up.phy_mode = "SDCI"
        /\ up.last_cycle_start = p.last_cycle_start
    <3>1. p.step # "INACTIVE" => p.phy_mode = "SDCI"
      BY DEF Sound, ModesAgree, PhyModeFor
    <3> QED  BY <3>1 DEF Sound, Ports
  <2> HIDE DEF up
  <2>2. /\ q \in Ports /\ q.state = "STARTUP" /\ q.mode = p.mode /\ q.phy_mode = "SDCI"
        /\ q.last_cycle_start = p.last_cycle_start
    BY <2>1 DEF Ports
  <2> HIDE DEF q
  <2>3. /\ w \in Ports /\ w.state = "STARTUP" /\ w.step = "SEND_TYPE0"
        /\ w.mode = p.mode /\ w.phy_mode = "SDCI"
        /\ w.last_cycle_start = p.last_cycle_start
    BY <2>2 DEF Ports
  <2>4. p.mode = "IOLINK"
    BY DEF Sound, ModesAgree
  <2> HIDE DEF w
  <2>5. StartupWake(p, now, clocked, c) = ArmSendGate(w, now, TReady, clocked)
    <3>1. StartupWake(p, now, clocked, c) =
            IF Failed(up) THEN up ELSE IF Failed(q) THEN q
            ELSE ArmSendGate(w, now, TReady, clocked)
      BY <1>2 DEF StartupWake, SetMode, Send, up, q, w
    <3> QED  BY <2>1, <2>2, <3>1 DEF Failed
  <2>6. CASE clocked
    <3>1. now + TReady \in Nat
      BY Bounds
    <3>2. /\ s \in Ports /\ s.state = "STARTUP" /\ s.step = "SEND_TYPE0"
          /\ s.mode = p.mode /\ s.phy_mode = "SDCI"
          /\ s.last_cycle_start = p.last_cycle_start
          /\ s.send_ready_valid = TRUE /\ s.send_ready_at = now + TReady
      BY <2>3, <3>1 DEF Ports
    <3> HIDE DEF s
    <3>3. GateClosed(s, now)
      BY <3>2, Bounds DEF GateClosed
    <3>4. Sound(s, now, clocked)
      BY <2>4, <3>2, <3>3 DEF Sound, Timely, GatePassed, ModesAgree, PhyModeFor
    <3> QED  BY <2>5, <2>6, <3>4 DEF ArmSendGate, s
  <2>7. CASE ~clocked
    <3>1. Sound(w, now, clocked)
      BY <2>3, <2>4, <2>7 DEF Sound, ModesAgree, PhyModeFor
    <3> QED  BY <2>5, <2>7, <3>1 DEF ArmSendGate
  <2> QED  BY <2>6, <2>7
<1> QED  BY <1>1, <1>2

\* The test message, once the gate is open.
LEMMA TestSound ==
    ASSUME NEW p, NEW now \in Nat, NEW clocked \in BOOLEAN, NEW c,
           Sound(p, now, clocked), p.state = "STARTUP", p.step = "SEND_TYPE0",
           clocked => ~Held(p, now)
    PROVE  Sound(StartupTest(p, now, clocked, c), now, clocked)
<1> DEFINE q == Send(p, "test", c)
           sent == [q EXCEPT !.step = "AWAIT_RESPONSE"]
           s == [sent EXCEPT !.response_deadline = now + TestTimeout,
                             !.awaiting_response = TRUE]
<1>1. Sound(q, now, clocked)
  BY SendSound
<1>2. StartupTest(p, now, clocked, c) =
        IF Failed(q) THEN q ELSE IF clocked THEN s ELSE sent
  BY DEF StartupTest
<1>3. CASE c = "phy"
  <2>1. Failed(q)
    BY <1>3 DEF Send, Error, Failed, Sound, Ports
  <2> QED  BY <1>1, <1>2, <2>1
<1>4. CASE c # "phy"
  <2>1. /\ q \in Ports /\ q.state = "STARTUP" /\ q.step = "SEND_TYPE0"
        /\ q.send_ready_at = p.send_ready_at /\ q.send_ready_valid = p.send_ready_valid
    BY <1>4 DEF Send, Sound, Ports
  <2> HIDE DEF q
  <2>2. /\ sent \in Ports /\ sent.state = "STARTUP" /\ sent.step = "AWAIT_RESPONSE"
        /\ sent.mode = q.mode /\ sent.phy_mode = q.phy_mode
        /\ sent.last_cycle_start = q.last_cycle_start
        /\ sent.send_ready_valid = q.send_ready_valid
        /\ sent.send_ready_at = q.send_ready_at
    BY <2>1 DEF Ports
  <2> HIDE DEF sent
  <2>3. CASE clocked
    <3>1. now + TestTimeout \in Nat
      BY Bounds
    <3>2. /\ s \in Ports /\ s.state = "STARTUP" /\ s.step = "AWAIT_RESPONSE"
          /\ s.mode = q.mode /\ s.phy_mode = q.phy_mode
          /\ s.last_cycle_start = q.last_cycle_start
          /\ s.send_ready_valid = q.send_ready_valid
          /\ s.send_ready_at = q.send_ready_at
          /\ s.awaiting_response = TRUE
      BY <2>2, <3>1 DEF Ports
    <3> HIDE DEF s
    <3>3. /\ GateClosed(q, now) /\ q.send_ready_at \in Nat
          /\ ~(Stamp(now) < Stamp(q.send_ready_at))
      BY <1>1, <2>1, <2>3 DEF Sound, Timely, GateClosed, Held, Ports
    <3>4. q.send_ready_at <= now \/ Stamp(q.send_ready_at) < TReady
      BY <3>3, GateOpens DEF GateClosed
    <3>5. Sound(s, now, clocked)
      BY <1>1, <2>1, <3>2, <3>3, <3>4
         DEF Sound, Timely, GatePassed, GateClosed, ModesAgree
    <3> QED  BY <1>2, <2>1, <2>3, <3>5 DEF Failed
  <2>4. CASE ~clocked
    <3>1. Sound(sent, now, clocked)
      BY <1>1, <2>1, <2>2, <2>4 DEF Sound, ModesAgree
    <3> QED  BY <1>2, <2>1, <2>4, <3>1 DEF Failed
  <2> QED  BY <2>3, <2>4
<1> QED  BY <1>3, <1>4

\* The message of the port's state is sent, unless the gate is closed.
LEMMA ProcessSound ==
    ASSUME NEW p, NEW now \in Nat, NEW clocked \in BOOLEAN, NEW c,
           Sound(p, now, clocked)
    PROVE  Sound(ProcessAt(p, now, clocked, c), now, clocked)
<1>1. CASE clocked /\ Held(p, now)
  BY <1>1 DEF ProcessAt
<1>2. CASE ~(clocked /\ Held(p, now))
  <2>1. CASE p.state = "STARTUP" /\ p.step \in {"INACTIVE", "WAKE"}
    <3>1. ProcessAt(p, now, clocked, c) = StartupWake(p, now, clocked, c)
      BY <1>2, <2>1 DEF ProcessAt
    <3> QED  BY <2>1, <3>1, WakeSound
  <2>2. CASE p.state = "STARTUP" /\ p.step = "SEND_TYPE0"
    <3>1. ProcessAt(p, now, clocked, c) = StartupTest(p, now, clocked, c)
      BY <1>2, <2>2 DEF ProcessAt
    <3> QED  BY <1>2, <2>2, <3>1, TestSound
  <2>3. CASE p.state = "PREOPERATE"
    <3> DEFINE q == Send(p, "operate", c)
               s == [q EXCEPT !.step = "AWAIT_OPERATE_ACK"]
    <3>1. ProcessAt(p, now, clocked, c) = IF Failed(q) THEN q ELSE s
      BY <1>2, <2>3 DEF ProcessAt, Preoperate
    <3>2. Sound(q, now, clocked)
      BY SendSound
    <3>3. q.state \in {"PREOPERATE", "ERROR"}
      BY <2>3 DEF Send, Error, Sound, Ports
    <3> HIDE DEF q
    <3>4. /\ s \in Ports /\ s.state = q.state /\ s.step = "AWAIT_OPERATE_ACK"
          /\ s.last_cycle_start = q.last_cycle_start
          /\ s.mode = q.mode /\ s.phy_mode = q.phy_mode
          /\ s.awaiting_response = q.awaiting_response
          /\ s.response_deadline = q.response_deadline
          /\ s.send_ready_valid = q.send_ready_valid
          /\ s.send_ready_at = q.send_ready_at
      BY <3>2 DEF Sound, Ports
    <3> HIDE DEF s
    <3>5. Sound(s, now, clocked)
      BY <3>2, <3>3, <3>4 DEF Sound, Timely, GatePassed, GateClosed, ModesAgree
    <3> QED  BY <3>1, <3>2, <3>5
  <2>4. CASE p.state = "OPERATE"
    <3>1. ProcessAt(p, now, clocked, c) = Send(p, "cyclic", c)
      BY <1>2, <2>4 DEF ProcessAt
    <3> QED  BY <3>1, SendSound
  <2>5. CASE /\ ~(p.state = "STARTUP" /\ p.step \in {"INACTIVE", "WAKE", "SEND_TYPE0"})
             /\ p.state \notin {"PREOPERATE", "OPERATE"}
    <3>1. ProcessAt(p, now, clocked, c) = p
      BY <1>2, <2>5 DEF ProcessAt
    <3> QED  BY <3>1
  <2> QED  BY <2>1, <2>2, <2>3, <2>4, <2>5
<1> QED  BY <1>1, <1>2

\* The time between two cycles is a number, and so is the jitter.
LEMMA JitterType ==
    ASSUME NEW p, NEW now \in Nat, p \in Ports, p.last_cycle_start <= now
    PROVE  CycleJitterAt(p, now) \in Nat
<1>1. p.last_cycle_start \in Nat
  BY DEF Ports
<1>2. Since(p.last_cycle_start, now) \in Nat
  BY <1>1, SinceExact
<1> QED  BY <1>2, Bounds DEF CycleJitterAt

LEMMA CycleSound ==
    ASSUME NEW p, NEW now \in Nat, NEW clocked \in BOOLEAN, NEW c,
           Sound(p, now, clocked)
    PROVE  Sound(CycleTick(p, now, clocked, c), now, clocked)
<1> DEFINE q == ProcessAt(p, now, clocked, c)
           j == CycleJitterAt(p, now)
           s == CycleStarted(q, j, now)
<1>1. Sound(q, now, clocked)
  BY ProcessSound
<1>2. j \in Nat
  BY JitterType DEF Sound
<1> HIDE DEF q, j
<1>3. now + ResponseTimeout \in Nat
  BY Bounds
<1>4. /\ s \in Ports /\ s.state = q.state /\ s.step = q.step
      /\ s.last_cycle_start = now
      /\ s.mode = q.mode /\ s.phy_mode = q.phy_mode
      /\ s.awaiting_response = TRUE /\ s.response_deadline = now + ResponseTimeout
      /\ s.send_ready_valid = q.send_ready_valid /\ s.send_ready_at = q.send_ready_at
  BY <1>1, <1>2, <1>3 DEF CycleStarted, Sound, Ports
<1> HIDE DEF s
<1>5. Sound(s, now, clocked)
  BY <1>1, <1>4 DEF Sound, Timely, GatePassed, GateClosed, ModesAgree
<1>6. CycleTick(p, now, clocked, c) =
        IF p.awaiting_response \/ (clocked /\ ~CycleDueAt(p, now)) THEN p
        ELSE IF clocked /\ q.tx = "cyclic" THEN s ELSE q
  BY DEF CycleTick, q, j, s
<1> QED  BY <1>1, <1>5, <1>6

\* A tick of a port.
LEMMA TickSound ==
    ASSUME NEW p, NEW now \in Nat, NEW clocked \in BOOLEAN, NEW c, NEW event,
           Sound(p, now, clocked)
    PROVE  Sound(TickCommon(p, event, clocked, now, c), now, clocked)
<1> DEFINE r == PollRx([p EXCEPT !.tx = "none", !.jitter = 0], c)
<1>1. Sound(r, now, clocked)
  BY ClearSound, PollSound
<1> HIDE DEF r
<1>2. \/ TickCommon(p, event, clocked, now, c) = r
      \/ TickCommon(p, event, clocked, now, c) = TimeoutTick(r, now, clocked, c)
      \/ TickCommon(p, event, clocked, now, c) = CycleTick(r, now, clocked, c)
  BY DEF TickCommon, r
<1> QED  BY <1>1, <1>2, TimeoutSound, CycleSound

\* An initialisation leaves a port sound whenever it goes as far as its storage.
LEMMA PortInitSound ==
    ASSUME NEW p \in Ports, NEW now \in Nat, NEW clocked \in BOOLEAN,
           NEW mode \in PortModes, NEW c, c # "refused"
    PROVE  Sound(PortInit(p, mode, c), now, clocked)
<1> DEFINE new == [BlankPort EXCEPT
                     !.mode = mode, !.phy_mode = p.phy_mode,
                     !.state = IF mode = "IOLINK" THEN "STARTUP" ELSE "INACTIVE"]
           up == [new EXCEPT !.phy_mode = PhyModeFor(mode)]
<1>1. BlankPort \in Ports
  BY Bounds DEF BlankPort, Ports, PortModes
<1>2. /\ new \in Ports /\ new.mode = mode /\ new.last_cycle_start = 0 /\ new.step = "WAKE"
      /\ new.state = IF mode = "IOLINK" THEN "STARTUP" ELSE "INACTIVE"
  <2>1. BlankPort.last_cycle_start = 0 /\ BlankPort.step = "WAKE"
    BY DEF BlankPort
  <2>2. p.phy_mode \in {"INACTIVE", "SIO", "SDCI"}
    BY DEF Ports
  <2> DEFINE s == IF mode = "IOLINK" THEN "STARTUP" ELSE "INACTIVE"
             b == BlankPort
             m == p.phy_mode
  <2>3. s \in {"STARTUP", "INACTIVE"} /\ b \in Ports
    BY <1>1
  <2>4. new = [b EXCEPT !.mode = mode, !.phy_mode = m, !.state = s]
    OBVIOUS
  <2> HIDE DEF s, b, m, new
  <2> DEFINE b1 == [b EXCEPT !.mode = mode]
             b2 == [b1 EXCEPT !.phy_mode = m]
             b3 == [b2 EXCEPT !.state = s]
  <2>5. m \in {"INACTIVE", "SIO", "SDCI"}
    BY <2>2 DEF m
  <2>6. /\ b1 \in Ports /\ b1.mode = mode
        /\ b1.last_cycle_start = b.last_cycle_start /\ b1.step = b.step
    BY <2>3 DEF Ports
  <2> HIDE DEF b1
  <2>7. /\ b2 \in Ports /\ b2.mode = b1.mode
        /\ b2.last_cycle_start = b1.last_cycle_start /\ b2.step = b1.step
    BY <2>5, <2>6 DEF Ports
  <2> HIDE DEF b2
  <2>8. /\ b3 \in Ports /\ b3.mode = b2.mode /\ b3.state = s
        /\ b3.last_cycle_start = b2.last_cycle_start /\ b3.step = b2.step
    BY <2>3, <2>7 DEF Ports
  <2>9. new = b3
    BY <2>4 DEF b1, b2
  <2> HIDE DEF b3
  <2>10. /\ new \in Ports /\ new.mode = mode /\ new.state = s
        /\ new.last_cycle_start = b.last_cycle_start /\ new.step = b.step
    BY <2>6, <2>7, <2>8, <2>9
  <2> QED  BY <2>1, <2>10 DEF s, b
<1> HIDE DEF new
<1>3. PhyModeFor(mode) \in {"INACTIVE", "SIO", "SDCI"}
  BY DEF PhyModeFor, PortModes
<1>4. /\ up \in Ports /\ up.mode = mode /\ up.last_cycle_start = 0 /\ up.step = "WAKE"
      /\ up.state = new.state /\ up.phy_mode = PhyModeFor(mode)
  BY <1>2, <1>3 DEF Ports
<1> HIDE DEF up
<1>5. Sound(up, now, clocked)
  BY <1>2, <1>4 DEF Sound, Timely, GatePassed, ModesAgree
<1>6. Sound(Error(new), now, clocked)
  <2>1. /\ Error(new) \in Ports /\ Error(new).state = "ERROR"
        /\ Error(new).last_cycle_start = 0
    BY <1>2 DEF Error, Ports
  <2> QED  BY <2>1 DEF Sound, Timely, GatePassed, ModesAgree
<1>7. \/ PortInit(p, mode, c) = Error(new)
      \/ PortInit(p, mode, c) = up
  BY DEF PortInit, SetMode, new, up
<1> QED  BY <1>5, <1>6, <1>7

-----------------------------------------------------------------------------
(* The controller.                                                         *)

\* A set of numbers has a least one.
LEMMA LeastNumber ==
    ASSUME NEW S, S \subseteq Nat, S # {}
    PROVE  Min(S) \in S /\ \A y \in S : Min(S) <= y
<1>1. PICK x \in S : \A y \in S : ~(<<y, x>> \in OpToRel(<, Nat))
  BY WFMin, NatLessThanWellFounded
<1>2. ASSUME NEW y \in S  PROVE  x <= y
  <2>1. x \in Nat /\ y \in Nat
    OBVIOUS
  <2>2. <<y, x>> \in OpToRel(<, Nat) <=> y < x
    BY <2>1 DEF OpToRel
  <2>3. ~(y < x)
    BY <1>1, <2>2, Zenon
  <2> QED  BY <2>1, <2>3
<1> QED  BY <1>2 DEF Min

\* The ports before the first that failed were initialised.
LEMMA CountedOk ==
    ASSUME NEW cs
    PROVE  /\ FirstFailed(cs) \in 1..(N + 1) /\ Counted(cs) \in 0..N
           /\ \A i \in 1..N : i <= Counted(cs) => cs[i] = "ok"
<1> DEFINE S == {i \in 1..N : cs[i] # "ok"} \cup {N + 1}
<1>1. N \in Nat
  BY ControllerAssumption
<1>2. S \subseteq Nat /\ S # {} /\ S \subseteq 1..(N + 1)
  BY <1>1
<1>3. FirstFailed(cs) \in S /\ \A y \in S : FirstFailed(cs) <= y
  BY <1>2, LeastNumber DEF FirstFailed
<1>4. FirstFailed(cs) \in 1..(N + 1) /\ Counted(cs) \in 0..N
  BY <1>1, <1>2, <1>3 DEF Counted
<1>5. ASSUME NEW i \in 1..N, i <= Counted(cs), cs[i] # "ok"  PROVE  FALSE
  <2>1. FirstFailed(cs) <= i
    BY <1>3, <1>5
  <2> QED  BY <1>1, <1>4, <1>5, <2>1 DEF Counted
<1> QED  BY <1>4, <1>5

LEMMA PortTypes ==
    ASSUME Inv
    PROVE  \A i \in 1..N : ports[i] \in Ports /\ ports[i].last_cycle_start <= time
BY ControllerAssumption DEF Inv, Sound, Unused

LEMMA TimeTypes ==
    ASSUME Inv, NEW i \in 1..N
    PROVE  /\ ports[i].last_cycle_start \in Nat /\ ports[i].send_ready_at \in Nat
           /\ ports[i].response_deadline \in Nat /\ time \in Nat
<1>1. ports[i] \in Ports
  BY PortTypes
<1>2. time \in Nat
  BY ControllerAssumption DEF Inv
<1> QED  BY <1>1, <1>2 DEF Ports

LEMMA InitInv == Init => Inv
<1> SUFFICES ASSUME Init  PROVE  Inv
  OBVIOUS
<1>1. Unused(BlankPort)
  BY Bounds DEF Unused, BlankPort, Ports, PortModes
<1>2. /\ count = 0 /\ touched = 0 /\ time \in 0..MaxTime /\ timed \in BOOLEAN /\ N \in Nat
      /\ ports = [k \in 1..N |-> ports[k]] /\ \A i \in 1..N : ports[i] = BlankPort
  BY ControllerAssumption DEF Init
<1> QED  BY <1>1, <1>2 DEF Inv

LEMMA ControllerInitInv ==
    ASSUME Inv, NEW cs \in [1..N -> InitOutcomes], ControllerInit(cs)
    PROVE  Inv'
<1> DEFINE q(i) == PortInit(ports[i], ModeOf[i], cs[i])
<1>1. /\ FirstFailed(cs) \in 1..(N + 1) /\ Counted(cs) \in 0..N /\ N \in Nat
      /\ Counted(cs) = FirstFailed(cs) - 1
      /\ \A i \in 1..N : i <= Counted(cs) => cs[i] = "ok"
  BY CountedOk, ControllerAssumption DEF Counted
<1>2. /\ ports' = [k \in 1..N |-> ports'[k]] /\ count' = Counted(cs) /\ touched' = 0
      /\ \A i \in 1..N : ports'[i] = IF i <= FirstFailed(cs) THEN q(i) ELSE ports[i]
      /\ time' = time /\ timed' = timed /\ time \in Nat
  BY ControllerAssumption DEF ControllerInit, InitPorts, Inv
<1>3. ASSUME NEW i \in 1..N
      PROVE  Sound(ports'[i], time', timed') \/ (i > count' /\ Unused(ports'[i]))
  <2>1. ports[i] \in Ports /\ ModeOf[i] \in PortModes
    BY PortTypes, ControllerAssumption
  <2>2. CASE i <= FirstFailed(cs) /\ cs[i] # "refused"
    <3>1. Sound(q(i), time, timed)
      BY <1>2, <2>1, <2>2, PortInitSound DEF Inv
    <3> HIDE DEF q
    <3> QED  BY <1>2, <2>2, <3>1
  <2>3. CASE ~(i <= FirstFailed(cs) /\ cs[i] # "refused")
    <3>1. ports'[i] = ports[i]
      BY <1>2, <2>3 DEF PortInit
    <3>2. i > Counted(cs)
      BY <1>1, <2>3
    <3>3. Sound(ports[i], time, timed) \/ Unused(ports[i])
      BY DEF Inv
    <3> QED  BY <1>2, <3>1, <3>2, <3>3
  <2> QED  BY <2>2, <2>3
<1> HIDE DEF q
<1>4. /\ count' \in 0..N /\ time' \in 0..MaxTime /\ timed' \in BOOLEAN
      /\ touched' \in 0..N /\ (touched' # 0 => ports'[touched'].mode \in {"DI", "DQ"})
  BY <1>1, <1>2 DEF Inv
<1> QED  BY <1>2, <1>3, <1>4 DEF Inv

\* A tick of the counted ports, whatever the events.
LEMMA TickPortsInv ==
    ASSUME Inv, NEW events, NEW cs, ports' = TickPorts(events, cs),
           touched' = 0, UNCHANGED <<count, time, timed>>
    PROVE  Inv'
<1> DEFINE q(i) == TickCommon(ports[i], events[i], timed, time, cs[i])
<1>1. /\ ports' = [k \in 1..N |-> ports'[k]]
      /\ \A i \in 1..N : ports'[i] = IF i <= count THEN q(i) ELSE ports[i]
      /\ time \in Nat /\ N \in Nat /\ count \in 0..N /\ timed \in BOOLEAN
  BY ControllerAssumption DEF TickPorts, Inv
<1>2. ASSUME NEW i \in 1..N
      PROVE  Sound(ports'[i], time, timed) \/ (i > count /\ Unused(ports'[i]))
  <2>1. CASE i <= count
    <3>1. Sound(ports[i], time, timed)
      BY <1>1, <2>1 DEF Inv
    <3>2. Sound(q(i), time, timed)
      BY <1>1, <3>1, TickSound
    <3> HIDE DEF q
    <3> QED  BY <1>1, <2>1, <3>2
  <2>2. CASE ~(i <= count)
    BY <1>1, <2>2 DEF Inv
  <2> QED  BY <2>1, <2>2
<1> HIDE DEF q
<1>3. /\ count' \in 0..N /\ time' \in 0..MaxTime /\ timed' \in BOOLEAN
      /\ touched' \in 0..N /\ (touched' # 0 => ports'[touched'].mode \in {"DI", "DQ"})
  BY <1>1 DEF Inv
<1> QED  BY <1>1, <1>2, <1>3 DEF Inv

LEMMA SetPortModeInv ==
    ASSUME Inv, NEW i \in 1..N, NEW mode \in PortModes,
           NEW c \in InitOutcomes \ {"refused"}, SetPortMode(i, mode, c)
    PROVE  Inv'
<1>1. /\ ports' = [k \in 1..N |-> ports'[k]] /\ ports'[i] = PortInit(ports[i], mode, c)
      /\ \A k \in 1..N \ {i} : ports'[k] = ports[k]
      /\ touched' = 0 /\ count' = count /\ time' = time /\ timed' = timed
      /\ time \in Nat /\ N \in Nat /\ timed \in BOOLEAN
  <2>1. /\ ports = [k \in 1..N |-> ports[k]]
        /\ time \in Nat /\ N \in Nat /\ timed \in BOOLEAN
    BY ControllerAssumption DEF Inv
  <2>2. ports' = [ports EXCEPT ![i] = PortInit(ports[i], mode, c)]
    BY DEF SetPortMode
  <2>3. /\ ports' = [k \in 1..N |-> ports'[k]] /\ ports'[i] = PortInit(ports[i], mode, c)
        /\ \A k \in 1..N \ {i} : ports'[k] = ports[k]
    BY <2>1, <2>2
  <2> QED  BY <2>1, <2>3 DEF SetPortMode
<1>2. Sound(ports'[i], time, timed)
  BY <1>1, PortTypes, PortInitSound
<1>3. \A k \in 1..N : Sound(ports'[k], time, timed) \/ (k > count /\ Unused(ports'[k]))
  BY <1>1, <1>2 DEF Inv
<1> QED  BY <1>1, <1>3 DEF Inv

LEMMA TouchLineInv ==
    ASSUME Inv, NEW i \in 1..N, NEW mode \in {"DI", "DQ"}, TouchLine(i, mode)
    PROVE  Inv'
<1>1. /\ touched' = i /\ ports[i].mode \in {"DI", "DQ"} /\ touched' \in 0..N
      /\ ports' = ports /\ count' = count /\ time' = time /\ timed' = timed
  BY ControllerAssumption DEF TouchLine, CanTouch
<1> QED  BY <1>1 DEF Inv

LEMMA ElapseInv ==
    ASSUME Inv, Elapse
    PROVE  Inv'
<1> DEFINE q(i) == [ports[i] EXCEPT !.tx = "none", !.jitter = 0]
<1>1. /\ ports' = [k \in 1..N |-> ports'[k]] /\ \A i \in 1..N : ports'[i] = q(i)
      /\ touched' = 0 /\ count' = count /\ time' = time + 1 /\ timed' = timed
      /\ time \in Nat /\ time + 1 \in 0..MaxTime /\ N \in Nat /\ timed \in BOOLEAN
  <2>1. time \in 0..MaxTime /\ MaxTime \in Nat /\ N \in Nat /\ timed \in BOOLEAN
    BY ControllerAssumption DEF Inv
  <2>2. time \in Nat /\ time + 1 \in 0..MaxTime
    <3>1. time < MaxTime
      BY Zenon DEF Elapse
    <3> QED  BY <2>1, <3>1
  <2> QED  BY <2>1, <2>2 DEF Elapse
<1>2. ASSUME NEW i \in 1..N, Sound(ports[i], time, timed)
      PROVE  Sound(q(i), time + 1, timed)
  <2>1. Sound(q(i), time, timed)
    <3>1. time \in Nat /\ timed \in BOOLEAN
      BY <1>1
    <3>2. \A p : Sound(p, time, timed)
                  => Sound([p EXCEPT !.tx = "none", !.jitter = 0], time, timed)
      BY <3>1, ClearSound
    <3> QED  BY <1>2, <3>2, Zenon
  <2> HIDE DEF q
  <2>2. time + 1 \in Nat /\ time <= time + 1
    BY <1>1
  <2> QED  BY <1>1, <2>1, <2>2, LaterSound
<1>3. ASSUME NEW i \in 1..N, Unused(ports[i])
      PROVE  Unused(q(i))
  BY <1>3 DEF Unused, Ports
<1> HIDE DEF q
<1>4. \A i \in 1..N : Sound(ports'[i], time', timed) \/ (i > count /\ Unused(ports'[i]))
  BY <1>1, <1>2, <1>3 DEF Inv
<1> QED  BY <1>1, <1>4 DEF Inv

LEMMA NextInv == Inv /\ [Next]_vars => Inv'
<1> SUFFICES ASSUME Inv, [Next]_vars  PROVE  Inv'
  OBVIOUS
<1>1. CASE \E cs \in [1..N -> InitOutcomes] : ControllerInit(cs)
  BY <1>1, ControllerInitInv
<1>2. CASE \E cs \in [1..N -> Outcomes] : TickAt(cs)
  BY <1>2, TickPortsInv DEF TickAt
<1>3. CASE \E cs \in [1..N -> Outcomes],
              events \in [1..N -> {"NONE", "CYCLE_DUE", "RESPONSE_TIMEOUT"}] :
              TickEvents(events, cs)
  BY <1>3, TickPortsInv DEF TickEvents
<1>4. CASE \E i \in 1..N, mode \in PortModes, c \in InitOutcomes \ {"refused"} :
              SetPortMode(i, mode, c)
  BY <1>4, SetPortModeInv
<1>5. CASE \E i \in 1..N, mode \in {"DI", "DQ"} : TouchLine(i, mode)
  BY <1>5, TouchLineInv
<1>6. CASE Elapse
  BY <1>6, ElapseInv
<1>7. CASE UNCHANGED vars
  BY <1>7 DEF vars, Inv
<1> QED  BY <1>1, <1>2, <1>3, <1>4, <1>5, <1>6, <1>7 DEF Next

LEMMA SpecInv == Spec => []Inv
BY InitInv, NextInv, PTL DEF Spec

-----------------------------------------------------------------------------
(* What the controller keeps to.                                           *)

\* Every value stays within its type: the retry counters of each port within
\* their limits, however many ticks, failures and mode changes there are.
THEOREM ControllerTypeCorrect == Spec => []ControllerTypeOK
<1>1. Inv => ControllerTypeOK
  <2> SUFFICES ASSUME Inv  PROVE  ControllerTypeOK
    OBVIOUS
  <2>1. /\ ports = [k \in 1..N |-> ports[k]]
        /\ count \in 0..N /\ touched \in 0..N /\ time \in 0..MaxTime
    BY DEF Inv
  <2> QED  BY <2>1, PortTypes DEF ControllerTypeOK
<1> QED  BY <1>1, SpecInv, PTL

\* The ports that are counted were initialised, and the PHY of each is in the
\* mode of the port unless the port has failed.
THEOREM ConsistentPorts == Spec => []PortsConsistent
<1>1. Inv => PortsConsistent
  <2> SUFFICES ASSUME Inv, NEW i \in 1..count  PROVE  ModesAgree(ports[i])
    BY DEF PortsConsistent
  <2>1. i \in 1..N /\ ~(i > count)
    BY ControllerAssumption DEF Inv
  <2> QED  BY <2>1 DEF Inv, Sound
<1> QED  BY <1>1, SpecInv, PTL

\* The line is set or read only in SIO mode, or on a port that has failed.
THEOREM LineInSio == Spec => []LineTouchedInSio
<1>1. Inv => LineTouchedInSio
  <2> SUFFICES ASSUME Inv, touched # 0
               PROVE  ports[touched].phy_mode = "SIO" \/ ports[touched].state = "ERROR"
    BY DEF LineTouchedInSio
  <2>1. touched \in 1..N /\ ports[touched].mode \in {"DI", "DQ"}
    BY ControllerAssumption DEF Inv
  <2>2. ModesAgree(ports[touched])
    BY <2>1 DEF Inv, Sound, Unused
  <2> QED  BY <2>1, <2>2 DEF ModesAgree, PhyModeFor
<1> QED  BY <1>1, SpecInv, PTL

\* A port on a clock is sound when it is in OPERATE.
LEMMA OperateSound ==
    ASSUME Inv, NEW i \in 1..N, ports[i].state # "INACTIVE"
    PROVE  Sound(ports[i], time, timed)
BY DEF Inv, Unused

\* A cycle is given up no earlier than its response timeout allows, unless the
\* deadline lies beyond the end of the lap.
THEOREM TimeoutsNotEarly == Spec => []TimeoutNotEarly
<1>1. Inv => TimeoutNotEarly
  <2> SUFFICES ASSUME Inv, NEW i \in 1..N, timed, ports[i].state = "OPERATE",
                      ResponseDueAt(ports[i], time)
               PROVE  \/ time >= ports[i].last_cycle_start + ResponseTimeout
                      \/ Lap(time) < Lap(ports[i].last_cycle_start + ResponseTimeout)
    BY DEF TimeoutNotEarly
  <2> DEFINE end == ports[i].last_cycle_start + ResponseTimeout
  <2>1. /\ ports[i].awaiting_response /\ ports[i].response_deadline = end
        /\ Stamp(time) >= Stamp(end)
    BY OperateSound DEF Sound, Timely, ResponseDueAt
  <2>2. end \in Nat /\ time \in Nat
    <3>1. ports[i].last_cycle_start \in Nat /\ time \in Nat
      BY TimeTypes
    <3> QED  BY <3>1, Bounds
  <2> HIDE DEF end
  <2>3. /\ Stamp(time) \in Nat /\ Stamp(end) \in Nat /\ Lap(time) \in Nat /\ Lap(end) \in Nat
        /\ time = ClockRange * Lap(time) + Stamp(time)
    BY <2>2, DivMod
  <2>4. Lap(time) = Lap(end) => end <= time
    BY <2>1, <2>2, <2>3, LapOrder
  <2>5. Lap(end) < Lap(time) => end <= time
    <3>1. Lap(end) < Lap(time) => end < ClockRange * Lap(time)
      BY <2>2, LapOrder
    <3>2. ClockRange * Lap(time) \in Nat
      BY <2>3, Bounds
    <3> QED  BY <2>2, <2>3, <3>1, <3>2
  <2>6. end <= time \/ Lap(time) < Lap(end)
    BY <2>3, <2>4, <2>5
  <2> QED  BY <2>2, <2>6 DEF end
<1> QED  BY <1>1, SpecInv, PTL

\* A port in OPERATE is held back by the send gate of its startup only when the
\* clock has gone round.
THEOREM CyclesFree == Spec => []CyclesNotHeld
<1>1. Inv => CyclesNotHeld
  <2> SUFFICES ASSUME Inv, NEW i \in 1..N, timed, ports[i].state = "OPERATE",
                      Held(ports[i], time)
               PROVE  \/ Lap(ports[i].send_ready_at) < Lap(time)
                      \/ /\ time < ports[i].send_ready_at
                         /\ Stamp(ports[i].send_ready_at) < TReady
    BY DEF CyclesNotHeld
  <2>1. \/ ports[i].send_ready_at <= time
        \/ Stamp(ports[i].send_ready_at) < TReady
    BY OperateSound DEF Sound, Timely, GatePassed
  <2>2. ports[i].send_ready_at \in Nat /\ time \in Nat
    BY TimeTypes
  <2>3. Stamp(time) < Stamp(ports[i].send_ready_at)
    BY DEF Held
  <2> QED  BY <2>1, <2>2, <2>3, GateCloses
<1> QED  BY <1>1, SpecInv, PTL

-----------------------------------------------------------------------------
(* Pacing.                                                                 *)

\* Receiving sends nothing and leaves the cycle timer alone.
LEMMA PollKeeps ==
    ASSUME NEW p \in Ports, NEW c
    PROVE  LET r == PollRx(p, c)
           IN  /\ r.tx = p.tx /\ r.last_cycle_start = p.last_cycle_start
               /\ r.cycle_timer_valid = p.cycle_timer_valid
<1>1. PollRx(p, c) \in {p, OnReply(p), OnGarbled(p), Error(p)}
  BY DEF PollRx
<1>2. CASE PollRx(p, c) = OnReply(p)
  BY <1>2 DEF OnReply, Ports
<1>3. CASE PollRx(p, c) = OnGarbled(p)
  BY <1>3 DEF OnGarbled, RestartEstablish, ArmSendGate, Ports
<1>4. CASE PollRx(p, c) = Error(p)
  BY <1>4 DEF Error, Ports
<1> QED  BY <1>1, <1>2, <1>3, <1>4

\* A timeout sends nothing.
LEMMA TimeoutKeeps ==
    ASSUME NEW p \in Ports, NEW now, NEW clocked \in BOOLEAN, NEW c
    PROVE  TimeoutTick(p, now, clocked, c).tx = p.tx
<1> DEFINE q == [p EXCEPT !.awaiting_response = FALSE]
<1>1. q \in Ports /\ q.tx = p.tx
  BY DEF Ports
<1> HIDE DEF q
<1>2. OnTimeoutAt(q, now, clocked, c)
        \in {Error(q), [q EXCEPT !.rx_retry_count = @ + 1],
             RestartEstablish(q, now, clocked),
             EstablishAttemptFailed(q, now, clocked, c), q}
  BY DEF OnTimeoutAt
<1>3. Error(q).tx = q.tx /\ [q EXCEPT !.rx_retry_count = @ + 1].tx = q.tx
  BY <1>1 DEF Error, Ports
<1>4. RestartEstablish(q, now, clocked).tx = q.tx
  BY <1>1 DEF RestartEstablish, ArmSendGate, Ports
<1>5. EstablishAttemptFailed(q, now, clocked, c).tx = q.tx
  BY <1>1 DEF EstablishAttemptFailed, ArmSendGate, SetMode, Error, Failed, Ports
<1> QED  BY <1>1, <1>2, <1>3, <1>4, <1>5 DEF TimeoutTick, q

\* Only a port in OPERATE sends a cyclic frame.
LEMMA ProcessFrame ==
    ASSUME NEW p \in Ports, NEW now, NEW clocked \in BOOLEAN, NEW c,
           p.tx = "none", ProcessAt(p, now, clocked, c).tx = "cyclic"
    PROVE  p.state = "OPERATE"
<1> SUFFICES ASSUME p.state # "OPERATE"  PROVE  FALSE
  OBVIOUS
<1>1. ProcessAt(p, now, clocked, c)
        \in {p, StartupWake(p, now, clocked, c), StartupTest(p, now, clocked, c),
             Preoperate(p, c)}
  BY DEF ProcessAt
<1>2. StartupWake(p, now, clocked, c).tx # "cyclic"
  BY DEF StartupWake, SetMode, Send, Error, Failed, ArmSendGate, Ports
<1>3. StartupTest(p, now, clocked, c).tx # "cyclic"
  BY DEF StartupTest, Send, Error, Failed, Ports
<1>4. Preoperate(p, c).tx # "cyclic"
  BY DEF Preoperate, Send, Error, Failed, Ports
<1> QED  BY <1>1, <1>2, <1>3, <1>4

\* A tick of a port that sends a cyclic frame does so a minimum cycle time after
\* the last, and records the delay.
LEMMA TickPaced ==
    ASSUME NEW p, NEW now \in Nat, NEW c, NEW event, Sound(p, now, TRUE),
           p.cycle_timer_valid, TickCommon(p, event, TRUE, now, c).tx = "cyclic"
    PROVE  LET elapsed == now - p.last_cycle_start
           IN  /\ elapsed >= MinCycle
               /\ elapsed < ClockRange
                    => TickCommon(p, event, TRUE, now, c).jitter = elapsed - MinCycle
<1> DEFINE s == TickCommon(p, event, TRUE, now, c)
           clear == [p EXCEPT !.tx = "none", !.jitter = 0]
           r == PollRx(clear, c)
           q == ProcessAt(r, now, TRUE, c)
           lcs == p.last_cycle_start
<1>1. /\ p \in Ports /\ clear \in Ports /\ clear.tx = "none"
      /\ clear.last_cycle_start = lcs /\ clear.cycle_timer_valid = TRUE
      /\ lcs \in Nat /\ lcs <= now
  BY DEF Sound, Ports
<1>2. Sound(clear, now, TRUE)
  BY ClearSound
<1> HIDE DEF clear, lcs
<1>3. /\ Sound(r, now, TRUE) /\ r \in Ports /\ r.tx = "none"
      /\ r.last_cycle_start = lcs /\ r.cycle_timer_valid = TRUE
  BY <1>1, <1>2, PollSound, PollKeeps DEF Sound
<1>4. Sound(q, now, TRUE) /\ q \in Ports
  BY <1>3, ProcessSound DEF Sound
<1> HIDE DEF r
<1>5. s \in {r, TimeoutTick(r, now, TRUE, c), CycleTick(r, now, TRUE, c)}
  BY DEF TickCommon, r, clear
<1>6. s = CycleTick(r, now, TRUE, c)
  <2>1. s.tx = "cyclic" /\ TimeoutTick(r, now, TRUE, c).tx = "none"
    BY <1>3, TimeoutKeeps
  <2> HIDE DEF s
  <2> QED  BY <1>3, <1>5, <2>1
<1> HIDE DEF q
<1>7. CycleTick(r, now, TRUE, c) =
        IF r.awaiting_response \/ ~CycleDueAt(r, now) THEN r
        ELSE IF q.tx = "cyclic" THEN CycleStarted(q, CycleJitterAt(r, now), now) ELSE q
  BY DEF CycleTick, q
<1>8. CycleDueAt(r, now) /\ q.tx = "cyclic" /\ s = CycleStarted(q, CycleJitterAt(r, now), now)
  BY <1>3, <1>6, <1>7
<1>9. r.state = "OPERATE"
  BY <1>3, <1>8, ProcessFrame DEF q
<1>10. Paced(r) /\ Since(lcs, now) >= MinCycle
  BY <1>3, <1>8, <1>9 DEF Paced, CycleDueAt
<1>11. s.jitter = CycleJitterAt(r, now)
  BY <1>4, <1>8 DEF CycleStarted, Ports
<1>12. /\ Since(lcs, now) \in Nat /\ Since(lcs, now) <= now - lcs
       /\ now - lcs < ClockRange => Since(lcs, now) = now - lcs
  BY <1>1, SinceExact
<1>13. CycleJitterAt(r, now) = Since(lcs, now) - MinCycle
  BY <1>3, <1>10, <1>12, Bounds DEF CycleJitterAt
<1> HIDE DEF s
<1>14. now - lcs >= MinCycle
  BY <1>1, <1>10, <1>12, Bounds
<1>15. now - lcs < ClockRange => s.jitter = now - lcs - MinCycle
  BY <1>11, <1>12, <1>13
<1> QED  BY <1>14, <1>15 DEF s, lcs

\* Cycles are a minimum cycle time apart and their jitter is the true delay.
THEOREM CyclesPaced == Spec => PacingKept
<1> DEFINE Step(i) ==
        LET elapsed == time - ports[i].last_cycle_start
        IN  timed /\ ports'[i].tx = "cyclic" /\ ports[i].cycle_timer_valid
              /\ ports'[i] # ports[i]
            => /\ elapsed >= MinCycle
               /\ elapsed < ClockRange => ports'[i].jitter = elapsed - MinCycle
<1>1. ASSUME Inv, [Next]_vars, NEW i \in 1..N
      PROVE  Step(i)
  <2> SUFFICES ASSUME timed, ports'[i].tx = "cyclic", ports[i].cycle_timer_valid,
                      ports'[i] # ports[i]
               PROVE  Step(i)
    OBVIOUS
  <2>1. ASSUME NEW events, NEW cs, ports' = TickPorts(events, cs)
        PROVE  Step(i)
    <3>1. ports'[i] = IF i <= count THEN TickCommon(ports[i], events[i], timed, time, cs[i])
                      ELSE ports[i]
      BY <2>1 DEF TickPorts
    <3>2. i <= count
      BY <3>1
    <3>3. time \in Nat /\ timed = TRUE /\ ~(i > count)
      BY <1>1, <3>2, ControllerAssumption DEF Inv
    <3>4. Sound(ports[i], time, timed)
      BY <1>1, <3>3 DEF Inv
    <3>5. Sound(ports[i], time, TRUE)
          /\ ports'[i] = TickCommon(ports[i], events[i], TRUE, time, cs[i])
      BY <3>1, <3>2, <3>3, <3>4
    <3>6. TickCommon(ports[i], events[i], TRUE, time, cs[i]).tx = "cyclic"
      BY <3>5
    <3>7. LET elapsed == time - ports[i].last_cycle_start
          IN  /\ elapsed >= MinCycle
              /\ elapsed < ClockRange
                   => TickCommon(ports[i], events[i], TRUE, time, cs[i]).jitter
                        = elapsed - MinCycle
      BY <3>3, <3>5, <3>6, TickPaced
    <3> QED  BY <3>5, <3>7
  <2>2. ASSUME NEW mode \in PortModes, NEW c, c # "refused"
        PROVE  PortInit(ports[i], mode, c).tx # "cyclic"
    BY <2>2 DEF PortInit, SetMode, Error, BlankPort
  <2>3. CASE \E cs \in [1..N -> InitOutcomes] : ControllerInit(cs)
    <3>1. PICK cs \in [1..N -> InitOutcomes] : ports' = InitPorts(ports, cs)
      BY <2>3 DEF ControllerInit
    <3>2. ports'[i] = IF i <= FirstFailed(cs) THEN PortInit(ports[i], ModeOf[i], cs[i])
                      ELSE ports[i]
      BY <3>1 DEF InitPorts
    <3>3. ModeOf[i] \in PortModes
      BY ControllerAssumption
    <3>4. cs[i] # "refused"
      BY <3>2 DEF PortInit
    <3> QED  BY <2>2, <3>2, <3>3, <3>4
  <2>4. CASE \E cs \in [1..N -> Outcomes] : TickAt(cs)
    BY <2>1, <2>4 DEF TickAt
  <2>5. CASE \E cs \in [1..N -> Outcomes],
                events \in [1..N -> {"NONE", "CYCLE_DUE", "RESPONSE_TIMEOUT"}] :
                TickEvents(events, cs)
    BY <2>1, <2>5 DEF TickEvents
  <2>6. CASE \E k \in 1..N, mode \in PortModes, c \in InitOutcomes \ {"refused"} :
                SetPortMode(k, mode, c)
    <3>1. PICK k \in 1..N, mode \in PortModes, c \in InitOutcomes \ {"refused"} :
                 ports' = [ports EXCEPT ![k] = PortInit(ports[k], mode, c)]
      BY <2>6 DEF SetPortMode
    <3>2. ports'[i] = IF i = k THEN PortInit(ports[i], mode, c) ELSE ports[i]
      BY <1>1, <3>1 DEF Inv
    <3> QED  BY <2>2, <3>1, <3>2
  <2>7. CASE \E k \in 1..N, mode \in {"DI", "DQ"} : TouchLine(k, mode)
    BY <2>7 DEF TouchLine
  <2>8. CASE Elapse
    <3>1. ports'[i] = [ports[i] EXCEPT !.tx = "none", !.jitter = 0]
      BY <2>8 DEF Elapse
    <3>2. ports[i] \in Ports
      BY <1>1, PortTypes
    <3> QED  BY <3>1, <3>2 DEF Ports
  <2>9. CASE UNCHANGED vars
    BY <2>9 DEF vars
  <2> HIDE DEF Step
  <2> QED  BY <1>1, <2>3, <2>4, <2>5, <2>6, <2>7, <2>8, <2>9 DEF Next
<1>2. Inv /\ [Next]_vars => [\A i \in 1..N : Step(i)]_vars
  BY <1>1
<1> QED  BY <1>2, SpecInv, PTL DEF Spec, PacingKept

-----------------------------------------------------------------------------
(* The next tick.                                                          *)

Cleared(p) == [p EXCEPT !.tx = "none", !.jitter = 0]

\* Within a lap the stamps are ordered as the times are.
LEMMA StampOrder ==
    ASSUME NEW s \in Nat, NEW t \in Nat, Lap(s) = Lap(t)
    PROVE  /\ Stamp(s) < Stamp(t) <=> s < t
           /\ Stamp(t) >= Stamp(s) <=> t >= s
<1>1. Stamp(s) \in Nat /\ Stamp(t) \in Nat
  BY DivMod
<1>2. /\ s <= t <=> Stamp(s) <= Stamp(t)
      /\ t <= s <=> Stamp(t) <= Stamp(s)
  BY LapOrder
<1> QED  BY <1>1, <1>2

\* What lies between now and the end of the lap lies in the lap.
LEMMA SameLap ==
    ASSUME NEW now \in Nat, NEW t \in Nat, now <= t,
           t < ClockRange * Lap(now) + ClockRange
    PROVE  Lap(t) = Lap(now)
<1> DEFINE a == Lap(now)
           b == Lap(t)
<1>1. /\ a \in Nat /\ b \in Nat /\ ClockRange \in Nat
      /\ now = ClockRange * a + Stamp(now) /\ Stamp(now) \in Nat
      /\ t = ClockRange * b + Stamp(t) /\ Stamp(t) \in Nat
  BY DivMod, Bounds
<1>2. ~(b < a)
  <2>1. b < a => t < ClockRange * a
    BY LapOrder
  <2>2. ClockRange * a \in Nat
    BY <1>1
  <2> QED  BY <1>1, <2>1, <2>2
<1>3. ~(a < b)
  <2> SUFFICES ASSUME a < b  PROVE  FALSE
    OBVIOUS
  <2>1. PICK k \in Nat : b = a + 1 + k
    <3>1. b - a - 1 \in Nat /\ b = a + 1 + (b - a - 1)
      BY <1>1
    <3> QED  BY <3>1
  <2> HIDE DEF a, b
  <2>2. /\ ClockRange * b = ClockRange * a + ClockRange + ClockRange * k
        /\ ClockRange * k \in Nat /\ ClockRange * a \in Nat
    BY <1>1, <2>1
  <2> QED  BY <1>1, <2>2 DEF a
<1>4. a \in Nat /\ b \in Nat
  BY DivMod
<1> QED  BY <1>2, <1>3, <1>4

\* A tick during which nothing comes in is a timeout or a cycle.
LEMMA QuietTick ==
    ASSUME NEW p \in Ports, NEW t, NEW event
    PROVE  /\ event = "RESPONSE_TIMEOUT" =>
                TickCommon(Cleared(p), event, TRUE, t, "quiet")
                  = TimeoutTick(Cleared(p), t, TRUE, "quiet")
           /\ event = "CYCLE_DUE" =>
                TickCommon(Cleared(p), event, TRUE, t, "quiet")
                  = CycleTick(Cleared(p), t, TRUE, "quiet")
<1>1. [Cleared(p) EXCEPT !.tx = "none", !.jitter = 0] = Cleared(p)
  BY DEF Cleared, Ports
<1>2. PollRx(Cleared(p), "quiet") = Cleared(p)
  BY DEF PollRx
<1> QED  BY <1>1, <1>2 DEF TickCommon

LEMMA ClearedFields ==
    ASSUME NEW p \in Ports
    PROVE  LET q == Cleared(p)
           IN  /\ q \in Ports /\ q.tx = "none" /\ q.state = p.state /\ q.step = p.step
               /\ q.awaiting_response = p.awaiting_response
               /\ q.send_ready_valid = p.send_ready_valid
               /\ q.send_ready_at = p.send_ready_at
               /\ q.cycle_timer_valid = p.cycle_timer_valid
               /\ q.last_cycle_start = p.last_cycle_start
BY DEF Cleared, Ports

\* A timeout takes the answer off the list of what the port waits for.
LEMMA TimeoutClears ==
    ASSUME NEW p \in Ports, NEW t, p.awaiting_response
    PROVE  TimeoutTick(p, t, TRUE, "quiet").awaiting_response = FALSE
<1> DEFINE q == [p EXCEPT !.awaiting_response = FALSE]
<1>1. q \in Ports /\ q.awaiting_response = FALSE
  BY DEF Ports
<1> HIDE DEF q
<1>2. OnTimeoutAt(q, t, TRUE, "quiet")
        \in {[q EXCEPT !.rx_retry_count = @ + 1],
             RestartEstablish(q, t, TRUE),
             EstablishAttemptFailed(q, t, TRUE, "quiet"), q}
  BY DEF OnTimeoutAt
<1>3. [q EXCEPT !.rx_retry_count = @ + 1].awaiting_response = FALSE
  BY <1>1 DEF Ports
<1>4. RestartEstablish(q, t, TRUE).awaiting_response = FALSE
  BY <1>1 DEF RestartEstablish, ArmSendGate, Ports
<1>5. EstablishAttemptFailed(q, t, TRUE, "quiet").awaiting_response = FALSE
  BY <1>1 DEF EstablishAttemptFailed, ArmSendGate, SetMode, Failed, Ports
<1>6. OnTimeoutAt(q, t, TRUE, "quiet").awaiting_response = FALSE
  BY <1>1, <1>2, <1>3, <1>4, <1>5
<1> QED  BY <1>6 DEF TimeoutTick, q

\* A port that is not held back sends something.
LEMMA ProcessSends ==
    ASSUME NEW p \in Ports, NEW t, ~Held(p, t),
           \/ p.state = "STARTUP" /\ p.step \in {"INACTIVE", "WAKE", "SEND_TYPE0"}
           \/ p.state \in {"PREOPERATE", "OPERATE"}
    PROVE  ProcessAt(p, t, TRUE, "quiet").tx # "none"
<1>1. CASE p.state = "STARTUP" /\ p.step \in {"INACTIVE", "WAKE"}
  <2>1. ProcessAt(p, t, TRUE, "quiet") = StartupWake(p, t, TRUE, "quiet")
    BY <1>1 DEF ProcessAt
  <2>2. StartupWake(p, t, TRUE, "quiet").tx = "wake"
    BY <1>1 DEF StartupWake, SetMode, Send, Failed, ArmSendGate, Ports
  <2> QED  BY <2>1, <2>2
<1>2. CASE p.state = "STARTUP" /\ p.step = "SEND_TYPE0"
  <2>1. ProcessAt(p, t, TRUE, "quiet") = StartupTest(p, t, TRUE, "quiet")
    BY <1>2 DEF ProcessAt
  <2>2. StartupTest(p, t, TRUE, "quiet").tx = "test"
    BY <1>2 DEF StartupTest, Send, Failed, Ports
  <2> QED  BY <2>1, <2>2
<1>3. CASE p.state = "PREOPERATE"
  BY <1>3 DEF ProcessAt, Preoperate, Send, Failed, Ports
<1>4. CASE p.state = "OPERATE"
  BY <1>4 DEF ProcessAt, Send, Ports
<1> QED  BY <1>1, <1>2, <1>3, <1>4

LEMMA CycleMoves ==
    ASSUME NEW p \in Ports, NEW t, ~p.awaiting_response, CycleDueAt(p, t), ~Held(p, t),
           ProcessAt(p, t, TRUE, "quiet") \in Ports, CycleJitterAt(p, t) \in Nat,
           \/ p.state = "STARTUP" /\ p.step \in {"INACTIVE", "WAKE", "SEND_TYPE0"}
           \/ p.state \in {"PREOPERATE", "OPERATE"}
    PROVE  CycleTick(p, t, TRUE, "quiet").tx # "none"
<1> DEFINE q == ProcessAt(p, t, TRUE, "quiet")
           s == CycleStarted(q, CycleJitterAt(p, t), t)
<1>1. q.tx # "none"
  BY ProcessSends
<1> HIDE DEF q
<1>2. s.tx = q.tx
  BY DEF CycleStarted, Ports, q
<1>3. CycleTick(p, t, TRUE, "quiet") = IF q.tx = "cyclic" THEN s ELSE q
  BY DEF CycleTick, q
<1> HIDE DEF s
<1> QED  BY <1>1, <1>2, <1>3

\* The true time a port waits for.
DueTime(p) ==
    CASE p.awaiting_response -> p.response_deadline
      [] ~p.awaiting_response /\ p.state = "STARTUP" /\ Held(p, time) -> p.send_ready_at
      [] ~p.awaiting_response /\ Paced(p) -> p.last_cycle_start + MinCycle
      [] OTHER -> time

Active(p) == p.state \notin {"INACTIVE", "ERROR"}

\* What a lap without its turn means for the times of a port.
LEMMA DueInLap ==
    ASSUME NEW p, time \in Nat, Sound(p, time, TRUE), InLap(p)
    PROVE  DueTime(p) \in Nat /\ Lap(DueTime(p)) = Lap(time)
<1>1. /\ p.response_deadline \in Nat /\ p.send_ready_at \in Nat
      /\ p.last_cycle_start \in Nat /\ p.last_cycle_start + MinCycle \in Nat
      /\ p.awaiting_response \in BOOLEAN
  BY Bounds DEF Sound, Ports
<1>2. CASE p.awaiting_response
  <2>1. DueTime(p) = p.response_deadline
    BY <1>2 DEF DueTime
  <2> QED  BY <1>1, <1>2, <2>1 DEF InLap
<1>3. CASE ~p.awaiting_response /\ p.state = "STARTUP" /\ Held(p, time)
  <2>1. DueTime(p) = p.send_ready_at /\ p.send_ready_valid
    BY <1>3 DEF DueTime, Paced, Held
  <2> QED  BY <1>1, <2>1 DEF InLap
<1>4. CASE ~p.awaiting_response /\ Paced(p)
  <2>1. DueTime(p) = p.last_cycle_start + MinCycle
    BY <1>4 DEF DueTime, Paced
  <2> QED  BY <1>1, <1>4, <2>1 DEF InLap
<1>5. CASE /\ ~p.awaiting_response /\ ~(p.state = "STARTUP" /\ Held(p, time))
           /\ ~Paced(p)
  <2>1. DueTime(p) = time
    BY <1>5 DEF DueTime
  <2> QED  BY <2>1
<1> QED  BY <1>2, <1>3, <1>4, <1>5

\* The time reported is the later of now and the time the port waits for.
LEMMA NextIsDue ==
    ASSUME NEW p, time \in Nat, Sound(p, time, TRUE), InLap(p)
    PROVE  LET next == NextTickTime(p, time)
               then == ClockRange * Lap(time) + next
           IN  /\ next \in Nat /\ Stamp(time) <= next /\ next < ClockRange
               /\ ~Active(p) => then = time
               /\ Active(p) => then = IF time >= DueTime(p) THEN time ELSE DueTime(p)
<1> DEFINE next == NextTickTime(p, time)
           d == DueTime(p)
           b == ClockRange * Lap(time)
<1>1. d \in Nat /\ Lap(d) = Lap(time)
  BY DueInLap
<1>2. next = IF ~Active(p) \/ Stamp(time) >= Stamp(d) THEN Stamp(time) ELSE Stamp(d)
  BY DEF NextTickTime, DueTime, Active
<1> HIDE DEF next, d
<1>3. /\ Stamp(time) \in Nat /\ Stamp(time) < ClockRange
      /\ Stamp(d) \in Nat /\ Stamp(d) < ClockRange
      /\ time = b + Stamp(time) /\ d = b + Stamp(d)
  BY <1>1, DivMod
<1>4. b \in Nat
  BY LapBase
<1> HIDE DEF b
<1>5. Stamp(time) >= Stamp(d) <=> time >= d
  BY <1>1, <1>3, <1>4
<1>6. next \in Nat /\ Stamp(time) <= next /\ next < ClockRange
  BY <1>2, <1>3
<1>7. b + next = IF ~Active(p) \/ time >= d THEN time ELSE d
  BY <1>2, <1>3, <1>5
<1> QED  BY <1>6, <1>7 DEF next, d, b

\* A port in PREOPERATE or OPERATE is not held back in the lap of its startup.
LEMMA NotHeld ==
    ASSUME NEW p, time \in Nat, Sound(p, time, TRUE), InLap(p),
           NEW t \in Nat, time <= t, Lap(t) = Lap(time),
           p.state \in {"PREOPERATE", "OPERATE"}
    PROVE  ~Held(p, t)
<1> DEFINE gate == p.send_ready_at
           b == ClockRange * Lap(time)
<1>1. /\ gate \in Nat /\ GateClosed(p, time)
      /\ gate <= time \/ Stamp(gate) < TReady
  BY DEF Sound, Ports, Timely, GatePassed
<1>2. gate - TReady \in Nat /\ TReady \in Nat
  BY <1>1, Bounds DEF GateClosed
<1>3. Lap(gate) = Lap(time) /\ Lap(gate - TReady) = Lap(time)
  BY <1>1 DEF InLap, GateClosed
<1> HIDE DEF gate
<1>4. /\ Stamp(gate) \in Nat /\ Stamp(gate - TReady) \in Nat
      /\ gate = b + Stamp(gate) /\ gate - TReady = b + Stamp(gate - TReady)
  BY <1>1, <1>2, <1>3, DivMod
<1>5. b \in Nat
  BY LapBase
<1> HIDE DEF b
<1>6. gate <= time
  BY <1>1, <1>2, <1>4, <1>5
<1>7. ~(Stamp(t) < Stamp(gate))
  BY <1>1, <1>3, <1>6, StampOrder
<1> QED  BY <1>7 DEF Held, gate

\* Up to the time reported a tick does nothing.
LEMMA QuietBefore ==
    ASSUME NEW p, time \in Nat, Sound(p, time, TRUE), InLap(p), Active(p),
           NEW t \in Nat, time <= t, t < DueTime(p)
    PROVE  Unmoved(p, t)
<1> DEFINE q == Cleared(p)
<1>1. DueTime(p) \in Nat /\ Lap(DueTime(p)) = Lap(time)
  BY DueInLap
<1>2. Lap(t) = Lap(DueTime(p))
  <2>1. /\ DueTime(p) = ClockRange * Lap(time) + Stamp(DueTime(p))
        /\ Stamp(DueTime(p)) \in Nat /\ Stamp(DueTime(p)) < ClockRange
    BY <1>1, DivMod
  <2>2. ClockRange * Lap(time) \in Nat /\ ClockRange \in Nat
    BY LapBase
  <2>3. t < ClockRange * Lap(time) + ClockRange
    BY <1>1, <2>1, <2>2
  <2> QED  BY <1>1, <2>3, SameLap
<1>3. Stamp(t) < Stamp(DueTime(p)) /\ ~(Stamp(t) >= Stamp(DueTime(p)))
  <2>1. Stamp(t) \in Nat /\ Stamp(DueTime(p)) \in Nat
    BY <1>1, DivMod
  <2> QED  BY <1>1, <1>2, <2>1, StampOrder
<1>4. /\ p \in Ports /\ p.awaiting_response \in BOOLEAN /\ p.last_cycle_start \in Nat
      /\ p.last_cycle_start <= time
  BY DEF Sound, Ports
<1>5. ~ResponseDueAt(p, t)
  <2>1. p.awaiting_response => DueTime(p) = p.response_deadline
    BY DEF DueTime
  <2> QED  BY <1>3, <2>1 DEF ResponseDueAt
<1>6. CycleTick(q, t, TRUE, "quiet") = q
  <2>1. CASE p.awaiting_response
    <3>1. q.awaiting_response
      BY <1>4, <2>1, ClearedFields
    <3> QED  BY <3>1 DEF CycleTick
  <2>2. CASE ~p.awaiting_response /\ p.state = "STARTUP" /\ Held(p, time)
    <3>1. DueTime(p) = p.send_ready_at /\ p.send_ready_valid
      BY <2>2 DEF DueTime, Paced, Held
    <3>2. Held(q, t) /\ q.tx = "none" /\ ~Paced(q)
      BY <1>3, <1>4, <2>2, <3>1, ClearedFields DEF Held, Paced
    <3>3. ProcessAt(q, t, TRUE, "quiet") = q
      BY <3>2 DEF ProcessAt
    <3> QED  BY <3>2, <3>3 DEF CycleTick
  <2>3. CASE ~p.awaiting_response /\ Paced(p)
    <3>1. DueTime(p) = p.last_cycle_start + MinCycle
      BY <2>3 DEF DueTime, Paced
    <3>2. t - p.last_cycle_start < MinCycle /\ MinCycle < ClockRange
      BY <1>4, <3>1, Bounds, ClockAssumption
    <3>3. Since(p.last_cycle_start, t) = t - p.last_cycle_start
      BY <1>4, <3>2, Bounds, SinceExact
    <3>4. ~CycleDueAt(q, t)
      BY <1>4, <2>3, <3>2, <3>3, Bounds, ClearedFields DEF CycleDueAt, Paced
    <3> QED  BY <3>4 DEF CycleTick
  <2>4. CASE /\ ~p.awaiting_response /\ ~(p.state = "STARTUP" /\ Held(p, time))
             /\ ~Paced(p)
    <3>1. DueTime(p) = time
      BY <2>4 DEF DueTime
    <3> QED  BY <3>1
  <2> QED  BY <2>1, <2>2, <2>3, <2>4
<1>7. Unmoved(p, t) <=> TickCommon(q, "CYCLE_DUE", TRUE, t, "quiet") = q
  BY <1>5 DEF Unmoved, Cleared
<1> QED  BY <1>4, <1>6, <1>7, QuietTick

\* At the time reported it does something.
LEMMA MovedThen ==
    ASSUME NEW p, time \in Nat, Sound(p, time, TRUE), InLap(p), Active(p),
           NEW t \in Nat, t = IF time >= DueTime(p) THEN time ELSE DueTime(p)
    PROVE  ~Unmoved(p, t)
<1> DEFINE q == Cleared(p)
<1>1. DueTime(p) \in Nat /\ Lap(DueTime(p)) = Lap(time)
  BY DueInLap
<1>2. time <= t /\ DueTime(p) <= t /\ Lap(t) = Lap(time)
  BY <1>1
<1>3. Stamp(t) >= Stamp(DueTime(p)) /\ ~(Stamp(t) < Stamp(DueTime(p)))
  <2>1. Stamp(t) \in Nat /\ Stamp(DueTime(p)) \in Nat
    BY <1>1, DivMod
  <2> QED  BY <1>1, <1>2, <2>1, StampOrder
<1>4. /\ p \in Ports /\ p.awaiting_response \in BOOLEAN /\ p.last_cycle_start \in Nat
      /\ p.last_cycle_start <= time
      /\ p.state = "STARTUP" => p.step # "AWAIT_OPERATE_ACK"
      /\ Timely(p, time)
  BY DEF Sound, Ports
<1>5. CASE p.awaiting_response
  <2>1. ResponseDueAt(p, t)
    BY <1>3, <1>5 DEF ResponseDueAt, DueTime
  <2>2. Unmoved(p, t) <=> TickCommon(q, "RESPONSE_TIMEOUT", TRUE, t, "quiet") = q
    BY <2>1 DEF Unmoved, Cleared
  <2>3. TickCommon(q, "RESPONSE_TIMEOUT", TRUE, t, "quiet")
          = TimeoutTick(q, t, TRUE, "quiet")
    BY <1>4, QuietTick
  <2>4. q \in Ports /\ q.awaiting_response = p.awaiting_response
    BY <1>4, ClearedFields
  <2> HIDE DEF q
  <2>5. TimeoutTick(q, t, TRUE, "quiet").awaiting_response = FALSE
    BY <1>5, <2>4, TimeoutClears
  <2> QED  BY <1>5, <2>2, <2>3, <2>4, <2>5
<1>6. CASE ~p.awaiting_response
  <2>1. ~ResponseDueAt(p, t)
    BY <1>6 DEF ResponseDueAt
  <2>2. Unmoved(p, t) <=> TickCommon(q, "CYCLE_DUE", TRUE, t, "quiet") = q
    BY <2>1 DEF Unmoved, Cleared
  <2>3. TickCommon(q, "CYCLE_DUE", TRUE, t, "quiet") = CycleTick(q, t, TRUE, "quiet")
    BY <1>4, QuietTick
  <2>4. /\ q \in Ports /\ q.tx = "none" /\ q.state = p.state /\ q.step = p.step
        /\ q.awaiting_response = p.awaiting_response
        /\ q.send_ready_valid = p.send_ready_valid /\ q.send_ready_at = p.send_ready_at
        /\ q.cycle_timer_valid = p.cycle_timer_valid
        /\ q.last_cycle_start = p.last_cycle_start
    BY <1>4, ClearedFields
  <2>5. Sound(q, time, TRUE)
    BY ClearSound DEF Cleared
  <2> HIDE DEF q
  <2>6. ~Held(p, t)
    <3>1. CASE p.state = "STARTUP" /\ Held(p, time)
      BY <1>3, <1>6, <3>1 DEF DueTime, Held, Paced
    <3>2. CASE p.state = "STARTUP" /\ ~Held(p, time)
      <4>1. DueTime(p) = time
        BY <1>6, <3>2 DEF DueTime, Paced
      <4>2. t = time
        BY <4>1
      <4> QED  BY <3>2, <4>2
    <3>3. CASE p.state \in {"PREOPERATE", "OPERATE"}
      BY <1>2, <3>3, NotHeld
    <3> QED  BY <1>4, <3>1, <3>2, <3>3 DEF Active, Ports
  <2>7. ~Held(q, t)
    BY <2>4, <2>6 DEF Held
  <2>8. CycleDueAt(q, t)
    <3> SUFFICES ASSUME Paced(p)  PROVE  Since(p.last_cycle_start, t) >= MinCycle
      BY <2>4 DEF CycleDueAt, Paced
    <3>1. DueTime(p) = p.last_cycle_start + MinCycle
      BY <1>6 DEF DueTime, Paced
    <3>2. time - p.last_cycle_start < ClockRange /\ MinCycle < ClockRange
      BY ClockAssumption DEF InLap
    <3>3. t - p.last_cycle_start < ClockRange /\ t - p.last_cycle_start >= MinCycle
      BY <1>2, <1>4, <3>1, <3>2, Bounds
    <3>4. Since(p.last_cycle_start, t) = t - p.last_cycle_start
      <4>1. p.last_cycle_start <= t
        BY <1>2, <1>4
      <4> QED  BY <1>4, <3>3, <4>1, SinceExact
    <3> QED  BY <3>3, <3>4
  <2>9. \/ q.state = "STARTUP" /\ q.step \in {"INACTIVE", "WAKE", "SEND_TYPE0"}
        \/ q.state \in {"PREOPERATE", "OPERATE"}
    BY <1>4, <1>6, <2>4 DEF Timely, Active, Ports
  <2>10. ProcessAt(q, t, TRUE, "quiet") \in Ports
    <3>1. Sound(q, t, TRUE)
      BY <1>2, <1>4, <2>5, LaterSound
    <3> QED  BY <3>1, ProcessSound DEF Sound
  <2>11. CycleJitterAt(q, t) \in Nat
    <3>1. q.last_cycle_start <= t
      BY <1>2, <1>4, <2>4
    <3> QED  BY <2>4, <3>1, JitterType
  <2>12. CycleTick(q, t, TRUE, "quiet").tx # "none"
    BY <1>6, <2>4, <2>7, <2>8, <2>9, <2>10, <2>11, CycleMoves
  <2> QED  BY <2>2, <2>3, <2>4, <2>12
<1> QED  BY <1>5, <1>6

\* A host that sleeps until the time reported misses nothing and does not wake
\* for nothing, as long as no time that is compared is a lap away.
THEOREM NextTicksExact == Spec => []NextTickExact
<1>1. Inv => NextTickExact
  <2> DEFINE counted == {ports[i] : i \in 1..count}
             times == {NextTickTime(ports[i], time) : i \in 1..count}
             next == ControllerNextTickTime(ports, count, time)
             then == Lap(time) * ClockRange + next
  <2> SUFFICES ASSUME Inv, timed, count > 0, \A p \in counted : InLap(p)
               PROVE  /\ \A t \in time..(then - 1), p \in counted : Unmoved(p, t)
                      /\ \E p \in counted :
                            p.state \in {"ERROR", "INACTIVE"} \/ ~Unmoved(p, then)
    BY DEF NextTickExact
  <2>1. time \in Nat /\ count \in Nat /\ count <= N /\ N \in Nat
    BY ControllerAssumption DEF Inv
  <2>2. ASSUME NEW i \in 1..count
        PROVE  Sound(ports[i], time, TRUE) /\ InLap(ports[i])
    <3>1. i \in 1..N /\ ~(i > count)
      BY <2>1
    <3>2. Sound(ports[i], time, timed)
      BY <3>1 DEF Inv
    <3>3. timed = TRUE
      BY DEF Inv
    <3> QED  BY <3>2, <3>3
  <2>3. \A i \in 1..count : NextTickTime(ports[i], time) \in Nat
    BY <2>1, <2>2, NextIsDue
  <2>4. times \subseteq Nat /\ times # {}
    <3>1. 1 \in 1..count
      BY <2>1
    <3> QED  BY <2>3, <3>1
  <2>5. next \in times /\ \A y \in times : next <= y
    <3>1. next = Min(times)
      BY <2>1 DEF ControllerNextTickTime
    <3> HIDE DEF next, times
    <3> QED  BY <2>4, <3>1, LeastNumber
  <2>6. PICK k \in 1..count : next = NextTickTime(ports[k], time)
    BY <2>5
  <2>7. next \in Nat /\ \A i \in 1..count : next <= NextTickTime(ports[i], time)
    BY <2>3, <2>5, <2>6
  <2> HIDE DEF next, times
  <2>8. then = ClockRange * Lap(time) + next /\ ClockRange * Lap(time) \in Nat
    <3>1. ClockRange \in Nat /\ Lap(time) \in Nat
      BY <2>1, DivMod, Bounds
    <3>2. Lap(time) * ClockRange = ClockRange * Lap(time)
      BY <3>1
    <3> QED  BY <2>1, <3>2, LapBase
  <2> HIDE DEF then
  <2>9. ASSUME NEW t \in time..(then - 1), NEW i \in 1..count
        PROVE  Unmoved(ports[i], t)
    <3> DEFINE ni == NextTickTime(ports[i], time)
               d == DueTime(ports[i])
    <3>1. /\ ni \in Nat
          /\ ~Active(ports[i]) => ClockRange * Lap(time) + ni = time
          /\ Active(ports[i]) => ClockRange * Lap(time) + ni = IF time >= d THEN time ELSE d
      BY <2>1, <2>2, NextIsDue
    <3>2. next <= ni
      BY <2>7
    <3> HIDE DEF ni
    <3>3. then \in Nat /\ t \in Nat /\ time <= t /\ t < then
      BY <2>1, <2>7, <2>8
    <3>4. t < ClockRange * Lap(time) + ni
      BY <2>7, <2>8, <3>1, <3>2, <3>3
    <3>5. Active(ports[i])
      BY <2>1, <3>1, <3>3, <3>4
    <3>6. d \in Nat
      BY <2>1, <2>2, DueInLap
    <3> HIDE DEF d
    <3>7. t < d
      BY <2>1, <3>1, <3>3, <3>4, <3>5, <3>6
    <3> QED  BY <2>1, <2>2, <3>3, <3>5, <3>7, QuietBefore DEF d
  <2>10. ports[k].state \in {"ERROR", "INACTIVE"} \/ ~Unmoved(ports[k], then)
    <3> SUFFICES ASSUME Active(ports[k])  PROVE  ~Unmoved(ports[k], then)
      BY DEF Active
    <3>1. then = IF time >= DueTime(ports[k]) THEN time ELSE DueTime(ports[k])
      BY <2>1, <2>2, <2>6, <2>8, NextIsDue
    <3>2. then \in Nat
      BY <2>7, <2>8
    <3> QED  BY <2>1, <2>2, <3>1, <3>2, MovedThen
  <2> QED  BY <2>9, <2>10
<1> QED  BY <1>1, SpecInv, PTL

=============================================================================
