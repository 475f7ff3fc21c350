-------------------------- MODULE MasterController --------------------------
(***************************************************************************)
(* Several ports under one controller (src/master_controller.c), the SIO    *)
(* calls and mode changes of single ports (src/master_sio.c), and a host    *)
(* that calls them and has either a 32-bit clock or none.                   *)
(***************************************************************************)
EXTENDS PortClock, FiniteSetsExt

CONSTANTS
    N,                \* ports
    ModeOf,           \* configured mode of each port
    StartTimes,       \* when the host starts
    MaxTime,          \* bound: the end of the observation
    MaxFaults,        \* bound: garbled replies and PHY failures
    MaxSetups         \* bound: initialisations and mode changes

ASSUME ControllerAssumption ==
    /\ N \in Nat \ {0} /\ ModeOf \in [1..N -> PortModes]
    /\ StartTimes \subseteq 0..MaxTime /\ MaxTime \in Nat
    /\ MaxFaults \in Nat /\ MaxSetups \in Nat

VARIABLES
    ports,        \* the array of ports
    count,        \* port_count of the controller
    touched,      \* the port whose C/Q line the last call set or read, or 0
    time,         \* true time
    timed,        \* the host has a clock
    faults,       \* faults and set-ups so far
    setups

vars == <<ports, count, touched, time, timed, faults, setups>>

-----------------------------------------------------------------------------
(* The controller.                                                         *)

FirstFailed(cs) == Min({i \in 1..N : cs[i] # "ok"} \cup {N + 1})

\* fault: a failed initialisation leaves all ports in the count.
CountedAll(cs) == N

\* The ports that are counted after an initialisation.
Counted(cs) == FirstFailed(cs) - 1

InitPorts(ps, cs) ==
    [i \in 1..N |-> IF i <= FirstFailed(cs) THEN PortInit(ps[i], ModeOf[i], cs[i])
                    ELSE ps[i]]

\* fault: the latest of the times.
ControllerNextTickTimeLast(ps, n, now) ==
    IF n = 0 THEN Stamp(now)
    ELSE Max({NextTickTime(ps[i], now) : i \in 1..n})

ControllerNextTickTime(ps, n, now) ==
    IF n = 0 THEN Stamp(now)
    ELSE Min({NextTickTime(ps[i], now) : i \in 1..n})

TickPorts(events, cs) ==
    [i \in 1..N |->
        IF i <= count THEN TickCommon(ports[i], events[i], timed, time, cs[i])
        ELSE ports[i]]

-----------------------------------------------------------------------------
(* Actions.                                                                *)

Calm == {"quiet", "reply"}
Faulty(cs) == Cardinality({i \in DOMAIN cs : cs[i] \notin Calm \cup {"ok"}})

\* The outcomes for the counted ports, within the bound on faults.
Happens(cs) ==
    /\ \A i \in 1..N : i > count => cs[i] = "quiet"
    /\ faults + Faulty(cs) <= MaxFaults
    /\ faults' = faults + Faulty(cs)

ControllerInit(cs) ==
    /\ setups < MaxSetups
    /\ faults + Faulty(cs) <= MaxFaults
    /\ ports' = InitPorts(ports, cs) /\ count' = Counted(cs)
    /\ faults' = faults + Faulty(cs) /\ setups' = setups + 1
    /\ touched' = 0
    /\ UNCHANGED <<time, timed>>

\* iolink_master_controller_tick_at.
TickAt(cs) ==
    /\ timed /\ Happens(cs)
    /\ ports' = TickPorts([i \in 1..N |-> IF ResponseDueAt(ports[i], time)
                                        THEN "RESPONSE_TIMEOUT" ELSE "CYCLE_DUE"],
                          cs)
    /\ touched' = 0
    /\ UNCHANGED <<count, time, timed, setups>>

\* iolink_master_controller_tick, iolink_master_controller_tick_events.
TickEvents(events, cs) ==
    /\ ~timed /\ Happens(cs)
    /\ ports' = TickPorts(events, cs)
    /\ touched' = 0
    /\ UNCHANGED <<count, time, timed, setups>>

\* iolink_master_set_port_mode; iolink_master_restart keeps the mode.
SetPortMode(i, mode, c) ==
    /\ setups < MaxSetups /\ ports[i] # BlankPort
    /\ c # "ok" => faults < MaxFaults
    /\ ports' = [ports EXCEPT ![i] = PortInit(@, mode, c)]
    /\ faults' = IF c = "ok" THEN faults ELSE faults + 1
    /\ setups' = setups + 1
    /\ touched' = 0
    /\ UNCHANGED <<count, time, timed>>

\* fault: the mode of the port is not looked at.
CanTouchAlways(p, mode) == TRUE

CanTouch(p, mode) == p.mode = mode

\* iolink_master_set_dq, iolink_master_get_di.
TouchLine(i, mode) ==
    /\ CanTouch(ports[i], mode)
    /\ touched' = i
    /\ UNCHANGED <<ports, count, time, timed, faults, setups>>

\* tx and jitter belong to the call that has ended.
Elapse ==
    /\ timed /\ time < MaxTime
    /\ time' = time + 1
    /\ ports' = [i \in 1..N |-> [ports[i] EXCEPT !.tx = "none", !.jitter = 0]]
    /\ touched' = 0
    /\ UNCHANGED <<count, timed, faults, setups>>

Init ==
    /\ ports = [i \in 1..N |-> BlankPort] /\ count = 0
    /\ touched = 0
    /\ time \in StartTimes /\ timed \in BOOLEAN
    /\ faults = 0 /\ setups = 0

Next ==
    \/ \E cs \in [1..N -> InitOutcomes] : ControllerInit(cs)
    \/ \E cs \in [1..N -> Outcomes] : TickAt(cs)
    \/ \E cs \in [1..N -> Outcomes],
          events \in [1..N -> {"NONE", "CYCLE_DUE", "RESPONSE_TIMEOUT"}] :
          TickEvents(events, cs)
    \/ \E i \in 1..N, mode \in PortModes, c \in InitOutcomes \ {"refused"} :
          SetPortMode(i, mode, c)
    \/ \E i \in 1..N, mode \in {"DI", "DQ"} : TouchLine(i, mode)
    \/ Elapse

Spec == Init /\ [][Next]_vars

-----------------------------------------------------------------------------

\* Ports, count and clock stay within their types.
ControllerTypeOK ==
    /\ ports \in [1..N -> Ports] /\ count \in 0..N
    /\ touched \in 0..N /\ time \in 0..MaxTime

\* The times a port waits for, those left over from its startup (when its last
\* send gate was closed and until when) and that of its last cycle are not a
\* lap of the clock away from now.
InLap(p) ==
    LET started == p.state \in {"PREOPERATE", "OPERATE"}
        times == {t \in {p.response_deadline} : p.awaiting_response}
                 \cup {t \in {p.send_ready_at} : p.send_ready_valid}
                 \cup {t \in {p.send_ready_at - TReady} : p.send_ready_valid /\ started}
                 \cup {t \in {p.last_cycle_start + MinCycle} : Paced(p)}
    IN  /\ \A t \in times : Lap(t) = Lap(time)
        /\ Paced(p) => time - p.last_cycle_start < ClockRange

\* A tick at time t during which nothing comes in does nothing to the port.
Unmoved(p, t) ==
    TickCommon([p EXCEPT !.tx = "none", !.jitter = 0],
               IF ResponseDueAt(p, t) THEN "RESPONSE_TIMEOUT" ELSE "CYCLE_DUE",
               TRUE, t, "quiet") = [p EXCEPT !.tx = "none", !.jitter = 0]

\* A host that sleeps until the time get_next_tick_time gives misses nothing
\* and does not wake for nothing: up to then no port would do anything if it
\* were ticked, and then one does, unless a port is in ERROR or INACTIVE (which
\* is reported as due at once).  As long as no time that a port compares is a
\* lap of the 32-bit clock away.
NextTickExact ==
    LET counted == {ports[i] : i \in 1..count}
        next == ControllerNextTickTime(ports, count, time)
        then == Lap(time) * ClockRange + next
    IN  /\ timed /\ count > 0
        /\ \A p \in counted : InLap(p)
        => /\ \A t \in time..(then - 1), p \in counted : Unmoved(p, t)
           /\ \E p \in counted :
                 p.state \in {"ERROR", "INACTIVE"} \/ ~Unmoved(p, then)

\* The cycles of a port are never closer than its minimum cycle time, and the
\* jitter recorded is the true delay, whatever the host's timing, communication
\* losses between two cycles and the lap of the clock: only a delay of a whole
\* lap is recorded short.
PacingKept ==
    [][\A i \in 1..N :
         LET elapsed == time - ports[i].last_cycle_start
         IN  timed /\ ports'[i].tx = "cyclic" /\ ports[i].cycle_timer_valid
               /\ ports'[i] # ports[i]
             => /\ elapsed >= MinCycle
                /\ elapsed < ClockRange => ports'[i].jitter = elapsed - MinCycle]_vars

\* A cycle is given up no earlier than the response timeout after it was sent,
\* unless its deadline lies beyond the end of the lap: the code compares the
\* two as plain numbers and then gives it up at once.
TimeoutNotEarly ==
    \A i \in 1..N :
        LET p == ports[i]
            end == p.last_cycle_start + ResponseTimeout
        IN  timed /\ p.state = "OPERATE" /\ ResponseDueAt(p, time)
            => time >= end \/ Lap(time) < Lap(end)

\* A port in OPERATE is held back by the send gate of its startup (which is
\* never taken away) only when the clock has gone round since, or, when it goes
\* round while the gate is closed, for the rest of that time: the gate opens
\* early then and closes again.
CyclesNotHeld ==
    \A i \in 1..N :
        LET gate == ports[i].send_ready_at
        IN  timed /\ ports[i].state = "OPERATE" /\ Held(ports[i], time)
            => \/ Lap(gate) < Lap(time)
               \/ time < gate /\ Stamp(gate) < TReady

ModesAgree(p) ==
    p.state # "ERROR" =>
        /\ p.mode = "IOLINK" <=> p.state # "INACTIVE"
        /\ p.phy_mode = IF p.state = "STARTUP" /\ p.step = "INACTIVE"
                        THEN "INACTIVE" ELSE PhyModeFor(p.mode)

\* The ports a controller ticks were initialised, and unless one has failed
\* its PHY is in the mode the port is in: after failed initialisations, mode
\* changes and exhausted wake-up sequences.
PortsConsistent == \A i \in 1..count : ModesAgree(ports[i])

\* The application sets and reads the C/Q line only where the PHY is in SIO
\* mode or where the last initialisation of the port has failed: set_dq and
\* get_di look at the configured mode, not at the state of the port.
LineTouchedInSio ==
    touched # 0 =>
        ports[touched].phy_mode = "SIO" \/ ports[touched].state = "ERROR"

=============================================================================
