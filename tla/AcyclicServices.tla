-------------------------- MODULE AcyclicServices --------------------------
(***************************************************************************)
(* The acyclic services of a port that exchanges messages with a device:    *)
(* the ISDU transport and the event-memory service share the OD channel, a  *)
(* message may be lost in either direction, the connection may be lost and  *)
(* established again, and the application calls in between.                 *)
(*                                                                          *)
(* Tick is a tick of the port in OPERATE with a typed M-sequence: the reply *)
(* that arrived is routed, then the frame that is due is sent.  Whether a   *)
(* frame is due, timeouts, retries and re-establishment are MasterPort's.   *)
(* The device is a device that follows Table 52 (FlowCTRL) and Table 58     *)
(* (event memory, frozen until it is confirmed).                            *)
(***************************************************************************)
EXTENDS IsduTransport, EventMemory

CONSTANTS
    Store,        \* what the device's objects hold at first
    Writes,       \* what the application writes: <<object, data>>
    OdLens,       \* OD widths of the M-sequence types
    Raisable,     \* events it raises at a time: slot -> qualifier, MSB, LSB
    EventCalls,   \* the event services the application uses
    MaxEventCalls,\* bound: event services started
    MaxLosses     \* bound: lost messages and lost connections

ASSUME ServicesAssumption ==
    /\ Store \in [Objects -> Seq(Octets)]
    /\ Writes \subseteq Objects \X Seq(Octets)
    /\ \A events \in Raisable :
          /\ DOMAIN events \subseteq Slots
          /\ events \in [DOMAIN events -> Octets \X Octets \X Octets]
    /\ OdLens \subseteq 1..8
    /\ EventCalls \subseteq Requests
    /\ MaxEventCalls \in Nat /\ MaxLosses \in Nat

VARIABLES
    isdu,     \* the ISDU transport of the port
    ev,       \* its event service
    dev,      \* the device
    reply,    \* the OD octets on their way to the master, and who fetched them
    up,       \* the port is in OPERATE
    od_len,   \* OD width of the configured M-sequence type
    spent,    \* losses and event services so far
    obs,      \* what became of the services in progress
    beat      \* flips with every tick

vars == <<isdu, ev, dev, reply, up, od_len, spent, obs, beat>>

NoReply == [channel |-> "none", od |-> <<>>]
Zeros(n) == [i \in 1..n |-> {}]
NoEvents == [s \in {} |-> <<>>]

Devices == [
    phase : {"idle", "receiving", "busy", "answering"},
    request : Seq(Octets),
    flow : 0..(CountMod - 1),        \* the COUNT it expects
    response : Seq(Octets),
    pos : Nat,                       \* where the next segment begins
    sent : Nat,                      \* where the last one began
    store : [Objects -> Seq(Octets)],
    events : Raisable \cup {NoEvents}]

\* An observer: the data of the service, what the device made of it, and
\* whether something went missing: a piece of the response (missed), a piece
\* of the request or the device in the middle of it (cut), the device in the
\* middle of an event readout (spliced).  snapshot holds the events whose
\* StatusCode the device gave last, once the readout in progress has it.
Fresh(o, data) == [o EXCEPT !.data = data, !.made = "nothing", !.value = <<>>,
                            !.missed = FALSE, !.cut = FALSE]

-----------------------------------------------------------------------------
(* The device (external).                                                  *)

SegmentOf(stream, from, width) ==
    [i \in 1..width |-> IF from + i <= Len(stream) THEN stream[from + i] ELSE {}]

Resting(d) == [d EXCEPT !.phase = "idle", !.request = <<>>, !.flow = 0,
                        !.response = <<>>, !.pos = 0, !.sent = 0]

\* An ISDU read: the device after it, and the OD octets it answers.
DeviceRead(d, ctrl, width) ==
    LET give(from) == [dev |-> [d EXCEPT !.sent = from, !.pos = from + width,
                                         !.flow = IF ctrl = Start THEN 1
                                                  ELSE (ctrl + 1) % CountMod],
                       od |-> SegmentOf(d.response, from, width)]
    IN  IF ctrl = Start /\ d.phase = "busy"
        THEN [dev |-> d, od |-> <<Busy>> \o Zeros(width - 1)]
        ELSE IF ctrl = Start /\ d.phase = "answering" THEN give(0)
        ELSE IF d.phase = "answering" /\ ctrl = d.flow THEN give(d.pos)
        ELSE IF /\ d.phase = "answering" /\ ctrl \in 0..(CountMod - 1)
                /\ (ctrl + 1) % CountMod = d.flow
        THEN give(d.sent)
        ELSE [dev |-> Resting(d), od |-> Zeros(width)]

\* The length a stream declares, 0 if it is not there yet.
DeclaredBy(s) ==
    IF LengthNibble(s[1]) # 1 THEN LengthNibble(s[1])
    ELSE IF Len(s) >= 2 THEN Number(s[2]) ELSE 0

\* A request that is complete is taken up if it is intact.
Received(d) ==
    LET n == DeclaredBy(d.request)
        whole == SubSeq(d.request, 1, n)
    IN  IF n = 0 \/ Len(d.request) < n THEN d
        ELSE IF Chkpdu(whole) # {} THEN Resting(d)
        ELSE [d EXCEPT !.phase = "busy", !.request = whole]

DeviceWrite(d, ctrl, od) ==
    IF ctrl = Start
    THEN Received([Resting(d) EXCEPT !.phase = "receiving", !.request = od,
                                     !.flow = 1])
    ELSE IF d.phase = "receiving" /\ ctrl = d.flow
    THEN Received([d EXCEPT !.request = @ \o od,
                            !.flow = (@ + 1) % CountMod])
    ELSE Resting(d)

\* What a request asks for.
Asked(request) ==
    LET service == ServiceNibble(request[1])
        first == IF LengthNibble(request[1]) = 1 THEN 3 ELSE 2
        n == service % 8
    IN  [op |-> IF service >= 8 THEN "read" ELSE "write",
         object |-> SubSeq(request, first, first + n - 1),
         data |-> SubSeq(request, first + n, Len(request) - 1)]

PositiveResponse(op, value) ==
    Sealed(Header(IF op = "read" THEN 13 ELSE 5, 2 + Len(value)) \o value)

NegativeResponse(op) ==
    Sealed(Header(IF op = "read" THEN 12 ELSE 4, 4) \o <<{128}, {1, 16}>>)

\* The event memory as the device presents it.
MemoryOf(events) ==
    [a \in 0..(MemoryLen - 1) |->
        IF a = 0 THEN {SlotBit(s) : s \in DOMAIN events}
        ELSE LET slot == (a - 1) \div EntryLen + 1
             IN  IF slot \in DOMAIN events
                 THEN events[slot][((a - 1) % EntryLen) + 1] ELSE {}]

MemorySegment(events, addr, width) ==
    [i \in 1..width |-> IF addr + i - 1 < MemoryLen
                        THEN MemoryOf(events)[addr + i - 1] ELSE {}]

\* The device and its reply to a frame that reaches it.
Handle(d, f) ==
    CASE f.channel = "isdu" /\ f.read -> DeviceRead(d, f.ctrl, od_len)
      [] f.channel = "isdu" /\ ~f.read ->
           [dev |-> DeviceWrite(d, f.ctrl, f.od), od |-> <<>>]
      [] f.channel = "diagnosis" /\ f.read ->
           [dev |-> d, od |-> MemorySegment(d.events, f.ctrl, od_len)]
      [] f.channel = "diagnosis" /\ ~f.read ->
           [dev |-> [d EXCEPT !.events = NoEvents], od |-> <<>>]
      [] OTHER -> [dev |-> d, od |-> <<>>]

-----------------------------------------------------------------------------
(* The port.                                                               *)

\* fault: the reply is routed by what the service is doing, not by what was
\* asked of the device.
RouteOdUnarmed(e, s, od) ==
    IF EventActive(e)
    THEN [ev |-> IF e.phase = "read" THEN EventOnOd(e, od) ELSE e, isdu |-> s]
    ELSE [ev |-> e, isdu |-> IsduOnOd(s, od)]

\* iolink_master_route_od: an active event service takes the octets of its
\* own reads and drops all others.
RouteOd(e, s, od) ==
    IF EventActive(e)
    THEN [ev |-> IF e.phase = "read" /\ e.od_expected
                 THEN EventOnOd([e EXCEPT !.od_expected = FALSE], od) ELSE e,
          isdu |-> s]
    ELSE [ev |-> e, isdu |-> IsduOnOd(s, od)]

CyclicFrame == [channel |-> "process", read |-> FALSE, ctrl |-> 0, od |-> <<>>]

\* iolink_master_process_at in OPERATE: events, then ISDU, then process data.
DueFrame(e, s) ==
    IF EventActive(e) THEN EventFrame(e)
    ELSE IF IsduActive(s) THEN IsduFrame(s, od_len)
    ELSE CyclicFrame

\* What the observer notes when a frame meets its fate: "request" (the device
\* does not get it), "reply" (the master does not get the answer), "none".
Noted(o, s, f, lost) ==
    LET isduRead == f.channel = "isdu" /\ f.read
        isduWrite == f.channel = "isdu" /\ ~f.read
        statusRead == f.channel = "diagnosis" /\ f.read /\ f.ctrl = 0
    IN  [o EXCEPT
           !.missed = @ \/ (isduRead /\ s.phase = "response" /\ lost # "none"),
           !.cut = @ \/ (isduWrite /\ lost = "request"),
           !.snapshot = IF statusRead /\ lost = "none" THEN {dev.events} ELSE @]

Tick(lost) ==
    LET routed == RouteOd(ev, isdu, reply.od)
        f == DueFrame(routed.ev, routed.isdu)
        dropped == /\ EventActive(ev) /\ isdu.phase = "response"
                   /\ reply.channel = "isdu" /\ reply.od # <<>>
        handled == Handle(dev, f)
    IN  /\ up
        /\ lost # "none" => spent.losses < MaxLosses /\ f.channel # "process"
        /\ ev' = IF f.channel = "diagnosis" THEN EventSent(routed.ev)
                 ELSE routed.ev
        /\ isdu' = IF f.channel = "isdu" THEN IsduSent(routed.isdu, od_len)
                   ELSE routed.isdu
        /\ dev' = IF lost = "request" THEN dev ELSE handled.dev
        /\ reply' = IF lost = "none"
                    THEN [channel |-> f.channel, od |-> handled.od]
                    ELSE NoReply
        /\ obs' = Noted([obs EXCEPT !.missed = @ \/ dropped],
                        routed.isdu, f, lost)
        /\ spent' = IF lost = "none" THEN spent
                    ELSE [spent EXCEPT !.losses = @ + 1]
        /\ beat' = ~beat
        /\ UNCHANGED <<up, od_len>>

-----------------------------------------------------------------------------
(* The application.                                                        *)

Read(object) ==
    /\ up
    /\ isdu' = ReadIsdu(isdu, object, BufferSize).isdu
    /\ obs' = IF isdu.op = "none" \/ isdu'.op = "none"
              THEN Fresh(obs, <<>>) ELSE obs
    /\ UNCHANGED <<ev, dev, reply, up, od_len, spent, beat>>

Write(object, data) ==
    /\ up
    /\ isdu' = WriteIsdu(isdu, object, data).isdu
    /\ obs' = IF isdu'.op = "none" THEN Fresh(obs, <<>>)
              ELSE IF isdu.op = "none" THEN Fresh(obs, data) ELSE obs
    /\ UNCHANGED <<ev, dev, reply, up, od_len, spent, beat>>

CallEvent(request) ==
    LET starts == ~EventActive(ev) /\ ~EventComplete(ev)
    IN  /\ up
        /\ starts => spent.calls < MaxEventCalls
        /\ ev' = EventCall(ev, request).event
        /\ spent' = IF starts THEN [spent EXCEPT !.calls = @ + 1] ELSE spent
        /\ obs' = IF EventActive(ev) THEN obs
                  ELSE [obs EXCEPT !.spliced = FALSE, !.snapshot = {}]
        /\ UNCHANGED <<isdu, dev, reply, up, od_len, beat>>

\* iolink_master_init over the running port: the services are forgotten.
Restart ==
    /\ up' = FALSE /\ isdu' = IsduClear /\ ev' = EventIdle
    /\ dev' = Resting(dev) /\ reply' = NoReply
    /\ obs' = [Fresh(obs, <<>>) EXCEPT !.spliced = FALSE, !.snapshot = {}]
    /\ UNCHANGED <<od_len, spent, beat>>

-----------------------------------------------------------------------------
(* The connection and the device.                                          *)

\* COMLOST.  The services stay as they are; the device forgets the
\* communication, and is exchanged for another one, or not.
LoseConnection(exchanged) ==
    /\ up /\ spent.losses < MaxLosses
    /\ up' = FALSE /\ reply' = NoReply
    /\ dev' = IF exchanged THEN [Resting(dev) EXCEPT !.events = NoEvents]
              ELSE Resting(dev)
    /\ obs' = [obs EXCEPT !.missed = @ \/ isdu.phase = "response",
                          !.cut = @ \/ isdu.phase \in {"request", "wait"},
                          !.spliced = @ \/ (exchanged /\ EventActive(ev))]
    /\ spent' = [spent EXCEPT !.losses = @ + 1]
    /\ UNCHANGED <<isdu, ev, od_len, beat>>

Reestablish ==
    /\ ~up /\ up' = TRUE
    /\ UNCHANGED <<isdu, ev, dev, reply, od_len, spent, obs, beat>>

Execute(accepts) ==
    LET asked == Asked(dev.request)
        value == IF asked.op = "read" THEN dev.store[asked.object] ELSE <<>>
    IN  /\ dev.phase = "busy"
        /\ asked.object \in Objects
        /\ dev' = [dev EXCEPT
              !.phase = "answering", !.request = <<>>, !.flow = 0,
              !.response = IF accepts THEN PositiveResponse(asked.op, value)
                           ELSE NegativeResponse(asked.op),
              !.store = IF accepts /\ asked.op = "write"
                        THEN [@ EXCEPT ![asked.object] = asked.data] ELSE @]
        /\ obs' = [obs EXCEPT !.made = IF accepts THEN "executed" ELSE "refused",
                              !.value = IF accepts THEN value ELSE <<>>]
        /\ UNCHANGED <<isdu, ev, reply, up, od_len, spent, beat>>

\* An event is raised while no other waits for confirmation.
Raise(events) ==
    /\ dev.events = NoEvents /\ up
    /\ dev' = [dev EXCEPT !.events = events]
    /\ UNCHANGED <<isdu, ev, reply, up, od_len, spent, obs, beat>>

-----------------------------------------------------------------------------
Init ==
    /\ isdu = IsduClear /\ ev = EventIdle
    /\ dev = [phase |-> "idle", request |-> <<>>, flow |-> 0,
              response |-> <<>>, pos |-> 0, sent |-> 0, store |-> Store,
              events |-> NoEvents]
    /\ reply = NoReply /\ up = TRUE /\ od_len \in OdLens
    /\ spent = [losses |-> 0, calls |-> 0]
    /\ obs = [data |-> <<>>, made |-> "nothing", value |-> <<>>,
              missed |-> FALSE, cut |-> FALSE, spliced |-> FALSE,
              snapshot |-> {}]
    /\ beat = FALSE

Next ==
    \/ \E lost \in {"none", "request", "reply"} : Tick(lost)
    \/ \E object \in Objects : Read(object)
    \/ \E w \in Writes : Write(w[1], w[2])
    \/ \E request \in EventCalls : CallEvent(request)
    \/ Restart
    \/ \E exchanged \in BOOLEAN : LoseConnection(exchanged)
    \/ Reestablish
    \/ \E accepts \in BOOLEAN : Execute(accepts)
    \/ \E events \in Raisable : Raise(events)

Spec == Init /\ [][Next]_vars

\* The host keeps ticking (beat flips with every tick, even one that changes
\* nothing else), a lost connection is established again, and the device
\* answers a request it has taken.
Fairness ==
    /\ []<>beat /\ []<>~beat
    /\ []<>up
    /\ []<>(dev.phase # "busy")

FairSpec == Spec /\ Fairness

-----------------------------------------------------------------------------

\* All records stay within their types, the memory image and the response
\* within the C arrays that hold them (isdu_on_od, event_on_od).
TypeOK ==
    /\ isdu \in IsduStates /\ Len(isdu.response) <= BufferSize
    /\ ev \in EventStates(Octets)
    /\ dev \in Devices /\ reply.od \in Seq(Octets)
    /\ {obs.missed, obs.cut, obs.spliced} \subseteq BOOLEAN
    /\ spent.losses \in 0..MaxLosses /\ spent.calls \in 0..MaxEventCalls

\* The service as its caller sees it.
ServiceOK == isdu.done /\ isdu.error = "none"

CallerView ==
    [op |-> isdu.op, object |-> isdu.index, data |-> obs.data,
     made |-> obs.made, value |-> obs.value, lossy |-> obs.missed,
     result |-> IF ~isdu.done THEN "none"
                ELSE IF ServiceOK THEN "OK" ELSE "error",
     answer |-> IF ServiceOK /\ ~obs.missed THEN isdu.response ELSE <<>>]

Channel == INSTANCE IsduChannel WITH
    Values <- Seq(Octets), Writable <- {w[2] : w \in Writes}, store <- dev.store,
    channel <- IF isdu.op = "none"
               THEN [CallerView EXCEPT !.data = <<>>, !.made = "nothing",
                                       !.value = <<>>, !.lossy = FALSE]
               ELSE CallerView

\* Segmentation, FlowCTRL, CHKPDU and the length fields amount to the service
\* of IsduChannel: what the device executes is what was asked for, once, and a
\* read that lost nothing of its response returns the value of the device.
ChannelImplemented == Channel!Spec

\* The octets of a response except the first XOR to zero in no selection: a
\* gap cannot be hidden from CHKPDU.
Detectable(stream) ==
    \A gap \in (SUBSET (2..Len(stream))) \ {{}} :
        Chkpdu([i \in 1..Len(stream) |-> IF i \in gap THEN stream[i] ELSE {}])
            # {}

\* A response that lost a segment (FlowCTRL advances when a segment is sent,
\* answered or not) is not passed off as the value of the object, as long as
\* CHKPDU can tell the difference (decode_response).
LossDetected ==
    ServiceOK /\ isdu.op = "read" /\ isdu.response # obs.value
        => ~Detectable(PositiveResponse("read", obs.value))

\* A completed readout reports exactly the events that the device held when
\* it gave its StatusCode, whatever was lost or sent in between, and whoever
\* collects it (event_on_od, route_od, read_event_details, first_code).
EventsExact ==
    EventComplete(ev) /\ ~obs.spliced
        => \E events \in obs.snapshot :
              LET slots == DOMAIN events
              IN  /\ ActiveSlots(ev.memory) = slots
                  /\ \A s \in slots :
                        LET e == EventAt(ev.memory, s)
                        IN  <<e.qualifier, e.code[1], e.code[2]>> = events[s]

\* The device is told to release its events only by a master that has read
\* all of them (event_on_od before the StatusCode write of send_event).  A
\* readout that found no event is left out: ack_event confirms it all the same,
\* and with it an event raised since.
ReleasedAfterRead ==
    [][/\ dev.events # NoEvents /\ dev'.events = NoEvents
       /\ up' /\ ~obs.spliced /\ ActiveSlots(ev'.memory) # {}
       => \A a \in 0..(Needed(MemoryOf(dev.events)) - 1) :
             ev'.memory[a] = MemoryOf(dev.events)[a]]_vars

\* Every ISDU service comes to an end, in spite of lost replies, events in
\* between and lost connections, unless the device never got the request.
ServiceEnds ==
    isdu.op # "none" ~> isdu.done \/ isdu.op = "none" \/ obs.cut

\* Every event readout comes to an end, even across a lost connection.
ReadoutEnds == EventActive(ev) ~> ~EventActive(ev)

=============================================================================
