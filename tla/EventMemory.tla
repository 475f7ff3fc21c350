---------------------------- MODULE EventMemory ----------------------------
(***************************************************************************)
(* The event-memory service of a port (src/master_isdu.c): the device's     *)
(* event memory, a StatusCode octet with one bit per slot and three octets  *)
(* per slot (qualifier, code MSB, code LSB), is read octet by octet over    *)
(* the diagnosis channel, and confirmed by a write to the StatusCode.       *)
(*                                                                          *)
(* The C functions are operators on the event record of the port.  Octets   *)
(* are those of IsduTransport: sets of bit weights.                         *)
(***************************************************************************)
EXTENDS Integers, Sequences, FiniteSetsExt

CONSTANT SlotMax      \* IOLINK_MASTER_EVENT_SLOT_MAX

ASSUME SlotAssumption == SlotMax \in 1..6

EntryLen == 3                           \* IOLINK_MASTER_EVENT_ENTRY_LEN
MemoryLen == EntryLen * SlotMax + 1     \* IOLINK_MASTER_EVENT_MEMORY_LEN
Slots == 1..SlotMax

\* The bit of a slot in the StatusCode, and the active slots of an image.
SlotBit(slot) == 2^(slot - 1)
ActiveSlots(memory) == {slot \in Slots : SlotBit(slot) \in memory[0]}
Base(slot) == EntryLen * (slot - 1) + 1

Requests == {"code", "ack", "details"}

EventStates(octets) == [
    phase : {"none", "read", "write"},
    request : Requests \cup {"none"},
    memory : [0..(MemoryLen - 1) -> octets],
    addr : 0..MemoryLen,
    needed : 1..MemoryLen,
    status_seen : BOOLEAN,
    od_expected : BOOLEAN]

Blank == [a \in 0..(MemoryLen - 1) |-> {}]

EventIdle ==
    [phase |-> "none", request |-> "none", memory |-> Blank, addr |-> 0,
     needed |-> 1, status_seen |-> FALSE, od_expected |-> FALSE]

EventStart(request) ==
    [EventIdle EXCEPT !.request = request, !.phase = "read"]

EventFinish(ev) == [ev EXCEPT !.phase = "none", !.od_expected = FALSE]

EventActive(ev) == ev.phase # "none"
EventComplete(ev) == ev.phase = "none" /\ ev.request # "none"

-----------------------------------------------------------------------------
(* The octets of a diagnosis read.                                         *)

\* Slot n occupies the addresses 3n - 2 to 3n.
Needed(memory) ==
    IF ActiveSlots(memory) = {} THEN 1
    ELSE EntryLen * Max(ActiveSlots(memory)) + 1

\* fault: a wide segment runs past the end of the image.
EventOctetUnbounded(ev, octet) ==
    LET f == [ev EXCEPT !.memory[ev.addr] = octet, !.addr = @ + 1]
    IN  IF f.status_seen THEN f
        ELSE [f EXCEPT !.status_seen = TRUE, !.needed = Needed(f.memory)]

EventOctet(ev, octet) ==
    LET f == IF ev.addr < MemoryLen
             THEN [ev EXCEPT !.memory[ev.addr] = octet, !.addr = @ + 1]
             ELSE ev
    IN  IF f.status_seen THEN f
        ELSE [f EXCEPT !.status_seen = TRUE, !.needed = Needed(f.memory)]

\* fault: a readout is confirmed once the StatusCode is known.
EventReadEager(ev) == ev.status_seen

EventRead(ev) == ev.status_seen /\ ev.addr >= ev.needed

EventOnOd(ev, od) ==
    LET at[n \in 0..Len(od)] ==
          IF n = 0 THEN ev ELSE EventOctet(at[n - 1], od[n])
        f == at[Len(od)]
    IN  IF ev.phase # "read" THEN ev
        ELSE IF ~EventRead(f) THEN f
        ELSE IF f.request = "ack" THEN [f EXCEPT !.phase = "write", !.addr = 0]
        ELSE EventFinish(f)

\* iolink_master_send_event: the frame, and the service once it is sent.
\* The confirming write completes the service at once.
EventFrame(ev) ==
    [channel |-> "diagnosis", read |-> ev.phase = "read", ctrl |-> ev.addr,
     od |-> <<>>]

\* fault: the reply to a diagnosis read is not expected.
EventSentUnarmed(ev) == IF ev.phase = "read" THEN ev ELSE EventFinish(ev)

EventSent(ev) ==
    IF ev.phase = "read" THEN [ev EXCEPT !.od_expected = TRUE]
    ELSE EventFinish(ev)

-----------------------------------------------------------------------------
(* The calls of the application, and what they report.                     *)

\* read_event_code, ack_event and read_event_details in a state that allows
\* services: whichever comes next collects a completed readout (the image is
\* dead from then on: a new readout starts with a blank one).
EventCall(ev, request) ==
    IF EventActive(ev) THEN [event |-> ev, ret |-> "PENDING"]
    ELSE IF ~EventComplete(ev)
    THEN [event |-> EventStart(request), ret |-> "PENDING"]
    ELSE [event |-> EventIdle, ret |-> "OK"]

EventType(qualifier) ==
    CASE qualifier \cap {16, 32} = {16} -> "notification"
      [] qualifier \cap {16, 32} = {32} -> "warning"
      [] qualifier \cap {16, 32} = {16, 32} -> "error"
      [] OTHER -> "unknown"

EventAt(memory, slot) ==
    [qualifier |-> memory[Base(slot)],
     type |-> EventType(memory[Base(slot)]),
     code |-> <<memory[Base(slot) + 1], memory[Base(slot) + 2]>>]

\* The events of an image in slot order, no more than max of them, but one
\* even if max is 0.
EventDetails(memory, max) ==
    LET active == ActiveSlots(memory)
        nth(n) == CHOOSE s \in active :
                      Cardinality({t \in active : t <= s}) = n
    IN  [n \in 1..Min({Cardinality(active), Max({max, 1})}) |->
            EventAt(memory, nth(n))]

\* The code of the first active slot, or no code (0).
FirstCode(memory) ==
    IF ActiveSlots(memory) = {} THEN <<{}, {}>>
    ELSE EventAt(memory, Min(ActiveSlots(memory))).code

=============================================================================
