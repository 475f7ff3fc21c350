--------------------------- MODULE IsduTransport ---------------------------
(***************************************************************************)
(* The ISDU transport of a port (src/master_isdu.c): a request or response  *)
(* is a stream of octets, cut into segments of the OD width, one segment    *)
(* per M-sequence, numbered by FlowCTRL and sealed by CHKPDU.               *)
(*                                                                          *)
(* Every C function is an operator on the isdu record of the port.  The     *)
(* octets are kept, because the checksum and the length fields are what the *)
(* transport lives on: an octet is the set of the weights of its bits, and  *)
(* XOR is the symmetric difference.  An object is named by the octets that  *)
(* encode its index and subindex (one, two or three of them).               *)
(***************************************************************************)
EXTENDS Integers, Sequences, FiniteSetsExt

CONSTANTS
    BufferSize,       \* IOLINK_ISDU_BUFFER_SIZE
    Objects           \* the index encodings the application uses

Bits == {1, 2, 4, 8, 16, 32, 64, 128}
Octets == SUBSET Bits

ASSUME BufferAssumption == BufferSize \in 8..256
ASSUME ObjectsAssumption ==
    \A o \in Objects : o \in Seq(Octets) /\ Len(o) \in 1..3

CountMod == 16        \* IOLINK_FLOWCTRL_COUNT_MASK + 1
LengthMax == 15       \* IOLINK_MASTER_ISDU_LENGTH_NIBBLE_MAX
ExtMax == 238         \* IOLINK_MASTER_ISDU_EXT_MAX
WriteHeaderMax == 7   \* IOLINK_MASTER_ISDU_WRITE_HEADER_MAX

NoService == {}       \* 0x00
Busy == {1}           \* 0x01

\* FlowCTRL: the COUNT, or one of these.
Start == 16           \* IOLINK_FLOWCTRL_START
IdleCtrl == 17        \* IOLINK_FLOWCTRL_IDLE
AbortCtrl == 31       \* IOLINK_FLOWCTRL_ABORT
FlowCtrl == 0..(CountMod - 1) \cup {Start, IdleCtrl, AbortCtrl}

Number(o) == SumSet(o)
OctetOf(n) == {b \in Bits : (n \div b) % 2 = 1}
LengthNibble(o) == Number(o \cap {1, 2, 4, 8})
ServiceNibble(o) == Number(o \cap {16, 32, 64, 128}) \div 16

Chkpdu(s) ==
    LET chk[n \in 0..Len(s)] == IF n = 0 THEN {} ELSE SymDiff(chk[n - 1], s[n])
    IN  chk[Len(s)]

Sealed(s) == Append(s, Chkpdu(s))

NoObject == <<>>

IsduStates == [
    op : {"none", "read", "write"},
    index : Objects \cup {NoObject},
    phase : {"none", "request", "wait", "response"},
    request : Seq(Octets),
    request_pos : Nat,
    flowctrl : FlowCtrl,
    expected_len : Nat,
    response : Seq(Octets),
    done : BOOLEAN,
    idle_pending : BOOLEAN,
    abort_pending : BOOLEAN,
    error : {"none", "segmentation", "device"}]

-----------------------------------------------------------------------------
(* Starting and ending a service.                                          *)

IsduClear ==
    [op |-> "none", index |-> NoObject, phase |-> "none", request |-> <<>>,
     request_pos |-> 0, flowctrl |-> IdleCtrl, expected_len |-> 0,
     response |-> <<>>, done |-> FALSE, idle_pending |-> FALSE,
     abort_pending |-> FALSE, error |-> "none"]

IsduStart(op, index, request) ==
    [IsduClear EXCEPT !.op = op, !.index = index, !.phase = "request",
                      !.request = request, !.flowctrl = Start]

IsduBusy(s) == s.op # "none" /\ ~s.done
IsduMatches(s, op, index) == s.op = op /\ s.index = index

\* iolink_master_isdu_finish_read and _write: only a pending ABORT survives,
\* and only that of a failed service.
IsduFinish(s) ==
    [IsduClear EXCEPT !.abort_pending = s.abort_pending /\ s.error # "none"]

\* The first octet: I-Service and, in the low nibble, the length or 1 when an
\* ExtLength octet, which counts itself, follows.
Header(service, total) ==
    IF total <= LengthMax THEN <<OctetOf(16 * service + total)>>
    ELSE <<OctetOf(16 * service + 1), OctetOf(total + 1)>>

ReadRequest(index) ==
    Sealed(Header(8 + Len(index), 2 + Len(index)) \o index)

WriteTotal(index, data) == 2 + Len(index) + Len(data)

WriteFits(index, data) ==
    LET total == WriteTotal(index, data)
    IN  /\ Len(data) <= BufferSize - WriteHeaderMax
        /\ (IF total > LengthMax THEN total + 1 ELSE total) <= ExtMax
        /\ total # LengthMax + 1

WriteRequest(index, data) ==
    Sealed(Header(Len(index), WriteTotal(index, data)) \o index \o data)

\* iolink_master_read_isdu and iolink_master_write_isdu, in a state that
\* allows services: what they return, and the transport they leave.  cap is
\* the size of the caller's buffer.
ReadIsdu(s, index, cap) ==
    IF IsduBusy(s)
    THEN [isdu |-> s,
          ret |-> IF IsduMatches(s, "read", index) THEN "PENDING" ELSE "BUSY"]
    ELSE IF s.done
    THEN IF ~IsduMatches(s, "read", index) THEN [isdu |-> s, ret |-> "BUSY"]
         ELSE IF s.error # "none"
         THEN [isdu |-> IsduFinish(s), ret |-> "DEVICE"]
         ELSE IF cap < Len(s.response)
         THEN [isdu |-> s, ret |-> "BUFFER_TOO_SMALL"]
         ELSE [isdu |-> IsduFinish(s), ret |-> "OK"]
    ELSE [isdu |-> IsduStart("read", index, ReadRequest(index)),
          ret |-> "PENDING"]

WriteIsdu(s, index, data) ==
    IF IsduBusy(s)
    THEN [isdu |-> s,
          ret |-> IF IsduMatches(s, "write", index) THEN "PENDING" ELSE "BUSY"]
    ELSE IF s.done
    THEN IF ~IsduMatches(s, "write", index) THEN [isdu |-> s, ret |-> "BUSY"]
         ELSE [isdu |-> IsduFinish(s),
               ret |-> IF s.error # "none" THEN "DEVICE" ELSE "OK"]
    ELSE IF ~WriteFits(index, data)
    THEN [isdu |-> s, ret |-> "BUFFER_TOO_SMALL"]
    ELSE [isdu |-> IsduStart("write", index, WriteRequest(index, data)),
          ret |-> "PENDING"]

-----------------------------------------------------------------------------
(* Sending a segment.                                                      *)

\* COUNT goes 1..15, 0, 1, ...

\* fault: COUNT starts over at 1 instead of 0.
NextCountSkips(flow) ==
    IF flow \in {Start, IdleCtrl} \/ flow = CountMod - 1 THEN 1 ELSE flow + 1

NextCount(flow) ==
    IF flow \in {Start, IdleCtrl} THEN 1 ELSE (flow + 1) % CountMod

\* iolink_master_isdu_fill_od: the transport advances when a segment is sent.
Segment(s, width) ==
    [i \in 1..width |-> IF s.request_pos + i <= Len(s.request)
                        THEN s.request[s.request_pos + i] ELSE {}]

FillOd(s, width) ==
    CASE s.phase = "request" ->
           IF s.request_pos + width >= Len(s.request)
           THEN [s EXCEPT !.request_pos = Len(s.request), !.phase = "wait",
                          !.flowctrl = Start]
           ELSE [s EXCEPT !.request_pos = @ + width,
                          !.flowctrl = NextCount(@)]
      [] s.phase = "wait" -> [s EXCEPT !.flowctrl = Start]
      [] s.phase = "response" -> [s EXCEPT !.flowctrl = NextCount(@)]
      [] OTHER -> s

IsduActive(s) == s.abort_pending \/ s.idle_pending \/ IsduBusy(s)

\* iolink_master_send_isdu: a latched ABORT goes first, then the concluding
\* IDLE, then the segment that is due.
IsduFrame(s, width) ==
    [channel |-> "isdu",
     read |-> s.abort_pending \/ s.idle_pending \/ s.phase # "request",
     ctrl |-> CASE s.abort_pending -> AbortCtrl
                [] s.idle_pending /\ ~s.abort_pending -> IdleCtrl
                [] OTHER -> s.flowctrl,
     od |-> IF s.abort_pending \/ s.idle_pending \/ s.phase # "request"
            THEN <<>> ELSE Segment(s, width)]

IsduSent(s, width) ==
    CASE s.abort_pending -> [s EXCEPT !.abort_pending = FALSE]
      [] s.idle_pending /\ ~s.abort_pending -> [s EXCEPT !.idle_pending = FALSE]
      [] OTHER -> FillOd(s, width)

-----------------------------------------------------------------------------
(* Receiving.                                                              *)

Segmentation(s) ==
    [s EXCEPT !.error = "segmentation", !.done = TRUE, !.phase = "none"]

\* A complete response: the whole stream has to XOR to zero; I-Service 0x4 or
\* 0xC is the device's refusal; otherwise the payload is what is left between
\* the header and CHKPDU.
Negative(s) == ServiceNibble(s.response[1]) \in {4, 12}

\* fault: ExtLength is taken for data.
PayloadStartFixed(s) == 2

PayloadStart(s) == IF LengthNibble(s.response[1]) = 1 THEN 3 ELSE 2
Payload(s) == SubSeq(s.response, PayloadStart(s), Len(s.response) - 1)

\* fault: the checksum of the response is not verified.
DecodeResponseUnchecked(s) ==
    IF Negative(s)
    THEN [s EXCEPT !.error = "device", !.done = TRUE, !.idle_pending = TRUE,
                   !.phase = "none"]
    ELSE [s EXCEPT !.response = Payload(s), !.done = TRUE,
                   !.idle_pending = TRUE, !.phase = "none"]

DecodeResponse(s) ==
    IF Chkpdu(s.response) # {}
    THEN [Segmentation(s) EXCEPT !.abort_pending = TRUE]
    ELSE IF Negative(s)
    THEN [s EXCEPT !.error = IF Len(s.response) >= 4 THEN "device"
                             ELSE "segmentation",
                   !.done = TRUE, !.idle_pending = TRUE, !.phase = "none"]
    ELSE [s EXCEPT !.response = Payload(s), !.done = TRUE,
                   !.idle_pending = TRUE, !.phase = "none"]

\* The declared length of the stream, 0 while it is not known yet.
Declared(s) ==
    LET nibble == LengthNibble(s.response[1])
    IN  IF s.expected_len # 0 THEN s.expected_len
        ELSE IF nibble # 1 THEN nibble
        ELSE IF Len(s.response) >= 2 THEN Number(s.response[2]) ELSE 0

\* The octets that end the wait were fetched by START: COUNT 1 is next.
ResponseStarts(s) ==
    [s EXCEPT !.phase = "response", !.response = <<>>, !.expected_len = 0,
              !.flowctrl = 1]

BufferFull(s) == Len(s.response) >= BufferSize

\* iolink_master_isdu_on_od, octet by octet.
OnOctet(s, octet) ==
    LET r == IF s.phase = "wait" THEN ResponseStarts(s) ELSE s
        t == [r EXCEPT !.response = Append(@, octet)]
        u == [t EXCEPT !.expected_len = Declared(t)]
        waiting == LengthNibble(t.response[1]) = 1 /\ Len(t.response) = 1
    IN  IF s.phase \notin {"wait", "response"} \/ s.done THEN s
        ELSE IF s.phase = "wait" /\ octet \in {NoService, Busy} THEN s
        ELSE IF BufferFull(r) THEN Segmentation(r)
        ELSE IF LengthNibble(t.response[1]) = 0 THEN Segmentation(t)
        ELSE IF ~waiting /\ Len(u.response) >= u.expected_len
        THEN DecodeResponse(u)
        ELSE u

IsduOnOd(s, od) ==
    LET at[n \in 0..Len(od)] ==
          IF n = 0 THEN s ELSE OnOctet(at[n - 1], od[n])
    IN  at[Len(od)]

=============================================================================
