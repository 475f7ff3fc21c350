------------------------ MODULE PortExchange_proofs -------------------------
(***************************************************************************)
(* The exchange of requests and replies of a port, proved for every value   *)
(* of the constants a theorem does not restrict: a reply that is there wins *)
(* over its timeout; a port whose device is never swapped operates only the *)
(* device it asked for; and on a line that neither garbles nor truncates,   *)
(* with one reply outstanding at a time, every reply is consumed with the   *)
(* length it was sent with, so that nothing but silence costs a retry or    *)
(* the connection.                                                          *)
(*                                                                          *)
(* The last part rests on the inductive invariant Framed: which replies may *)
(* be owed and which may wait in the receive FIFO, in every state and step. *)
(***************************************************************************)
EXTENDS EstablishCom_proofs

-----------------------------------------------------------------------------
(* What the operators do to the fields the exchange is about.              *)

\* The receive path, the line and the gate are left alone.
SameWire(p, q) ==
    /\ q.rx = p.rx /\ q.fifo = p.fifo /\ q.owed = p.owed
    /\ q.rx_od_expected = p.rx_od_expected
    /\ q.tx = p.tx /\ q.send_gate = p.send_gate

\* So are the acyclic services.
SameService(p, q) ==
    /\ q.isdu_phase = p.isdu_phase /\ q.isdu_pending = p.isdu_pending
    /\ q.isdu_op = p.isdu_op /\ q.isdu_result = p.isdu_result
    /\ q.event = p.event

\* And what drives the port from one state to the next.
SameControl(p, q) ==
    /\ q.state = p.state /\ q.step = p.step
    /\ q.rx_retry_count = p.rx_retry_count
    /\ q.awaiting_response = p.awaiting_response
    /\ q.device_info = p.device_info

\* Fields left alone by two calls are left alone by both together.
LEMMA SameTrans ==
    ASSUME NEW p, NEW s, NEW q
    PROVE  /\ SameWire(p, s) /\ SameWire(s, q) => SameWire(p, q)
           /\ SameService(p, s) /\ SameService(s, q) => SameService(p, q)
           /\ SameControl(p, s) /\ SameControl(s, q) => SameControl(p, q)
BY DEF SameWire, SameService, SameControl

\* Routing an octet concerns the service alone; a service at rest, and one that
\* is none, stay so (route_od).
RoutesOnly(p, q) ==
    /\ SameWire(p, q) /\ SameControl(p, q)
    /\ EventActive(q) => EventActive(p)
    /\ p.isdu_phase # "wait" =>
          q.isdu_phase = p.isdu_phase /\ q.isdu_pending = p.isdu_pending

\* The octet of a reply goes to the event service or to the ISDU service.
LEMMA RouteOdFields ==
    ASSUME NEW p \in Ports, NEW od, NEW c
    PROVE  RoutesOnly(p, RouteOd(p, od, c))
  <1> DEFINE x == [p EXCEPT !.event_od_expected = FALSE]
  <1>1. RoutesOnly(p, p)
    BY DEF RoutesOnly, SameWire, SameControl
  <1>2. RoutesOnly(p, IsduOnOd(p, od, c))
    BY DEF IsduOnOd, RoutesOnly, SameWire, SameControl, EventActive, Ports
  <1>3. EventActive(p) => RoutesOnly(p, EventOnOd(x, c))
    BY DEF EventOnOd, RoutesOnly, SameWire, SameControl, Ports
  <1> QED
    BY <1>1, <1>2, <1>3 DEF RouteOd

\* The state an accepted reply takes the port to.
StateAfterReply(p) ==
    IF p.state = "STARTUP" THEN "PREOPERATE"
    ELSE IF p.state = "PREOPERATE" /\ p.step = "AWAIT_OPERATE_ACK"
    THEN "OPERATE" ELSE p.state

\* A reply was taken: the wait is over, no retry is counted, the services have
\* their octet (on_rx).
Replied(p, q) ==
    /\ SameWire(p, q)
    /\ q.step = p.step /\ q.device_info = p.device_info
    /\ q.rx_retry_count = 0 /\ ~q.awaiting_response
    /\ q.state = StateAfterReply(p)
    /\ EventActive(q) => EventActive(p)
    /\ p.isdu_phase # "wait" =>
          q.isdu_phase = p.isdu_phase /\ q.isdu_pending = p.isdu_pending

\* ReplyTaken, field by field.
LEMMA ReplyTakenAll ==
    ASSUME NEW p \in Ports
    PROVE  LET q == ReplyTaken(p)
           IN  /\ SameWire(p, q) /\ SameService(p, q)
               /\ q.state = p.state /\ q.step = p.step
               /\ q.device_info = p.device_info
               /\ q.rx_retry_count = 0 /\ q.awaiting_response = FALSE
               /\ q.event_od_expected = p.event_od_expected
BY DEF ReplyTaken, Ports, SameWire, SameService

\* A routed reply is a reply taken.
LEMMA RoutedReplied ==
    ASSUME NEW p \in Ports, NEW s, NEW q,
           SameWire(p, s), SameService(p, s),
           s.step = p.step, s.device_info = p.device_info,
           s.rx_retry_count = 0, ~s.awaiting_response,
           s.state = StateAfterReply(p), RoutesOnly(s, q)
    PROVE  Replied(p, q)
BY DEF Replied, RoutesOnly, SameWire, SameService, SameControl, EventActive

\* A frame the port accepts is a reply taken, in every state that polls.
LEMMA OnRxReplied ==
    ASSUME NEW p \in Good, NEW f, NEW c, Accepts(p, f), Polled(p)
    PROVE  Replied(p, OnRx(p, f, c))
  <1> DEFINE t == ReplyTaken(p)
  <1>1. p \in Ports /\ t \in Ports
    BY ReplyTakenKept DEF Kept, Good
  <1>2. /\ SameWire(p, t) /\ SameService(p, t)
        /\ t.state = p.state /\ t.step = p.step
        /\ t.device_info = p.device_info
        /\ t.rx_retry_count = 0 /\ t.awaiting_response = FALSE
    BY <1>1, ReplyTakenAll
  <1>3. CASE p.state = "STARTUP"
    <2>1. OnRx(p, f, c) = [t EXCEPT !.wake_attempts = 0, !.state = "PREOPERATE"]
      BY <1>3 DEF OnRx, OnRxStartup
    <2> DEFINE q == [t EXCEPT !.wake_attempts = 0, !.state = "PREOPERATE"]
    <2> HIDE DEF t
    <2>2. /\ SameWire(t, q) /\ SameService(t, q) /\ q.state = "PREOPERATE"
          /\ q.step = t.step /\ q.device_info = t.device_info
          /\ q.rx_retry_count = t.rx_retry_count
          /\ q.awaiting_response = t.awaiting_response
      BY <1>1 DEF Ports, SameWire, SameService
    <2> HIDE DEF q
    <2>3. Replied(p, q)
      BY <1>2, <1>3, <2>2
      DEF Replied, StateAfterReply, SameWire, SameService, EventActive
    <2> QED
      BY <2>1, <2>3 DEF q
  <1>4. CASE p.state = "OPERATE" /\ ~Type0
    <2> DEFINE b == (f[Len(f)] = "cks_event")
               d == (t.pd_valid \/ f[Len(f)] # "cks_invalid")
               s == [t EXCEPT !.event_pending = b, !.pd_valid = d]
               x == (s.event_od_expected /\ ~EventReading(s))
               z == [s EXCEPT !.event_od_expected = x]
    <2>1. OnRx(p, f, c) = IF p.rx_od_expected THEN RouteOd(s, f[1], c) ELSE z
      BY <1>4 DEF OnRx, OnRxTyped
    <2>2. b \in BOOLEAN /\ d \in BOOLEAN
      OBVIOUS
    <2> HIDE DEF b, d, t
    <2>3. s \in Ports
      BY <1>1, <2>2, ZenonT(40) DEF Ports
    <2>4. /\ SameWire(t, s) /\ SameService(t, s) /\ s.state = t.state
          /\ s.step = t.step /\ s.device_info = t.device_info
          /\ s.rx_retry_count = t.rx_retry_count
          /\ s.awaiting_response = t.awaiting_response
      BY <1>1 DEF Ports, SameWire, SameService
    <2> HIDE DEF s, x
    <2>5. SameWire(p, s) /\ SameService(p, s)
      BY <1>2, <2>4, SameTrans
    <2>6. s.state = StateAfterReply(p)
      BY <1>2, <1>4, <2>4 DEF StateAfterReply
    <2>7. RoutesOnly(s, RouteOd(s, f[1], c))
      BY <2>3, RouteOdFields
    <2>8. RoutesOnly(s, z)
      BY <2>3 DEF Ports, RoutesOnly, SameWire, SameControl, EventActive
    <2> HIDE DEF z
    <2> QED
      BY <1>1, <1>2, <2>1, <2>4, <2>5, <2>6, <2>7, <2>8, RoutedReplied
  <1>5. CASE p.state = "PREOPERATE" /\ p.step = "AWAIT_OPERATE_ACK"
    <2> DEFINE b == (f[1] = "cks_event")
               q == [t EXCEPT !.event_pending = b, !.state = "OPERATE"]
    <2>1. OnRx(p, f, c) = q
      BY <1>5 DEF OnRx, OnRxOperateAck
    <2> HIDE DEF t, b
    <2>2. /\ SameWire(t, q) /\ SameService(t, q) /\ q.state = "OPERATE"
          /\ q.step = t.step /\ q.device_info = t.device_info
          /\ q.rx_retry_count = t.rx_retry_count
          /\ q.awaiting_response = t.awaiting_response
      BY <1>1 DEF Ports, SameWire, SameService
    <2> HIDE DEF q
    <2>3. Replied(p, q)
      BY <1>2, <1>5, <2>2
      DEF Replied, StateAfterReply, SameWire, SameService, EventActive
    <2> QED
      BY <2>1, <2>3
  <1>6. CASE \/ p.state = "OPERATE" /\ Type0
             \/ p.state = "PREOPERATE" /\ p.step # "AWAIT_OPERATE_ACK"
    <2>1. OnRx(p, f, c) = RouteOd(t, f[1], c)
      BY <1>6 DEF OnRx
    <2>2. RoutesOnly(t, RouteOd(t, f[1], c))
      BY <1>1, RouteOdFields
    <2>3. t.state = StateAfterReply(p)
      BY <1>2, <1>6 DEF StateAfterReply
    <2> HIDE DEF t
    <2> QED
      BY <1>1, <1>2, <2>1, <2>2, <2>3, RoutedReplied
  <1> QED
    BY <1>3, <1>4, <1>5, <1>6 DEF Polled

-----------------------------------------------------------------------------
(* Polling.                                                                *)

\* Only octets were taken out of the receive path.
Advanced(p, y) ==
    /\ y.rx = <<>> /\ y.owed = p.owed
    /\ y.rx_od_expected = p.rx_od_expected
    /\ y.tx = p.tx /\ y.send_gate = p.send_gate
    /\ SameService(p, y) /\ SameControl(p, y)

\* Taking k octets out of the receive path leaves the rest in the FIFO.
LEMMA ConsumedFields ==
    ASSUME NEW p \in Good, p.rx = <<>>, NEW k \in Nat
    PROVE  LET y == Consumed(p, k)
           IN  /\ y \in Good /\ Advanced(p, y)
               /\ y.fifo = SubSeq(p.fifo, k + 1, Len(p.fifo))
               /\ ExpectedReply(y) = ExpectedReply(p)
               /\ Polled(y) <=> Polled(p)
  <1> DEFINE buf == p.rx \o p.fifo
             rest == SubSeq(buf, k + 1, Len(buf))
             y == [p EXCEPT !.rx = <<>>, !.fifo = rest]
  <1>1. Consumed(p, k) = y /\ y \in Good
    BY ConsumedKept DEF Consumed, Kept
  <1>2. p \in Ports /\ buf = p.fifo
    BY ConcatEmptySeq DEF Good, Ports
  <1> HIDE DEF buf, rest
  <1>3. Advanced(p, y) /\ y.fifo = rest
    BY <1>2 DEF Ports, Advanced, SameService, SameControl
  <1> HIDE DEF y
  <1>4. ExpectedReply(y) = ExpectedReply(p) /\ (Polled(y) <=> Polled(p))
    BY <1>3 DEF Advanced, SameControl, ExpectedReply, Polled
  <1> QED
    BY <1>1, <1>2, <1>3, <1>4 DEF rest

\* A poll that has failed, or has nothing left to collect, is over.
LEMMA PollOver ==
    ASSUME NEW r, NEW n, NEW c, ~r.ok \/ r.p.fifo = <<>>
    PROVE  PollFrame(r, n, c) = r
BY DEF PollFrame

\* A round that finds n octets or more hands the first n to on_rx.
LEMMA PollRound ==
    ASSUME NEW p \in Good, p.rx = <<>>, NEW n \in Nat, n > 0,
           Len(p.fifo) >= n, NEW c
    PROVE  PollFrame([ok |-> TRUE, p |-> p], n, c)
              = PolledFrame(Consumed(p, n), SubSeq(p.fifo, 1, n), c)
  <1> DEFINE r == [ok |-> TRUE, p |-> p]
  <1>1. p.fifo \in Seq(Octets) /\ Len(p.rx) = 0
    BY DEF Good, Ports
  <1>2. p.fifo # <<>>
    BY <1>1, EmptySeq
  <1>3. FrameEnd(p, n) = n
    BY <1>1 DEF FrameEnd
  <1>4. p.rx \o p.fifo = p.fifo
    BY <1>1, ConcatEmptySeq
  <1>5. PollFrame(r, n, c) = Collect(p, n, c)
    BY <1>2, <1>3 DEF PollFrame
  <1>6. Len(p.fifo) \in Nat
    BY <1>1, LenProperties
  <1>7. Collect(p, n, c) = PolledFrame(Consumed(p, n), SubSeq(p.fifo, 1, n), c)
    BY <1>4, <1>6 DEF Collect
  <1> QED
    BY <1>5, <1>7

\* What four rounds make of a poll is what poll_rx returns, unless the PHY
\* fails to hand out octets.
LEMMA PollRxEnds ==
    ASSUME NEW p \in Good, Polled(p), NEW c, NEW r, r \in Polls,
           LET n == Len(ExpectedReply(p))
               Poll(x) == PollFrame(x, n, c)
           IN  r = Poll(Poll(Poll(Poll([ok |-> TRUE, p |-> p]))))
    PROVE  LET s == PollRx(p, c)
           IN  /\ s.ok <=> r.ok /\ c.fail # "recv_byte"
               /\ s.ok => s = r
               /\ ~s.ok /\ ~r.ok => s = r
               /\ ~s.ok /\ r.ok => /\ s.p.state = "ERROR" /\ s.p.rx = <<>>
                                   /\ s.p.tx = r.p.tx
                                   /\ s.p.isdu_phase = r.p.isdu_phase
                                   /\ s.p.isdu_pending = r.p.isdu_pending
                                   /\ s.p.event = r.p.event
  <1> DEFINE e == [Error(r.p) EXCEPT !.rx = <<>>]
  <1>1. PollRx(p, c) = IF r.ok /\ c.fail = "recv_byte"
                       THEN [ok |-> FALSE, p |-> e] ELSE r
    BY DEF PollRx
  <1>2. r.p \in Ports
    BY DEF Polls, Good
  <1>3. /\ e.state = "ERROR" /\ e.rx = <<>> /\ e.tx = r.p.tx
        /\ e.isdu_phase = r.p.isdu_phase /\ e.isdu_pending = r.p.isdu_pending
        /\ e.event = r.p.event
    BY <1>2 DEF Error, Ports
  <1>4. r.ok \in BOOLEAN
    BY DEF Polls
  <1> HIDE DEF e
  <1> QED
    BY <1>1, <1>3, <1>4

\* The length a poll collects, and the octets of a frame of that length.
LEMMA ReplyLengths ==
    ASSUME NEW p
    PROVE  Len(ExpectedReply(p)) \in 1..3
BY DEF ExpectedReply, TypedReply

\* A whole reply that waits in the FIFO is taken by the poll.
LEMMA PollWhole ==
    ASSUME NEW p \in Good, Polled(p), p.rx = <<>>,
           Intact(ExpectedReply(p), p.fifo), NEW c
    PROVE  LET s == PollRx(p, c)
           IN  /\ s.ok <=> c.fail # "recv_byte"
               /\ s.ok => /\ s.p.fifo = <<>> /\ Replied(Consumed(p, Len(p.fifo)), s.p)
               /\ ~s.ok => /\ s.p.state = "ERROR" /\ s.p.rx = <<>>
                           /\ s.p.tx = p.tx
                           /\ EventActive(s.p) => EventActive(p)
                           /\ p.isdu_phase = "none" /\ p.isdu_pending = "none"
                                 => /\ s.p.isdu_phase = "none"
                                    /\ s.p.isdu_pending = "none"
  <1> DEFINE n == Len(ExpectedReply(p))
             y == Consumed(p, n)
             q == OnRx(y, p.fifo, c)
             r0 == [ok |-> TRUE, p |-> p]
             r == [ok |-> TRUE, p |-> q]
  <1>1. n \in Nat /\ n > 0
    BY ReplyLengths
  <1>2. Len(p.fifo) = n /\ p.fifo \in Seq(Octets)
    BY DEF Intact, Good, Ports
  <1> HIDE DEF n
  <1>3. SubSeq(p.fifo, 1, n) = p.fifo /\ SubSeq(p.fifo, n + 1, n) = <<>>
    BY <1>1, <1>2, SubSeqFull, SubSeqEmpty
  <1>4. /\ y \in Good /\ Advanced(p, y) /\ y.fifo = <<>> /\ Polled(y)
        /\ ExpectedReply(y) = ExpectedReply(p)
    BY <1>1, <1>2, <1>3, ConsumedFields
  <1> HIDE DEF y
  <1>5. Accepts(y, p.fifo)
    BY <1>4 DEF Accepts, Polled
  <1>6. Replied(y, q) /\ q \in Good /\ Polled(q)
    BY <1>4, <1>5, OnRxReplied, OnRxGood
  <1>7. PollFrame(r0, n, c) = r
    <2>1. PollFrame(r0, n, c) = PolledFrame(y, p.fifo, c)
      <3>1. Len(p.fifo) >= n
        BY <1>1, <1>2
      <3>2. PollFrame(r0, n, c)
               = PolledFrame(Consumed(p, n), SubSeq(p.fifo, 1, n), c)
        BY <1>1, <3>1, PollRound
      <3> QED
        BY <1>3, <3>2, Zenon DEF y
    <2> QED
      BY <1>5, <2>1 DEF PolledFrame
  <1> HIDE DEF q
  <1>8. q.fifo = <<>> /\ q.tx = p.tx
    BY <1>4, <1>6 DEF Replied, SameWire, Advanced
  <1>9. PollFrame(r, n, c) = r
    BY <1>8, PollOver
  <1>10. r \in Polls
    BY <1>6 DEF Polls
  <1>11. PollFrame(PollFrame(PollFrame(PollFrame(r0, n, c), n, c), n, c), n, c) = r
    BY <1>7, <1>9
  <1> HIDE DEF r0
  <1> DEFINE s == PollRx(p, c)
  <1>12. /\ s.ok <=> r.ok /\ c.fail # "recv_byte"
         /\ s.ok => s = r
         /\ ~s.ok /\ r.ok => /\ s.p.state = "ERROR" /\ s.p.rx = <<>>
                             /\ s.p.tx = r.p.tx
                             /\ s.p.isdu_phase = r.p.isdu_phase
                             /\ s.p.isdu_pending = r.p.isdu_pending
                             /\ s.p.event = r.p.event
    BY <1>10, <1>11, PollRxEnds DEF n, r0
  <1> HIDE DEF s
  <1>13. r.ok /\ r.p = q
    OBVIOUS
  <1> HIDE DEF r
  <1>14. /\ s.ok <=> c.fail # "recv_byte"
         /\ s.ok => s.p = q
    BY <1>12, <1>13
  <1>15. ASSUME ~s.ok
         PROVE  /\ s.p.state = "ERROR" /\ s.p.rx = <<>> /\ s.p.tx = q.tx
                /\ s.p.isdu_phase = q.isdu_phase
                /\ s.p.isdu_pending = q.isdu_pending
                /\ s.p.event = q.event
    BY <1>12, <1>13, <1>15
  <1>16. ASSUME ~s.ok
         PROVE  /\ s.p.state = "ERROR" /\ s.p.rx = <<>> /\ s.p.tx = p.tx
                /\ EventActive(s.p) => EventActive(p)
                /\ p.isdu_phase = "none" /\ p.isdu_pending = "none"
                      => s.p.isdu_phase = "none" /\ s.p.isdu_pending = "none"
    BY <1>4, <1>6, <1>8, <1>15, <1>16
    DEF Replied, Advanced, SameService, EventActive
  <1> QED
    BY <1>2, <1>6, <1>8, <1>14, <1>16 DEF s, y

-----------------------------------------------------------------------------
(* Sending.                                                                *)

\* A frame that calls for the reply went out, and nothing else changed.
Sent(p, q, kind, read, reply) ==
    /\ q.rx = p.rx /\ q.fifo = p.fifo /\ q.owed = Owe(p.owed, reply)
    /\ q.rx_od_expected = read /\ q.tx = kind /\ q.send_gate = p.send_gate
    /\ SameControl(p, q)

\* The PHY refused the frame.
Refused(p, q, c) ==
    /\ c.fail # "none" /\ q.state = "ERROR"
    /\ q.rx = p.rx /\ q.tx = p.tx

\* send_full, field by field.
LEMMA SendFullSent ==
    ASSUME NEW p \in Ports, NEW kind, NEW read, NEW reply, NEW c
    PROVE  LET q == SendFull(p, kind, read, reply, c)
           IN  /\ SameService(p, q)
               /\ Refused(p, q, c) \/ Sent(p, q, kind, read, reply)
               /\ Failed(p) \/ (Failed(q) <=> Refused(p, q, c))
BY DEF SendFull, Error, Failed, Ports, SameService, Refused, Sent, SameControl

\* One M-sequence of the ISDU channel (send_isdu).
LEMMA SendIsduSent ==
    ASSUME NEW p \in Good, NEW c
    PROVE  LET q == SendIsdu(p, c)
               read == p.isdu_pending # "none" \/ p.isdu_phase # "request"
               reply == IF p.state = "OPERATE" /\ ~Type0 THEN TypedReply(read)
                        ELSE Type0Reply(read)
           IN  /\ Refused(p, q, c) \/ Sent(p, q, "isdu", read, reply)
               /\ q.event = p.event
  <1> DEFINE read == p.isdu_pending # "none" \/ p.isdu_phase # "request"
             reply == IF p.state = "OPERATE" /\ ~Type0 THEN TypedReply(read)
                      ELSE Type0Reply(read)
             x == [p EXCEPT !.isdu_pending = "none"]
             y == [p EXCEPT !.isdu_phase = "wait"]
             s == IF p.isdu_pending # "none" THEN x
                  ELSE IF p.isdu_phase = "request" /\ c.svc # "more" THEN y
                  ELSE p
             q == SendFull(s, "isdu", read, reply, c)
  <1>1. SendIsdu(p, c) = q
    BY DEF SendIsdu
  <1>2. x \in Good /\ y \in Good /\ p \in Ports
    BY PutService, KeptTrans DEF Good
  <1>3. /\ SameWire(p, x) /\ SameControl(p, x) /\ x.event = p.event
        /\ SameWire(p, y) /\ SameControl(p, y) /\ y.event = p.event
        /\ SameWire(p, p) /\ SameControl(p, p)
    BY <1>2 DEF Ports, SameWire, SameControl
  <1> HIDE DEF x, y, read, reply
  <1>4. s \in Ports /\ SameWire(p, s) /\ SameControl(p, s) /\ s.event = p.event
    BY <1>2, <1>3 DEF Good
  <1> HIDE DEF s
  <1>5. /\ SameService(s, q)
        /\ Refused(s, q, c) \/ Sent(s, q, "isdu", read, reply)
    BY <1>4, SendFullSent
  <1> HIDE DEF q
  <1>6. /\ Refused(p, q, c) \/ Sent(p, q, "isdu", read, reply)
        /\ q.event = p.event
    BY <1>4, <1>5
    DEF Refused, Sent, SameService, SameWire, SameControl
  <1> QED
    BY <1>1, <1>6 DEF read, reply

\* One M-sequence of the event memory (send_event).
LEMMA SendEventSent ==
    ASSUME NEW p \in Good, NEW c
    PROVE  LET q == SendEvent(p, c)
           IN  \/ Refused(p, q, c)
               \/ \E read, reply : Sent(p, q, "event", read, reply)
  <1> DEFINE read == EventReading(p)
             reply == IF Type0 THEN Type0Reply(read) ELSE TypedReply(read)
             s == SendFull(p, "event", read, reply, c)
             b == s.event_od_expected \/ ~Failed(s)
             x == [s EXCEPT !.event_od_expected = b]
             z == [s EXCEPT !.event = "done", !.event_od_expected = FALSE]
  <1>1. SendEvent(p, c) = IF read THEN x ELSE z
    BY DEF SendEvent
  <1>2. Refused(p, s, c) \/ Sent(p, s, "event", read, reply)
    BY SendFullSent DEF Good
  <1>3. s \in Ports
    <2>1. read \in BOOLEAN
      BY DEF EventReading
    <2> HIDE DEF read
    <2>2. reply \in Shapes
      BY <2>1, ReplyTypes
    <2> HIDE DEF reply
    <2> QED
      BY <2>1, <2>2, Literals, SendFullKept DEF KeptOrFailed, Good
  <1> HIDE DEF s, b, read, reply
  <1>4. SameWire(s, x) /\ SameControl(s, x) /\ SameWire(s, z) /\ SameControl(s, z)
    BY <1>3 DEF Ports, SameWire, SameControl
  <1> HIDE DEF x, z
  <1>5. /\ Refused(p, x, c) \/ Sent(p, x, "event", read, reply)
        /\ Refused(p, z, c) \/ Sent(p, z, "event", read, reply)
    BY <1>2, <1>4 DEF Refused, Sent, SameWire, SameControl
  <1> QED
    BY <1>1, <1>5

\* The M-sequence of a cycle of OPERATE (process_at).
LEMMA OperateSent ==
    ASSUME NEW p \in Good, NEW c
    PROVE  LET q == Operate(p, c)
           IN  \/ Refused(p, q, c)
               \/ \E kind, read, reply : Sent(p, q, kind, read, reply)
  <1> DEFINE reply == IF Type0 THEN <<"od", "cks">> ELSE TypedReply(FALSE)
             s == SendFull(p, "cyclic", FALSE, reply, c)
  <1>1. Operate(p, c) = IF EventActive(p) THEN SendEvent(p, c)
                        ELSE IF IsduSending(p) THEN SendIsdu(p, c) ELSE s
    BY DEF Operate
  <1>2. Refused(p, s, c) \/ Sent(p, s, "cyclic", FALSE, reply)
    BY SendFullSent DEF Good
  <1>3. \/ Refused(p, SendIsdu(p, c), c)
        \/ \E read, rep : Sent(p, SendIsdu(p, c), "isdu", read, rep)
    BY SendIsduSent, Zenon
  <1>4. \/ Refused(p, SendEvent(p, c), c)
        \/ \E read, rep : Sent(p, SendEvent(p, c), "event", read, rep)
    BY SendEventSent
  <1> HIDE DEF s
  <1> QED
    BY <1>1, <1>2, <1>3, <1>4, Zenon

\* A cycle that starts watches its deadline, and changes nothing else.
LEMMA CycleTimerFields ==
    ASSUME NEW p \in Ports
    PROVE  LET q == StartCycleTimer(p)
           IN  /\ SameWire(p, q) /\ SameService(p, q)
               /\ q.state = p.state /\ q.step = p.step
               /\ q.rx_retry_count = p.rx_retry_count
               /\ q.device_info = p.device_info
               /\ q.awaiting_response = TRUE
BY DEF StartCycleTimer, Ports, SameWire, SameService

-----------------------------------------------------------------------------
(* A reply that is there wins over its timeout.                            *)

\* Clearing the record of the frame sent, as every tick begins by doing.
LEMMA TickStarts ==
    ASSUME NEW p \in Good
    PROVE  LET z == [p EXCEPT !.tx = "none"]
           IN  /\ z \in Good /\ z.tx = "none"
               /\ z.rx = p.rx /\ z.fifo = p.fifo /\ z.owed = p.owed
               /\ z.rx_od_expected = p.rx_od_expected
               /\ z.send_gate = p.send_gate
               /\ SameService(p, z) /\ SameControl(p, z)
               /\ ExpectedReply(z) = ExpectedReply(p)
               /\ Polled(z) <=> Polled(p)
  <1> DEFINE z == [p EXCEPT !.tx = "none"]
  <1>1. z \in Good
    BY Literals, PutWire, KeptTrans
  <1>2. /\ z.tx = "none" /\ z.rx = p.rx /\ z.fifo = p.fifo /\ z.owed = p.owed
        /\ z.rx_od_expected = p.rx_od_expected /\ z.send_gate = p.send_gate
        /\ SameService(p, z) /\ SameControl(p, z)
    BY DEF Good, Ports, SameService, SameControl
  <1> HIDE DEF z
  <1>3. ExpectedReply(z) = ExpectedReply(p) /\ (Polled(z) <=> Polled(p))
    BY <1>2 DEF SameControl, ExpectedReply, Polled
  <1> QED
    BY <1>1, <1>2, <1>3 DEF z

\* A tick in OPERATE, with a whole reply waiting and no callback failing, takes
\* the reply whatever event it carries.
LEMMA TickTakesReply ==
    ASSUME Timed, NEW p \in Good, ReplyWaiting(p), NEW c, c.fail = "none",
           NEW event
    PROVE  LET q == TickCommon(p, event, c)
           IN  q.state = "OPERATE" /\ q.rx_retry_count = 0
  <1> DEFINE z == [p EXCEPT !.tx = "none"]
             r == PollRx(z, c)
             s == r.p
             y == Consumed(z, Len(z.fifo))
             o == Operate(s, c)
  <1>1. /\ z \in Good /\ z.rx = <<>> /\ z.state = "OPERATE" /\ Polled(z)
        /\ Intact(ExpectedReply(z), z.fifo)
    BY TickStarts DEF ReplyWaiting, SameControl, Polled
  <1> HIDE DEF z
  <1>2. r.ok /\ s.fifo = <<>> /\ Replied(y, s)
    BY <1>1, PollWhole
  <1>3. s \in Good
    BY <1>1, PollRxGood
  <1>4. Len(z.fifo) \in Nat
    BY <1>1, LenProperties DEF Good, Ports
  <1>5. y.state = "OPERATE"
    BY <1>1, <1>4, ConsumedFields DEF Advanced, SameControl
  <1>6. TickCommon(p, event, c)
           = CASE event = "CYCLE_DUE" -> CycleTick(s, c)
               [] event = "RESPONSE_TIMEOUT" -> TimeoutTick(s, c)
               [] OTHER -> s
    BY <1>2 DEF TickCommon, z
  <1> HIDE DEF r, s, y
  <1>7. s.state = "OPERATE" /\ s.rx_retry_count = 0 /\ ~s.awaiting_response
    BY <1>2, <1>5 DEF Replied, StateAfterReply
  <1>8. TimeoutTick(s, c) = s
    BY <1>7 DEF TimeoutTick
  <1>9. /\ o.state = "OPERATE" /\ o.rx_retry_count = 0 /\ o \in Ports
    BY <1>3, <1>7, OperateSent, OperateGood DEF Refused, Sent, SameControl, Good, Kept, KeptOrFailed
  <1>10. ProcessAt(s, c) \in {s, o}
    BY <1>7 DEF ProcessAt
  <1> HIDE DEF o
  <1>11. /\ StartCycleTimer(s).state = "OPERATE"
         /\ StartCycleTimer(s).rx_retry_count = 0
         /\ StartCycleTimer(o).state = "OPERATE"
         /\ StartCycleTimer(o).rx_retry_count = 0
    BY <1>3, <1>7, <1>9, CycleTimerFields DEF Good
  <1>12. CycleTick(s, c).state = "OPERATE" /\ CycleTick(s, c).rx_retry_count = 0
    BY <1>7, <1>9, <1>10, <1>11 DEF CycleTick
  <1> QED
    BY <1>6, <1>7, <1>8, <1>12

\* A complete reply that has arrived when its deadline passes wins over the
\* timeout: the tick that carries RESPONSE_TIMEOUT polls first, the reply
\* clears the wait, and no retry is counted (tick_common, on_timeout).  For
\* every value of the constants, whatever else the line and the PHY did before.
THEOREM ReplyWins == Spec => ReplyBeatsTimeout
  <1>1. EInv /\ [Next]_vars
          => [ReplyWaiting(port) /\ (\E c \in Choices : c.fail = "none" /\ TickAt(c))
                => port'.state = "OPERATE" /\ port'.rx_retry_count = 0]_vars
    <2>1. SUFFICES ASSUME EInv, ReplyWaiting(port),
                          NEW c \in Choices, c.fail = "none", TickAt(c)
                   PROVE  port'.state = "OPERATE" /\ port'.rx_retry_count = 0
      OBVIOUS
    <2>2. port \in Good
      BY <2>1 DEF EInv, Inv
    <2> QED
      BY <2>1, <2>2, TickTakesReply DEF TickAt
  <1> QED
    BY <1>1, SpecEInv, PTL DEF Spec, ReplyBeatsTimeout

-----------------------------------------------------------------------------
(* The identity of the device.                                             *)

\* What the line carries while only d is connected.
Heard(d) == (Octets \ DevIds) \cup {d}

\* All the port has heard, and believes, of a device comes from d.
HeardFrom(p, d) ==
    /\ p.rx \in Seq(Heard(d)) /\ p.fifo \in Seq(Heard(d))
    /\ p.isdu_result \in {"none", "error", d}
    /\ p.device_info \in {"none", d}

\* A validating port asks the device to operate, and operates it, only once it
\* has found the identity it expects.
Validated(p) ==
    /\ p.state = "OPERATE" => p.step = "AWAIT_OPERATE_ACK"
    /\ Validate /\ p.step = "AWAIT_OPERATE_ACK" => p.device_info = ExpectedId

\* A call that hears nothing: it drops octets or the result of a service, or
\* takes the result for the identity, when it has none yet.
Learns(p, q) ==
    /\ q.rx \in {p.rx, <<>>} /\ q.fifo \in {p.fifo, <<>>}
    /\ q.isdu_result \in {p.isdu_result, "none", "error"}
    /\ \/ q.device_info = p.device_info
       \/ /\ p.device_info = "none"
          /\ p.isdu_result \in DevIds /\ q.device_info = p.isdu_result

\* A call that hears nothing, and neither asks the device to operate nor takes
\* the port to OPERATE.
Steady(p, q) ==
    /\ Learns(p, q)
    /\ q.step = "AWAIT_OPERATE_ACK" => p.step = "AWAIT_OPERATE_ACK"
    /\ q.state = "OPERATE" => p.state = "OPERATE" /\ q.step = p.step

\* The names of the devices are no other values of the model.
LEMMA DeviceNames ==
    ASSUME NEW d \in DevIds
    PROVE  d \notin {"none", "error", "idle", "absent", "od", "pd", "bad"} \cup Cks
BY EnvironmentAssumption DEF Cks

\* What the port believes of the device stays true of calls that hear nothing.
LEMMA LearnsHeard ==
    ASSUME NEW d \in DevIds, NEW p, NEW q, HeardFrom(p, d), Learns(p, q)
    PROVE  HeardFrom(q, d)
  <1>1. <<>> \in Seq(Heard(d))
    BY EmptySeq
  <1>2. q.rx \in Seq(Heard(d)) /\ q.fifo \in Seq(Heard(d))
    BY <1>1 DEF HeardFrom, Learns
  <1>3. q.isdu_result \in {"none", "error", d} /\ q.device_info \in {"none", d}
    BY DeviceNames DEF HeardFrom, Learns
  <1> QED
    BY <1>2, <1>3 DEF HeardFrom

\* Nor do they end a validation.
LEMMA SteadyValidated ==
    ASSUME NEW p, NEW q, Validated(p), Steady(p, q)
    PROVE  Validated(q)
  <1>1. "none" # ExpectedId
    BY EnvironmentAssumption
  <1> QED
    BY <1>1 DEF Validated, Steady, Learns

\* Such calls compose.
LEMMA SteadyTrans ==
    ASSUME NEW p, NEW s, NEW q, Steady(p, s), Steady(s, q)
    PROVE  Steady(p, q)
  <1>1. "none" \notin DevIds /\ "error" \notin DevIds
    BY EnvironmentAssumption
  <1>2. Learns(p, q)
    BY <1>1 DEF Steady, Learns
  <1> QED
    BY <1>2 DEF Steady

\* The PHY helpers hear nothing.
LEMMA PhySteady ==
    ASSUME NEW p \in Ports, NEW c
    PROVE  /\ Steady(p, p) /\ Steady(p, Error(p))
           /\ Steady(p, FlushRx(p, c))
           /\ Steady(p, SetBaudrate(p, c))
           /\ \A mode : Steady(p, SetMode(p, mode, c))
           /\ Steady(p, WakeUp(p, c))
           /\ \A delay, timed : Steady(p, ArmSendGate(p, delay, timed))
           /\ \A kind, read, reply : Steady(p, SendFull(p, kind, read, reply, c))
  <1>1. Steady(p, p) /\ Steady(p, Error(p))
    BY DEF Error, Ports, Steady, Learns
  <1>2. Steady(p, FlushRx(p, c))
    BY DEF FlushRx, Ports, Steady, Learns
  <1>3. Steady(p, SetBaudrate(p, c))
    BY DEF SetBaudrate, Error, Ports, Steady, Learns
  <1>4. \A mode : Steady(p, SetMode(p, mode, c))
    BY DEF SetMode, Error, Ports, Steady, Learns
  <1>5. Steady(p, WakeUp(p, c))
    BY DEF WakeUp, Error, Ports, Steady, Learns
  <1>6. \A delay, timed : Steady(p, ArmSendGate(p, delay, timed))
    BY DEF ArmSendGate, Ports, Steady, Learns
  <1>7. \A kind, read, reply : Steady(p, SendFull(p, kind, read, reply, c))
    BY DEF SendFull, Error, Ports, Steady, Learns
  <1> QED
    BY <1>1, <1>2, <1>3, <1>4, <1>5, <1>6, <1>7

\* Nor does assigning the fields of the procedure.
LEMMA PutSteady ==
    ASSUME NEW p \in Ports, NEW v
    PROVE  /\ Steady(p, [p EXCEPT !.baudrate_index = v])
           /\ Steady(p, [p EXCEPT !.wake_attempts = v])
           /\ Steady(p, [p EXCEPT !.rx_retry_count = v])
           /\ Steady(p, [p EXCEPT !.awaiting_response = v])
           /\ Steady(p, [p EXCEPT !.tx = v])
           /\ v # "AWAIT_OPERATE_ACK" /\ p.state # "OPERATE"
                 => Steady(p, [p EXCEPT !.step = v])
           /\ v # "OPERATE" => Steady(p, [p EXCEPT !.state = v])
BY DEF Ports, Steady, Learns

\* The scan goes back to its first rate (reset_rate_scan).
LEMMA ResetRateScanSteady ==
    ASSUME NEW p \in Ports, NEW c
    PROVE  Steady(p, ResetRateScan(p, c))
  <1> DEFINE z == [p EXCEPT !.baudrate_index = 0]
  <1>1. z \in Ports
    BY PutLink, Literals
  <1>2. Steady(p, z) /\ Steady(z, SetBaudrate(z, c)) /\ Steady(p, p)
    BY <1>1, PutSteady, PhySteady
  <1>3. ResetRateScan(p, c) \in {p, SetBaudrate(z, c)}
    BY DEF ResetRateScan
  <1> HIDE DEF z
  <1> QED
    BY <1>2, <1>3, SteadyTrans

\* COMLOST (restart_establish).
LEMMA RestartEstablishSteady ==
    ASSUME NEW p \in Good, NEW timed, NEW c
    PROVE  Steady(p, RestartEstablish(p, timed, c))
  <1> DEFINE z == [p EXCEPT !.state = "STARTUP", !.step = "WAKE",
                            !.wake_attempts = 0, !.rx_retry_count = 0,
                            !.awaiting_response = FALSE]
             q == ResetRateScan(z, c)
             a == ArmSendGate(q, TDwu, timed)
  <1>1. RestartEstablish(p, timed, c) = IF Failed(q) THEN q ELSE a
    BY DEF RestartEstablish
  <1>2. p \in Ports
    BY DEF Good
  <1>3. z \in Ports
    BY <1>2, Literals, ZenonT(40) DEF Ports
  <1>4. Steady(p, z)
    BY <1>2 DEF Ports, Steady, Learns
  <1> HIDE DEF z
  <1>5. Steady(z, q)
    BY <1>3, ResetRateScanSteady
  <1>6. q \in Ports
    <2>1. q = z \/ q = SetBaudrate([z EXCEPT !.baudrate_index = 0], c)
      BY DEF ResetRateScan
    <2>2. [z EXCEPT !.baudrate_index = 0] \in Ports
      BY <1>3, PutLink, Literals
    <2> QED
      BY <1>3, <2>1, <2>2, SetBaudrateLink
  <1> HIDE DEF q
  <1>7. Steady(q, a)
    BY <1>6, PhySteady
  <1> HIDE DEF a
  <1> QED
    BY <1>1, <1>4, <1>5, <1>7, SteadyTrans

\* The next rate (establish_attempt_failed).
LEMMA NextRateSteady ==
    ASSUME NEW p \in Good, p.state = "STARTUP", p.step # "INACTIVE",
           MoreRates(p), NEW c
    PROVE  Steady(p, NextRate(p, c))
  <1> DEFINE i == p.baudrate_index + 1
             z == [p EXCEPT !.baudrate_index = i]
             q == SetBaudrate(z, c)
             s == [q EXCEPT !.step = "SEND_TYPE0"]
             a == ArmSendGate(s, TDmt, Timed)
  <1>1. NextRate(p, c) = IF Failed(q) THEN q ELSE a
    BY DEF NextRate
  <1>2. i \in 0..LastRate
    BY DEF Good, Ports, MoreRates, LastRate
  <1> HIDE DEF i
  <1>3. z \in Ports /\ Steady(p, z)
    BY <1>2, PutLink, PutSteady DEF Good
  <1>4. q \in Good /\ (Failed(q) \/ q.state = "STARTUP")
    BY <1>2, ScanStep
  <1> HIDE DEF z
  <1>5. Steady(z, q)
    BY <1>3, PhySteady
  <1> HIDE DEF q
  <1>6. ~Failed(q) => s \in Ports /\ Steady(q, s)
    BY <1>4, Literals, PutLink, PutSteady DEF Good
  <1> HIDE DEF s
  <1>7. ~Failed(q) => Steady(s, a)
    BY <1>6, PhySteady
  <1> HIDE DEF a
  <1> QED
    BY <1>1, <1>3, <1>5, <1>6, <1>7, SteadyTrans

\* The pause after a failed sequence (establish_attempt_failed).
LEMMA GiveUpSequenceSteady ==
    ASSUME NEW p \in Good, p.state = "STARTUP", NEW c
    PROVE  Steady(p, GiveUpSequence(p, c))
  <1> DEFINE z == [p EXCEPT !.wake_attempts = 0]
             q == SetMode(z, "INACTIVE", c)
             s == [q EXCEPT !.step = "INACTIVE"]
             a == ArmSendGate(s, TSd, Timed)
  <1>1. GiveUpSequence(p, c) = IF Failed(q) THEN q ELSE a
    BY DEF GiveUpSequence
  <1>2. z \in Good /\ z.state = "STARTUP" /\ Steady(p, z)
    BY Literals, PutCounters, PutSteady DEF Kept, SameLink, Good
  <1> HIDE DEF z
  <1>3. /\ q \in Ports /\ Steady(z, q)
        /\ q.state \in {"STARTUP", "ERROR"}
    <2>1. q = Error(z) \/ q = [z EXCEPT !.phy_mode = "INACTIVE"]
      BY DEF SetMode
    <2>2. Steady(z, q)
      BY <1>2, PhySteady DEF Good
    <2> DEFINE m == [z EXCEPT !.phy_mode = "INACTIVE"]
    <2>3. m \in Ports /\ m.state = "STARTUP"
      BY <1>2, PutLink, Literals DEF Good
    <2>4. Error(z) \in Ports /\ Error(z).state = "ERROR"
      BY <1>2, ErrorGood DEF Good, Failed
    <2> HIDE DEF m
    <2> QED
      BY <2>1, <2>2, <2>3, <2>4 DEF m
  <1> HIDE DEF q
  <1>4. s \in Ports /\ Steady(q, s)
    BY <1>3, Literals, PutLink, PutSteady
  <1> HIDE DEF s
  <1>5. Steady(s, a)
    BY <1>4, PhySteady
  <1> HIDE DEF a
  <1> QED
    BY <1>1, <1>2, <1>3, <1>4, <1>5, SteadyTrans

\* A failed attempt (establish_attempt_failed).
LEMMA EstablishAttemptFailedSteady ==
    ASSUME NEW p \in Good, p.state = "STARTUP", p.step # "INACTIVE", NEW c
    PROVE  Steady(p, EstablishAttemptFailed(p, c))
  <1> DEFINE a == [p EXCEPT !.awaiting_response = FALSE]
             n == (a.wake_attempts + 1) % 256
             z == [a EXCEPT !.wake_attempts = n]
             q == ResetRateScan(z, c)
             s == [q EXCEPT !.step = "WAKE"]
             g == ArmSendGate(s, TDwu, Timed)
  <1>1. EstablishAttemptFailed(p, c)
           = IF MoreRates(a) THEN NextRate(a, c)
             ELSE IF Failed(q) THEN q
             ELSE IF MoreWakeUps(q) THEN g
             ELSE GiveUpSequence(q, c)
    BY DEF EstablishAttemptFailed
  <1>2. /\ a \in Good /\ a.state = "STARTUP" /\ a.step # "INACTIVE"
        /\ Steady(p, a)
    BY PutFlags, PutSteady DEF Kept, SameLink, Good
  <1> HIDE DEF a
  <1>3. n \in 0..255
    <2>1. a.wake_attempts \in 0..255
      BY <1>2 DEF Good, Ports
    <2> QED
      BY <2>1
  <1> HIDE DEF n
  <1>4. /\ z \in Good /\ z.state = "STARTUP" /\ z.step # "INACTIVE"
        /\ Steady(a, z)
    BY <1>2, <1>3, PutCounters, PutSteady DEF Kept, SameLink, Good
  <1> HIDE DEF z
  <1>5. q \in Good /\ (Failed(q) \/ (q.state = "STARTUP" /\ q.step = z.step))
    BY <1>4, ResetRateScanGood
  <1>6. Steady(z, q)
    BY <1>4, ResetRateScanSteady DEF Good
  <1> HIDE DEF q
  <1>7. Steady(p, q)
    BY <1>2, <1>4, <1>6, SteadyTrans
  <1>8. MoreRates(a) => Steady(p, NextRate(a, c))
    BY <1>2, NextRateSteady, SteadyTrans
  <1>9. ~Failed(q) => Steady(p, GiveUpSequence(q, c))
    BY <1>5, <1>7, GiveUpSequenceSteady, SteadyTrans
  <1>10. ~Failed(q) => s \in Ports /\ Steady(q, s)
    BY <1>5, Literals, PutLink, PutSteady DEF Good
  <1> HIDE DEF s
  <1>11. ~Failed(q) => Steady(s, g)
    BY <1>10, PhySteady
  <1> HIDE DEF g
  <1> QED
    BY <1>1, <1>7, <1>8, <1>9, <1>10, <1>11, SteadyTrans

\* A timeout (on_timeout_at).
LEMMA OnTimeoutAtSteady ==
    ASSUME NEW p \in Good, NEW c
    PROVE  Steady(p, OnTimeoutAt(p, c))
  <1> DEFINE q == FlushRx(p, c)
             n == q.rx_retry_count + 1
             t == [q EXCEPT !.rx_retry_count = n]
  <1>1. OnTimeoutAt(p, c)
           \in {Error(q), t, RestartEstablish(q, Timed, c), q}
              \cup (IF q.state = "STARTUP" /\ q.step # "INACTIVE"
                    THEN {EstablishAttemptFailed(q, c)} ELSE {})
    BY DEF OnTimeoutAt
  <1>2. q \in Good /\ q \in Ports /\ Steady(p, q)
    BY FlushRxKept, KeptTrans, PhySteady DEF Good
  <1> HIDE DEF q, n
  <1>3. Steady(q, Error(q)) /\ Steady(q, t) /\ Steady(q, q)
    BY <1>2, PhySteady, PutSteady
  <1> HIDE DEF t
  <1>4. Steady(q, RestartEstablish(q, Timed, c))
    BY <1>2, RestartEstablishSteady
  <1>5. q.state = "STARTUP" /\ q.step # "INACTIVE"
           => Steady(q, EstablishAttemptFailed(q, c))
    BY <1>2, EstablishAttemptFailedSteady
  <1> QED
    BY <1>1, <1>2, <1>3, <1>4, <1>5, SteadyTrans

\* A tick that reports a timeout (tick_common).
LEMMA TimeoutTickSteady ==
    ASSUME NEW p \in Good, NEW c
    PROVE  Steady(p, TimeoutTick(p, c))
  <1> DEFINE q == IF p.awaiting_response THEN FlushRx(p, c) ELSE p
             r == [q EXCEPT !.awaiting_response = FALSE]
  <1>1. TimeoutTick(p, c) \in {p, OnTimeoutAt(r, c)}
    BY DEF TimeoutTick
  <1>2. q \in Good /\ Steady(p, q) /\ Steady(p, p)
    BY FlushRxKept, KeptTrans, PhySteady DEF Good
  <1> HIDE DEF q
  <1>3. r \in Good /\ Steady(q, r)
    BY <1>2, PutFlags, KeptTrans, PutSteady DEF Good
  <1> HIDE DEF r
  <1>4. Steady(r, OnTimeoutAt(r, c))
    BY <1>3, OnTimeoutAtSteady
  <1> QED
    BY <1>1, <1>2, <1>3, <1>4, SteadyTrans

\* The frames of the services and of a cycle.
LEMMA SendingSteady ==
    ASSUME NEW p \in Good, NEW c
    PROVE  /\ Steady(p, SendEvent(p, c)) /\ Steady(p, SendIsdu(p, c))
           /\ Steady(p, Operate(p, c))
  <1>1. p \in Ports
    BY DEF Good
  <1>2. Steady(p, SendEvent(p, c))
    <2> DEFINE read == EventReading(p)
               reply == IF Type0 THEN Type0Reply(read) ELSE TypedReply(read)
               s == SendFull(p, "event", read, reply, c)
               b == s.event_od_expected \/ ~Failed(s)
               x == [s EXCEPT !.event_od_expected = b]
               z == [s EXCEPT !.event = "done", !.event_od_expected = FALSE]
    <2>1. SendEvent(p, c) \in {x, z}
      BY DEF SendEvent
    <2>2. s \in Ports /\ Steady(p, s)
      <3>1. read \in BOOLEAN
        BY DEF EventReading
      <3> HIDE DEF read
      <3>2. reply \in Shapes
        BY <3>1, ReplyTypes
      <3> HIDE DEF reply
      <3> QED
        BY <1>1, <3>1, <3>2, Literals, SendFullKept, PhySteady
        DEF KeptOrFailed, Good
    <2> HIDE DEF s, b
    <2>3. Steady(s, x) /\ Steady(s, z)
      BY <2>2 DEF Ports, Steady, Learns
    <2> HIDE DEF x, z
    <2> QED
      BY <2>1, <2>2, <2>3, SteadyTrans
  <1>3. Steady(p, SendIsdu(p, c))
    <2> DEFINE x == [p EXCEPT !.isdu_pending = "none"]
               y == [p EXCEPT !.isdu_phase = "wait"]
    <2>1. \E s \in {x, y, p} : \E read, reply :
             SendIsdu(p, c) = SendFull(s, "isdu", read, reply, c)
      <3> DEFINE s == IF p.isdu_pending # "none" THEN x
                      ELSE IF p.isdu_phase = "request" /\ c.svc # "more" THEN y
                      ELSE p
      <3>1. s \in {x, y, p}
        OBVIOUS
      <3>2. \E read, reply : SendIsdu(p, c) = SendFull(s, "isdu", read, reply, c)
        BY Zenon DEF SendIsdu
      <3> HIDE DEF s
      <3> QED
        BY <3>1, <3>2
    <2>2. x \in Ports /\ y \in Ports
      BY PutService, KeptTrans DEF Good
    <2>3. Steady(p, x) /\ Steady(p, y) /\ Steady(p, p)
      BY <1>1 DEF Ports, Steady, Learns
    <2> HIDE DEF x, y
    <2>4. PICK s \in {x, y, p} :
             \E read, reply : SendIsdu(p, c) = SendFull(s, "isdu", read, reply, c)
      BY <2>1
    <2>5. s \in Ports /\ Steady(p, s)
      BY <1>1, <2>2, <2>3, <2>4
    <2>6. \A read, reply : Steady(s, SendFull(s, "isdu", read, reply, c))
      BY <2>5, PhySteady
    <2> QED
      BY <2>4, <2>5, <2>6, SteadyTrans
  <1>4. \A reply : Steady(p, SendFull(p, "cyclic", FALSE, reply, c))
    BY <1>1, PhySteady
  <1> QED
    BY <1>2, <1>3, <1>4 DEF Operate

\* Taking the result of the identity read for the identity (read_device_info).
LEMMA ReadDeviceInfoSteady ==
    ASSUME NEW p \in Ports, p.device_info = "none"
    PROVE  Steady(p, ReadDeviceInfo(p))
BY DEF ReadDeviceInfo, IsduStart, IsduFinish, Error, Ports, Steady, Learns

\* The DeviceOperate write, of a port that has found the expected identity.
LEMMA SendOperateValidated ==
    ASSUME NEW p \in Good, NEW c, p.state = "PREOPERATE", Validated(p),
           Validate => ValidIdentity(p)
    PROVE  LET q == SendOperate(p, c) IN Learns(p, q) /\ Validated(q)
  <1> DEFINE s == SendFull(p, "operate", FALSE, <<"cks">>, c)
             q == [s EXCEPT !.step = "AWAIT_OPERATE_ACK"]
  <1>1. SendOperate(p, c) = IF Failed(s) THEN s ELSE q
    BY DEF SendOperate
  <1>2. p \in Ports /\ s \in Ports
    BY ReplyTypes, Literals, SendFullKept DEF KeptOrFailed, Good
  <1>3. Steady(p, s) /\ s.device_info = p.device_info
    <2>1. Steady(p, s)
      BY <1>2, PhySteady
    <2>2. s.device_info = p.device_info
      BY <1>2 DEF SendFull, Error, Ports
    <2> QED
      BY <2>1, <2>2
  <1>4. Validated(s)
    BY <1>3, SteadyValidated
  <1> HIDE DEF s
  <1>5. /\ q.rx = s.rx /\ q.fifo = s.fifo /\ q.isdu_result = s.isdu_result
        /\ q.device_info = s.device_info /\ q.step = "AWAIT_OPERATE_ACK"
    BY <1>2 DEF Ports
  <1> HIDE DEF q
  <1>6. Learns(p, q) /\ Validated(q)
    BY <1>3, <1>5 DEF Steady, Learns, Validated, ValidIdentity
  <1> QED
    BY <1>1, <1>3, <1>4, <1>6 DEF Steady

\* PREOPERATE asks the device to operate once its identity is the expected one
\* (process_at).
LEMMA PreoperateValidated ==
    ASSUME NEW p \in Good, NEW c, p.state = "PREOPERATE", Validated(p)
    PROVE  LET q == Preoperate(p, c) IN Learns(p, q) /\ Validated(q)
  <1> DEFINE q == IF Validate /\ p.device_info = "none" THEN ReadDeviceInfo(p)
                  ELSE p
  <1>1. Preoperate(p, c)
           = IF EventActive(p) THEN SendEvent(p, c)
             ELSE IF IsduSending(p) THEN SendIsdu(p, c)
             ELSE IF ~Validate THEN SendOperate(p, c)
             ELSE IF Failed(q) \/ q.device_info = "none" THEN q
             ELSE IF ~ValidIdentity(q) THEN Error(q)
             ELSE SendOperate(q, c)
    BY DEF Preoperate
  <1>2. q \in KeptOrFailed(p)
    BY ReadDeviceInfoKept, KeptTrans
  <1>3. Steady(p, q)
    BY ReadDeviceInfoSteady, PhySteady DEF Good
  <1> HIDE DEF q
  <1>4. q \in Good /\ (Failed(q) \/ q.state = "PREOPERATE")
    BY <1>2 DEF KeptOrFailed, SameLink
  <1>5. Validated(q)
    BY <1>3, SteadyValidated
  <1>6. Steady(p, Error(q))
    BY <1>3, <1>4, PhySteady, SteadyTrans DEF Good
  <1>7. /\ Steady(p, SendEvent(p, c)) /\ Steady(p, SendIsdu(p, c))
    BY SendingSteady
  <1>8. ~Validate => LET o == SendOperate(p, c) IN Learns(p, o) /\ Validated(o)
    BY SendOperateValidated
  <1>9. ~Failed(q) /\ ValidIdentity(q)
           => LET o == SendOperate(q, c) IN Learns(p, o) /\ Validated(o)
    <2>1. SUFFICES ASSUME ~Failed(q), ValidIdentity(q)
                   PROVE  Learns(p, SendOperate(q, c)) /\ Validated(SendOperate(q, c))
      BY Zenon
    <2>2. Learns(q, SendOperate(q, c)) /\ Validated(SendOperate(q, c))
      BY <1>4, <1>5, <2>1, SendOperateValidated
    <2>3. "none" \notin DevIds /\ "error" \notin DevIds
      BY EnvironmentAssumption
    <2>4. Learns(p, SendOperate(q, c))
      BY <1>3, <2>2, <2>3 DEF Steady, Learns
    <2> QED
      BY <2>2, <2>4
  <1>10. \A o : Steady(p, o) => Learns(p, o) /\ Validated(o)
    BY SteadyValidated DEF Steady
  <1> QED
    BY <1>1, <1>3, <1>6, <1>7, <1>8, <1>9, <1>10

\* The wake-up request (process_at).
LEMMA StartupWakeSteady ==
    ASSUME NEW p \in Good, NEW c, p.state = "STARTUP"
    PROVE  Steady(p, StartupWake(p, c))
  <1> DEFINE m == IF p.step = "INACTIVE" THEN SetMode(p, "SDCI", c) ELSE p
             n == [m EXCEPT !.step = "WAKE"]
             s == WakeUp(n, c)
             t == [s EXCEPT !.step = "SEND_TYPE0"]
             q == ArmSendGate(t, WakeDelay, Timed)
  <1>1. StartupWake(p, c) = IF Failed(m) THEN m ELSE IF Failed(s) THEN s ELSE q
    BY DEF StartupWake
  <1>2. p \in Ports
    BY DEF Good
  <1>3. m \in Ports
    BY <1>2, Literals, PutLink, ErrorGood DEF SetMode, Good
  <1>4. Steady(p, m)
    BY <1>2, PhySteady
  <1>5. m.state \in {"STARTUP", "ERROR"}
    BY <1>2 DEF SetMode, Error, Ports
  <1> HIDE DEF m
  <1>6. n \in Ports /\ n.state = m.state /\ Steady(m, n)
    BY <1>3, <1>5, Literals, PutLink, PutSteady
  <1> HIDE DEF n
  <1>7. s \in Ports
    <2>1. [n EXCEPT !.tx = "wake", !.owed = <<>>] \in Ports
      BY <1>6, Literals, EmptySeq, ZenonT(40) DEF Ports
    <2> QED
      BY <1>6, <2>1, ErrorGood DEF WakeUp, Good
  <1>8. Steady(n, s)
    BY <1>6, PhySteady
  <1>9. s.state \in {"STARTUP", "ERROR"}
    BY <1>5, <1>6 DEF WakeUp, Error, Ports
  <1> HIDE DEF s
  <1>10. t \in Ports /\ Steady(s, t)
    BY <1>7, <1>9, Literals, PutLink, PutSteady
  <1> HIDE DEF t
  <1>11. Steady(t, q)
    BY <1>10, PhySteady
  <1> HIDE DEF q
  <1>12. Steady(p, n)
    BY <1>4, <1>6, SteadyTrans
  <1>13. Steady(p, s)
    BY <1>8, <1>12, SteadyTrans
  <1>14. Steady(p, t)
    BY <1>10, <1>13, SteadyTrans
  <1>15. Steady(p, q)
    BY <1>11, <1>14, SteadyTrans
  <1> QED
    BY <1>1, <1>4, <1>13, <1>15

\* The test message (process_at).
LEMMA StartupTestSteady ==
    ASSUME NEW p \in Good, NEW c, p.state = "STARTUP"
    PROVE  Steady(p, StartupTest(p, c))
  <1> DEFINE s == SendFull(p, "test", TRUE, <<"od", "cks">>, c)
             t == [s EXCEPT !.step = "AWAIT_RESPONSE"]
             q == ArmTestDeadline(t)
  <1>1. StartupTest(p, c) = IF Failed(s) THEN s ELSE q
    BY DEF StartupTest
  <1>2. p \in Ports /\ s \in Ports
    BY ReplyTypes, Literals, SendFullKept DEF KeptOrFailed, Good
  <1>3. Steady(p, s)
    BY <1>2, PhySteady
  <1>4. s.state \in {"STARTUP", "ERROR"}
    BY <1>2 DEF SendFull, Error, Ports
  <1> HIDE DEF s
  <1>5. t \in Ports /\ Steady(s, t)
    BY <1>2, <1>4, Literals, PutLink, PutSteady
  <1> HIDE DEF t
  <1>6. Steady(t, q)
    BY <1>5 DEF ArmTestDeadline, Ports, Steady, Learns
  <1> HIDE DEF q
  <1> QED
    BY <1>1, <1>3, <1>5, <1>6, SteadyTrans

\* The send side hears nothing, and asks only the expected device to operate
\* (process_at).
LEMMA ProcessAtValidated ==
    ASSUME NEW p \in Good, NEW c, Validated(p)
    PROVE  Learns(p, ProcessAt(p, c)) /\ Validated(ProcessAt(p, c))
  <1>1. \A o : Steady(p, o) => Learns(p, o) /\ Validated(o)
    BY SteadyValidated DEF Steady
  <1>2. Steady(p, p)
    BY PhySteady DEF Good
  <1>3. p.state = "STARTUP" => Steady(p, StartupWake(p, c))
                               /\ Steady(p, StartupTest(p, c))
    BY StartupWakeSteady, StartupTestSteady
  <1>4. p.state = "PREOPERATE" =>
           Learns(p, Preoperate(p, c)) /\ Validated(Preoperate(p, c))
    BY PreoperateValidated
  <1>5. Steady(p, Operate(p, c))
    BY SendingSteady
  <1>6. \/ ProcessAt(p, c) = p
        \/ /\ p.state = "STARTUP"
           /\ ProcessAt(p, c) \in {StartupWake(p, c), StartupTest(p, c)}
        \/ p.state = "PREOPERATE" /\ ProcessAt(p, c) = Preoperate(p, c)
        \/ p.state = "OPERATE" /\ ProcessAt(p, c) = Operate(p, c)
    BY DEF ProcessAt
  <1> QED
    BY <1>1, <1>2, <1>3, <1>4, <1>5, <1>6

\* A tick that carries CYCLE_DUE (tick_common).
LEMMA CycleTickValidated ==
    ASSUME NEW p \in Good, NEW c, Validated(p)
    PROVE  Learns(p, CycleTick(p, c)) /\ Validated(CycleTick(p, c))
  <1> DEFINE s == ProcessAt(p, c)
             q == StartCycleTimer(s)
  <1>1. CycleTick(p, c) \in {p, s, q}
    BY DEF CycleTick
  <1>2. s \in Ports /\ Learns(p, s) /\ Validated(s)
    BY ProcessAtGood, ProcessAtValidated DEF Good
  <1> HIDE DEF s
  <1>3. /\ SameWire(s, q) /\ SameService(s, q)
        /\ q.state = s.state /\ q.step = s.step /\ q.device_info = s.device_info
    BY <1>2, CycleTimerFields
  <1> HIDE DEF q
  <1>4. Learns(p, q) /\ Validated(q)
    BY <1>2, <1>3 DEF SameWire, SameService, Learns, Validated
  <1>5. Learns(p, p)
    BY PhySteady DEF Good, Steady
  <1> QED
    BY <1>1, <1>2, <1>4, <1>5

\* The port has heard d alone, and has validated what it operates.
Knows(p, d) == HeardFrom(p, d) /\ Validated(p)

\* Calls that hear nothing keep what the port knows.
LEMMA SteadyKnows ==
    ASSUME NEW d \in DevIds, NEW p, NEW q, Knows(p, d), Steady(p, q)
    PROVE  Knows(q, d)
BY LearnsHeard, SteadyValidated DEF Knows, Steady

\* What routing an octet makes of the result of the ISDU service.
LEMMA RouteOdResult ==
    ASSUME NEW p \in Ports, NEW od, NEW c
    PROVE  LET q == RouteOd(p, od, c)
           IN  \/ q.isdu_result \in {p.isdu_result, "error"}
               \/ od # "idle" /\ q.isdu_result = od
  <1> DEFINE x == [p EXCEPT !.event_od_expected = FALSE]
  <1>1. LET q == IsduOnOd(p, od, c)
        IN  \/ q.isdu_result \in {p.isdu_result, "error"}
            \/ od # "idle" /\ q.isdu_result = od
    BY DEF IsduOnOd, Ports
  <1>2. EventOnOd(x, c).isdu_result = p.isdu_result
    BY DEF EventOnOd, Ports
  <1> QED
    BY <1>1, <1>2 DEF RouteOd

\* The result comes out of a reply that carries an OD octet.
LEMMA OnRxResult ==
    ASSUME NEW p \in Good, NEW f, NEW c, Accepts(p, f), Polled(p)
    PROVE  LET q == OnRx(p, f, c)
           IN  \/ q.isdu_result \in {p.isdu_result, "error"}
               \/ f[1] \in DevIds /\ q.isdu_result = f[1]
  <1> DEFINE t == ReplyTaken(p)
  <1>1. p \in Ports /\ t \in Ports
    BY ReplyTakenKept DEF Kept, Good
  <1>2. t.isdu_result = p.isdu_result
    BY <1>1, ReplyTakenAll DEF SameService
  <1>3. CASE p.state = "STARTUP"
    <2>1. OnRx(p, f, c) = [t EXCEPT !.wake_attempts = 0, !.state = "PREOPERATE"]
      BY <1>3 DEF OnRx, OnRxStartup
    <2> HIDE DEF t
    <2>2. [t EXCEPT !.wake_attempts = 0, !.state = "PREOPERATE"].isdu_result
             = t.isdu_result
      BY <1>1 DEF Ports
    <2> QED
      BY <1>2, <2>1, <2>2
  <1>4. CASE p.state = "OPERATE" /\ ~Type0
    <2> DEFINE b == (f[Len(f)] = "cks_event")
               d == (t.pd_valid \/ f[Len(f)] # "cks_invalid")
               s == [t EXCEPT !.event_pending = b, !.pd_valid = d]
               x == (s.event_od_expected /\ ~EventReading(s))
               z == [s EXCEPT !.event_od_expected = x]
    <2>1. OnRx(p, f, c) = IF p.rx_od_expected THEN RouteOd(s, f[1], c) ELSE z
      BY <1>4 DEF OnRx, OnRxTyped
    <2>2. b \in BOOLEAN /\ d \in BOOLEAN
      OBVIOUS
    <2> HIDE DEF b, d, t
    <2>3. s \in Ports
      BY <1>1, <2>2, ZenonT(40) DEF Ports
    <2>4. s.isdu_result = t.isdu_result
      BY <1>1 DEF Ports
    <2> HIDE DEF s, x
    <2>5. z.isdu_result = s.isdu_result
      BY <2>3 DEF Ports
    <2> HIDE DEF z
    <2>6. p.rx_od_expected => f[1] \in OdOctets
      BY <1>4, FirstOctet DEF ExpectedReply, TypedReply
    <2>7. LET q == RouteOd(s, f[1], c)
          IN  \/ q.isdu_result \in {s.isdu_result, "error"}
              \/ f[1] # "idle" /\ q.isdu_result = f[1]
      BY <2>3, RouteOdResult
    <2> QED
      BY <1>2, <2>1, <2>4, <2>5, <2>6, <2>7 DEF OdOctets
  <1>5. CASE p.state = "PREOPERATE" /\ p.step = "AWAIT_OPERATE_ACK"
    <2> DEFINE b == (f[1] = "cks_event")
               q == [t EXCEPT !.event_pending = b, !.state = "OPERATE"]
    <2>1. OnRx(p, f, c) = q
      BY <1>5 DEF OnRx, OnRxOperateAck
    <2> HIDE DEF t, b
    <2>2. q.isdu_result = t.isdu_result
      BY <1>1 DEF Ports
    <2> QED
      BY <1>2, <2>1, <2>2
  <1>6. CASE \/ p.state = "OPERATE" /\ Type0
             \/ p.state = "PREOPERATE" /\ p.step # "AWAIT_OPERATE_ACK"
    <2>1. OnRx(p, f, c) = RouteOd(t, f[1], c)
      BY <1>6 DEF OnRx
    <2>2. f[1] \in OdOctets
      BY <1>6, FirstOctet DEF ExpectedReply
    <2>3. LET q == RouteOd(t, f[1], c)
          IN  \/ q.isdu_result \in {t.isdu_result, "error"}
              \/ f[1] # "idle" /\ q.isdu_result = f[1]
      BY <1>1, RouteOdResult
    <2> HIDE DEF t
    <2> QED
      BY <1>2, <2>1, <2>2, <2>3 DEF OdOctets
  <1> QED
    BY <1>3, <1>4, <1>5, <1>6 DEF Polled

\* A frame handed to on_rx tells the port of d alone.
LEMMA OnRxKnows ==
    ASSUME NEW d \in DevIds, NEW p \in Good, Polled(p), Knows(p, d),
           NEW f, f[1] \in Heard(d), NEW c
    PROVE  Knows(OnRx(p, f, c), d)
  <1>1. CASE Accepts(p, f)
    <2> DEFINE q == OnRx(p, f, c)
    <2>1. Replied(p, q)
      BY <1>1, OnRxReplied
    <2>2. \/ q.isdu_result \in {p.isdu_result, "error"}
          \/ f[1] \in DevIds /\ q.isdu_result = f[1]
      BY <1>1, OnRxResult
    <2> HIDE DEF q
    <2>3. q.isdu_result \in {"none", "error", d}
      BY <2>2 DEF Knows, HeardFrom, Heard
    <2>4. HeardFrom(q, d)
      BY <2>1, <2>3 DEF Knows, HeardFrom, Replied, SameWire
    <2>5. Validated(q)
      BY <2>1 DEF Knows, Validated, Replied, StateAfterReply
    <2> QED
      BY <2>4, <2>5 DEF Knows, q
  <1>2. CASE ~Accepts(p, f)
    <2> DEFINE n == p.rx_retry_count + 1
               t == [p EXCEPT !.rx_retry_count = n]
    <2>1. OnRx(p, f, c) \in {p, t, RestartEstablish(p, FALSE, c)}
      BY <1>2 DEF OnRx, ChecksumError
    <2>2. Steady(p, p) /\ Steady(p, t)
      BY PhySteady, PutSteady DEF Good
    <2>3. Steady(p, RestartEstablish(p, FALSE, c))
      BY RestartEstablishSteady
    <2> QED
      BY <2>1, <2>2, <2>3, SteadyKnows
  <1> QED
    BY <1>1, <1>2

\* Collecting octets of d (poll_rx).
LEMMA CollectKnows ==
    ASSUME NEW d \in DevIds, NEW p \in Good, Polled(p), Knows(p, d),
           NEW k \in Nat, k > 0, NEW c
    PROVE  Knows(Collect(p, k, c).p, d)
  <1> DEFINE buf == p.rx \o p.fifo
             rest == SubSeq(buf, k + 1, Len(buf))
             z == [p EXCEPT !.rx = buf, !.fifo = <<>>]
             y == [p EXCEPT !.rx = <<>>, !.fifo = rest]
             frame == SubSeq(buf, 1, k)
             q == OnRx(y, frame, c)
  <1>1. /\ Len(buf) < k => Collect(p, k, c).p = z
        /\ ~(Len(buf) < k) => Collect(p, k, c).p = q
    BY DEF Collect, PolledFrame, Consumed
  <1>2. buf \in Seq(Heard(d))
    BY ConcatProperties DEF Knows, HeardFrom
  <1> HIDE DEF buf
  <1>3. Len(buf) \in Nat /\ \A i \in 1..Len(buf) : buf[i] \in Heard(d)
    BY <1>2, LenProperties, ElementOfSeq
  <1>4. rest \in Seq(Heard(d))
    <2>1. \A i \in (k + 1)..Len(buf) : buf[i] \in Heard(d)
      BY <1>3
    <2> QED
      BY <1>3, <2>1, SubSeqProperties
  <1>5. y \in Good
    BY ConsumedKept DEF Consumed, Kept, buf
  <1>6. p \in Ports /\ <<>> \in Seq(Heard(d))
    BY EmptySeq DEF Good
  <1> HIDE DEF rest
  <1>7. /\ z.rx = buf /\ z.fifo = <<>> /\ z.isdu_result = p.isdu_result
        /\ z.device_info = p.device_info
        /\ z.state = p.state /\ z.step = p.step
        /\ y.rx = <<>> /\ y.fifo = rest /\ y.isdu_result = p.isdu_result
        /\ y.device_info = p.device_info
        /\ y.state = p.state /\ y.step = p.step
    BY <1>6 DEF Ports
  <1> HIDE DEF z, y
  <1>8. Knows(z, d) /\ Knows(y, d) /\ Polled(y)
    BY <1>2, <1>4, <1>6, <1>7 DEF Knows, HeardFrom, Validated, Polled
  <1>9. ~(Len(buf) < k) => frame[1] \in Heard(d)
    <2>1. SUFFICES ASSUME ~(Len(buf) < k) PROVE frame[1] \in Heard(d)
      OBVIOUS
    <2>2. 1 \in 1..Len(buf) /\ k <= Len(buf)
      BY <1>3, <2>1
    <2>3. \A i \in 1..k : buf[i] \in Heard(d)
      BY <1>3, <2>2
    <2>4. frame[1] = buf[1]
      BY <2>2, <2>3, <1>3, SubSeqProperties
    <2> QED
      BY <1>3, <2>2, <2>4
  <1> HIDE DEF frame
  <1>10. ~(Len(buf) < k) => Knows(q, d)
    BY <1>5, <1>8, <1>9, OnRxKnows
  <1> QED
    BY <1>1, <1>8, <1>10

\* One round of the poll.
LEMMA PollFrameKnows ==
    ASSUME NEW d \in DevIds, NEW r \in Polls, Knows(r.p, d),
           NEW n \in Nat, n > 0, NEW c
    PROVE  Knows(PollFrame(r, n, c).p, d)
  <1> DEFINE k == FrameEnd(r.p, n)
  <1>1. r.p \in Good /\ (r.ok => Polled(r.p))
    BY DEF Polls
  <1>2. k \in Nat /\ k > 0
    <2>1. Len(r.p.rx) \in Nat
      BY <1>1, LenProperties DEF Good, Ports
    <2> QED
      BY <2>1 DEF FrameEnd
  <1>3. PollFrame(r, n, c)
           = IF ~r.ok \/ r.p.fifo = <<>> THEN r ELSE Collect(r.p, k, c)
    BY DEF PollFrame
  <1> HIDE DEF k
  <1>4. r.ok => Knows(Collect(r.p, k, c).p, d)
    BY <1>1, <1>2, CollectKnows
  <1> QED
    BY <1>3, <1>4

\* poll_rx hears d alone.
LEMMA PollRxKnows ==
    ASSUME NEW d \in DevIds, NEW p \in Good, Knows(p, d), NEW c
    PROVE  Knows(PollRx(p, c).p, d)
  <1> DEFINE n == Len(ExpectedReply(p))
             r0 == [ok |-> TRUE, p |-> p]
             r1 == PollFrame(r0, n, c)
             r2 == PollFrame(r1, n, c)
             r3 == PollFrame(r2, n, c)
             r4 == PollFrame(r3, n, c)
             x == Error(r4.p)
             e == [x EXCEPT !.rx = <<>>]
  <1>1. PollRx(p, c) = IF ~Polled(p) THEN r0
                       ELSE IF r4.ok /\ c.fail = "recv_byte"
                       THEN [ok |-> FALSE, p |-> e]
                       ELSE r4
    BY DEF PollRx
  <1>2. n \in Nat /\ n > 0
    BY ReplyLengths
  <1> HIDE DEF n
  <1>3. Knows(r0.p, d)
    OBVIOUS
  <1>4. CASE ~Polled(p)
    BY <1>1, <1>3, <1>4
  <1>5. CASE Polled(p)
    <2>1. r0 \in Polls
      BY <1>5 DEF Polls
    <2> HIDE DEF r0
    <2>2. r1 \in Polls /\ Knows(r1.p, d)
      BY <1>2, <1>3, <2>1, PollFrameType, PollFrameKnows
    <2> HIDE DEF r1
    <2>3. r2 \in Polls /\ Knows(r2.p, d)
      BY <1>2, <2>2, PollFrameType, PollFrameKnows
    <2> HIDE DEF r2
    <2>4. r3 \in Polls /\ Knows(r3.p, d)
      BY <1>2, <2>3, PollFrameType, PollFrameKnows
    <2> HIDE DEF r3
    <2>5. r4 \in Polls /\ Knows(r4.p, d)
      BY <1>2, <2>4, PollFrameType, PollFrameKnows
    <2> HIDE DEF r4
    <2>6. Knows(e, d)
      <3>1. r4.p \in Ports /\ x \in Ports
        BY <2>5, ErrorGood DEF Polls, Good
      <3>2. Steady(r4.p, x)
        BY <3>1, PhySteady
      <3> HIDE DEF x
      <3>3. Steady(x, e)
        BY <3>1 DEF Ports, Steady, Learns
      <3> HIDE DEF e
      <3> QED
        BY <2>5, <3>2, <3>3, SteadyKnows
    <2> HIDE DEF e
    <2> QED
      BY <1>1, <1>5, <2>5, <2>6
  <1> QED
    BY <1>4, <1>5

\* A tick, whatever it carries (tick_common).
LEMMA TickCommonKnows ==
    ASSUME NEW d \in DevIds, NEW p \in Good, Knows(p, d), NEW event, NEW c
    PROVE  Knows(TickCommon(p, event, c), d)
  <1> DEFINE z == [p EXCEPT !.tx = "none"]
             r == PollRx(z, c)
             s == r.p
  <1>1. TickCommon(p, event, c) \in {s, CycleTick(s, c), TimeoutTick(s, c)}
    BY DEF TickCommon
  <1>2. z \in Good
    BY Literals, PutWire, KeptTrans
  <1>3. Knows(z, d)
    BY PutSteady, SteadyKnows DEF Good
  <1> HIDE DEF z
  <1>4. Knows(s, d) /\ s \in Good
    BY <1>2, <1>3, PollRxKnows, PollRxGood
  <1> HIDE DEF s
  <1>5. Knows(CycleTick(s, c), d)
    BY <1>4, CycleTickValidated, LearnsHeard DEF Knows
  <1>6. Knows(TimeoutTick(s, c), d)
    BY <1>4, TimeoutTickSteady, SteadyKnows
  <1> QED
    BY <1>1, <1>4, <1>5, <1>6

\* A port just initialised has heard at most what waits in the FIFO (init).
LEMMA PortInitKnows ==
    ASSUME NEW d \in DevIds, NEW phy, phy.phy_mode \in Modes,
           phy.phy_rate \in 0..LastRate, phy.fifo \in Seq(Octets),
           phy.owed \in Seq(Shapes), phy.fifo \in Seq(Heard(d)), NEW c
    PROVE  Knows(PortInit(phy, c), d)
  <1> DEFINE n == NewPort(phy)
             f == FlushRx(n, c)
             b == SetBaudrate(f, c)
             m == SetMode(b, "SDCI", c)
  <1>1. PortInit(phy, c) \in {Error(n), Error(f), b, m}
    BY DEF PortInit
  <1>2. n \in Ports
    BY NewPortType
  <1>3. Knows(n, d)
    <2>1. /\ n.rx = <<>> /\ n.fifo = phy.fifo /\ n.isdu_result = "none"
          /\ n.device_info = "none" /\ n.state = "STARTUP" /\ n.step = "WAKE"
      BY DEF NewPort
    <2> HIDE DEF n
    <2> QED
      BY <2>1, EmptySeq DEF Knows, HeardFrom, Validated
  <1> HIDE DEF n
  <1>4. f \in Ports /\ Knows(f, d) /\ Knows(Error(n), d)
    BY <1>2, <1>3, FlushRxLink, PhySteady, SteadyKnows
  <1> HIDE DEF f
  <1>5. b \in Ports /\ Knows(b, d) /\ Knows(Error(f), d)
    BY <1>4, SetBaudrateLink, PhySteady, SteadyKnows
  <1> HIDE DEF b
  <1>6. Knows(m, d)
    BY <1>5, PhySteady, SteadyKnows
  <1> QED
    BY <1>1, <1>4, <1>5, <1>6

\* What the connected device answers with is heard from it.
LEMMA FilledHeard ==
    ASSUME NEW shape \in Shapes, NEW cks \in Cks, dev \in DevIds
    PROVE  Filled(shape, cks) \in Seq(Heard(dev))
  <1>1. /\ Len(shape) \in Nat
        /\ \A i \in 1..Len(shape) : shape[i] \in {"od", "idle", "pd", "cks"}
    BY DEF Shapes
  <1>2. /\ dev \in Heard(dev) /\ cks \in Heard(dev)
        /\ "idle" \in Heard(dev) /\ "pd" \in Heard(dev)
    BY EnvironmentAssumption DEF Heard, Octets, OdOctets, Cks
  <1>3. Filled(shape, cks) \in [1..Len(shape) -> Heard(dev)]
    BY <1>1, <1>2 DEF Filled
  <1> QED
    BY <1>1, <1>3, SeqDef

\* Octets of the connected device arrive.
LEMMA ReceivedKnows ==
    ASSUME NEW d \in DevIds, port \in Ports, Knows(port, d),
           NEW octets \in Seq(Heard(d)), Received(octets)
    PROVE  Knows(port', d)
  <1> DEFINE f == port.fifo \o octets
             o == Tail(port.owed)
             q == [port EXCEPT !.fifo = f, !.owed = o, !.tx = "none"]
  <1>1. port' = q
    BY Zenon DEF Received
  <1>2. f \in Seq(Heard(d))
    BY ConcatProperties DEF Knows, HeardFrom
  <1> HIDE DEF f, o
  <1>3. /\ q.rx = port.rx /\ q.fifo = f /\ q.isdu_result = port.isdu_result
        /\ q.device_info = port.device_info
        /\ q.state = port.state /\ q.step = port.step
    BY DEF Ports
  <1> HIDE DEF q
  <1> QED
    BY <1>1, <1>2, <1>3 DEF Knows, HeardFrom, Validated

\* What the line makes of an answer of the connected device.
LEMMA AnswersKnows ==
    ASSUME Inv, dev # "absent", Knows(port, dev),
           \/ \E cks \in CksOctets : Answer(cks)
           \/ AnswerGarbled \/ AnswerTruncated
    PROVE  Knows(port', dev)
  <1>1. /\ CanAnswer /\ port.owed # <<>> /\ dev \in DevIds
        /\ port \in Ports
    BY DEF Answer, AnswerGarbled, AnswerTruncated, CanAnswer, Inv, Good
  <1> DEFINE shape == Head(port.owed)
             whole == Filled(shape, "cks")
             short == SubSeq(whole, 1, Len(whole) - 1)
             bad == [i \in 1..Len(shape) |-> "bad"]
  <1>2. shape \in Shapes
    <2>1. port.owed \in Seq(Shapes)
      BY <1>1 DEF Ports
    <2> QED
      BY <1>1, <2>1, HeadTailProperties
  <1>3. CksOctets \subseteq Cks /\ "cks" \in Cks
    BY EnvironmentAssumption DEF Cks
  <1>4. \/ \E cks \in CksOctets : Received(Filled(shape, cks))
        \/ Received(bad) \/ Received(short)
    BY Zenon DEF Answer, AnswerGarbled, AnswerTruncated
  <1> HIDE DEF shape
  <1>5. whole \in Seq(Heard(dev))
    BY <1>1, <1>2, <1>3, FilledHeard
  <1> HIDE DEF whole
  <1>6. short \in Seq(Heard(dev))
    <2>1. /\ Len(whole) \in Nat
          /\ \A i \in 1..(Len(whole) - 1) : whole[i] \in Heard(dev)
      BY <1>5, LenProperties, ElementOfSeq
    <2> QED
      BY <2>1, SubSeqProperties
  <1>7. bad \in Seq(Heard(dev))
    <2>1. Len(shape) \in Nat
      BY <1>2 DEF Shapes
    <2>2. "bad" \in Heard(dev)
      BY EnvironmentAssumption DEF Heard, Octets
    <2>3. bad \in [1..Len(shape) -> Heard(dev)]
      BY <2>2
    <2> QED
      BY <2>1, <2>3, SeqDef
  <1> HIDE DEF short, bad
  <1>8. ASSUME NEW cks \in CksOctets, Received(Filled(shape, cks))
        PROVE  Knows(port', dev)
    BY <1>1, <1>2, <1>3, <1>8, FilledHeard, ReceivedKnows
  <1>9. Received(bad) \/ Received(short) => Knows(port', dev)
    BY <1>1, <1>6, <1>7, ReceivedKnows
  <1> QED
    BY <1>4, <1>8, <1>9

\* All that the port knows, it knows of one device: the connected one, as long
\* as it is connected.  A device that is not there is not awake either.
OneDevice ==
    /\ \E d \in DevIds : Knows(port, d) /\ (dev # "absent" => d = dev)
    /\ awake => dev # "absent"

\* At the start nothing has been heard.
LEMMA InitOneDevice == ASSUME Init PROVE OneDevice
  <1>1. PICK c \in Choices : port = PortInit(PowerOnPhy, c)
    BY DEF Init
  <1>2. /\ PowerOnPhy.phy_mode \in Modes
        /\ PowerOnPhy.phy_rate \in 0..LastRate
        /\ PowerOnPhy.fifo \in Seq(Octets) /\ PowerOnPhy.owed \in Seq(Shapes)
        /\ \A d \in DevIds : PowerOnPhy.fifo \in Seq(Heard(d))
    BY EnvironmentAssumption, EmptySeq DEF PowerOnPhy, Modes, LastRate
  <1>3. \A d \in DevIds : Knows(port, d)
    BY <1>1, <1>2, PortInitKnows
  <1>4. ExpectedId \in DevIds /\ (dev # "absent" => dev \in DevIds)
    BY EnvironmentAssumption DEF Init
  <1>5. awake = FALSE
    BY DEF Init
  <1> QED
    BY <1>3, <1>4, <1>5 DEF OneDevice

\* No step makes the port believe anything of another device, as long as no
\* device is swapped for another.
LEMMA NextOneDevice ==
    ASSUME Pluggable \subseteq {"absent"}, Inv, OneDevice, [Next]_vars
    PROVE  OneDevice'
  <1>1. port \in Good /\ port \in Ports
    BY DEF Inv, Good
  <1>2. PICK d \in DevIds : Knows(port, d) /\ (dev # "absent" => d = dev)
    BY DEF OneDevice
  <1>3. awake => dev # "absent"
    BY DEF OneDevice
  <1>4. ASSUME NEW s, Knows(s, d), s \in Ports,
               port' = [s EXCEPT !.tx = "none"], UNCHANGED <<dev, awake>>
        PROVE  OneDevice'
    <2>1. Knows(port', d)
      BY <1>4, PutSteady, SteadyKnows
    <2> QED
      BY <1>2, <1>3, <1>4, <2>1 DEF OneDevice
  <1>5. ASSUME Knows(port', d), DeviceHears, dev' = dev
        PROVE  OneDevice'
    BY <1>2, <1>3, <1>5 DEF OneDevice, DeviceHears
  <1>6. ASSUME NEW c \in Choices, TickAt(c)
        PROVE  OneDevice'
    BY <1>1, <1>2, <1>5, <1>6, TickCommonKnows DEF TickAt
  <1>7. ASSUME NEW c \in Choices,
               NEW e \in {"NONE", "CYCLE_DUE", "RESPONSE_TIMEOUT"},
               TickEvent(e, c)
        PROVE  OneDevice'
    BY <1>1, <1>2, <1>5, <1>7, TickCommonKnows DEF TickEvent
  <1>8. ASSUME NEW c \in Choices, Restart(c)
        PROVE  OneDevice'
    <2>1. /\ port.phy_mode \in Modes /\ port.phy_rate \in 0..LastRate
          /\ port.fifo \in Seq(Octets) /\ port.owed \in Seq(Shapes)
      BY <1>1 DEF Ports
    <2>2. port.fifo \in Seq(Heard(d))
      BY <1>2 DEF Knows, HeardFrom
    <2>3. Knows(port', d)
      BY <1>8, <2>1, <2>2, PortInitKnows DEF Restart
    <2> QED
      BY <1>2, <1>3, <1>8, <2>3 DEF Restart, OneDevice
  <1>9. CASE StartIsdu
    <2> DEFINE s == IsduStart(port, "app")
    <2>1. s \in Ports
      BY <1>1, IsduStartKept DEF Kept, Good
    <2>2. Steady(port, s)
      BY <1>1 DEF IsduStart, Ports, Steady, Learns
    <2> HIDE DEF s
    <2>3. Knows(s, d)
      BY <1>2, <2>2, SteadyKnows
    <2> QED
      BY <1>4, <1>9, <2>1, <2>3 DEF StartIsdu, s
  <1>10. CASE CollectIsdu
    <2> DEFINE s == IsduFinish(port)
    <2>1. s \in Ports
      BY <1>1, IsduFinishKept DEF Kept, Good
    <2>2. Steady(port, s)
      BY <1>1 DEF IsduFinish, Ports, Steady, Learns
    <2> HIDE DEF s
    <2>3. Knows(s, d)
      BY <1>2, <2>2, SteadyKnows
    <2> QED
      BY <1>4, <1>10, <2>1, <2>3 DEF CollectIsdu, s
  <1>11. ASSUME NEW phase \in {"read", "read_ack"}, StartEvent(phase)
         PROVE  OneDevice'
    <2> DEFINE x == [port EXCEPT !.event = phase, !.event_od_expected = FALSE]
    <2>1. port' = [x EXCEPT !.tx = "none"]
      BY <1>11 DEF StartEvent
    <2>2. x \in Ports
      BY <1>1, ZenonT(40) DEF Ports
    <2>3. Steady(port, x)
      BY <1>1 DEF Ports, Steady, Learns
    <2> HIDE DEF x
    <2>4. Knows(x, d)
      BY <1>2, <2>3, SteadyKnows
    <2> QED
      BY <1>4, <1>11, <2>1, <2>2, <2>4 DEF StartEvent
  <1>12. CASE CollectEvent
    <2> DEFINE x == [port EXCEPT !.event = "none"]
    <2>1. port' = [x EXCEPT !.tx = "none"]
      BY <1>12 DEF CollectEvent
    <2>2. x \in Ports
      BY <1>1, ZenonT(40) DEF Ports
    <2>3. Steady(port, x)
      BY <1>1 DEF Ports, Steady, Learns
    <2> HIDE DEF x
    <2>4. Knows(x, d)
      BY <1>2, <2>3, SteadyKnows
    <2> QED
      BY <1>4, <1>12, <2>1, <2>2, <2>4 DEF CollectEvent
  <1>13. ASSUME NEW e \in Pluggable, Plug(e)
         PROVE  OneDevice'
    <2> DEFINE x == [port EXCEPT !.owed = <<>>]
    <2>1. port' = [x EXCEPT !.tx = "none"]
      BY <1>13 DEF Plug
    <2>2. x \in Ports
      BY <1>1, EmptySeq, PutWire DEF Kept, Good
    <2>3. Steady(port, x)
      BY <1>1 DEF Ports, Steady, Learns
    <2> HIDE DEF x
    <2>4. Knows(port', d)
      BY <1>2, <2>1, <2>2, <2>3, PutSteady, SteadyKnows
    <2>5. dev' = "absent" /\ awake' = FALSE
      BY <1>13 DEF Plug
    <2> QED
      BY <1>2, <2>4, <2>5 DEF OneDevice
  <1>14. CASE \/ \E cks \in CksOctets : Answer(cks)
              \/ AnswerGarbled \/ AnswerTruncated
    <2>1. dev # "absent" /\ UNCHANGED <<dev, awake>>
      BY <1>14 DEF Answer, AnswerGarbled, AnswerTruncated, CanAnswer, Received
    <2>2. Knows(port', dev)
      BY <1>2, <1>14, <2>1, AnswersKnows
    <2> QED
      BY <1>2, <1>3, <2>1, <2>2 DEF OneDevice
  <1>15. CASE Elapse
    <2> DEFINE a == Less(port.deadline)
               b == Less(port.send_gate)
               l == Less(port.cycle_left)
               q == [port EXCEPT !.deadline = a, !.send_gate = b,
                                 !.cycle_left = l, !.tx = "none"]
    <2>1. port' = q
      BY <1>15, Zenon DEF Elapse
    <2> HIDE DEF a, b, l
    <2>2. Steady(port, q)
      BY <1>1 DEF Ports, Steady, Learns
    <2> HIDE DEF q
    <2>3. Knows(port', d)
      BY <1>2, <2>1, <2>2, SteadyKnows
    <2> QED
      BY <1>2, <1>3, <1>15, <2>3 DEF Elapse, OneDevice
  <1>16. CASE UNCHANGED vars
    BY <1>16 DEF OneDevice, vars
  <1> QED
    BY <1>6, <1>7, <1>8, <1>9, <1>10, <1>11, <1>12, <1>13, <1>14, <1>15, <1>16
    DEF Next

\* A validating port takes to OPERATE only the device its configuration asks
\* for, whatever is lost, garbled, left over from before a restart or refused
\* by the PHY, as long as no device is swapped for another behind its back:
\* a device may only be unplugged.  With a swap it does not hold, as the run
\* BugIdentity shows (validate_device_info, process_at).
THEOREM ExpectedDeviceOnly ==
    ASSUME Pluggable \subseteq {"absent"}
    PROVE  Spec => []OperatesExpectedDevice
  <1>1. Init => Inv /\ OneDevice
    BY InitInv, InitOneDevice
  <1>2. Inv /\ OneDevice /\ [Next]_vars => Inv' /\ OneDevice'
    BY NextInv, NextOneDevice
  <1>3. OneDevice => OperatesExpectedDevice
    <2>1. "none" \notin DevIds /\ ExpectedId \in DevIds
      BY EnvironmentAssumption
    <2> QED
      BY <2>1 DEF OneDevice, OperatesExpectedDevice, Knows, HeardFrom, Validated
  <1> QED
    BY <1>1, <1>2, <1>3, PTL DEF Spec

-----------------------------------------------------------------------------
(* The framing of the exchange.                                            *)

\* A line that neither garbles nor truncates and carries one reply at a time,
\* to a port with process data whose application runs ISDU services in OPERATE
\* at most, and is not initialised again.  A device that is sent acyclic writes
\* before OPERATE answers them as it answers reads.
CleanLine ==
    /\ Timed /\ ~Type0 /\ MaxOwed = 1 /\ Noise = {}
    /\ AppCalls \subseteq {"isdu"} /\ ServiceStates \subseteq {"OPERATE"}
    /\ Validate \/ "isdu" \in AppCalls => Type0WriteOd

\* What may wait in the receive FIFO: the reply to a read of the startup, a
\* cyclic reply, what a lost exchange left behind, and that with the answer to
\* the test message after it.
OdFrame(f) == Len(f) = 2 /\ f[1] \in OdOctets /\ f[2] \in Cks
PdFrame(f) == Len(f) = 2 /\ f[1] = "pd" /\ f[2] \in Cks
Leftover(f) == f = <<>> \/ OdFrame(f) \/ PdFrame(f)
TwoFrames(f) ==
    /\ Len(f) = 4
    /\ f[1] \in OdOctets \cup {"pd"} /\ f[2] \in Cks
    /\ f[3] \in OdOctets /\ f[4] \in Cks

\* At most one reply is on its way, of one of the shapes.
Owes(p, shapes) ==
    p.owed = <<>> \/ (Len(p.owed) = 1 /\ p.owed[1] \in shapes)

\* Nothing is half collected and no event service runs.  ISDU services run only
\* where acyclic writes are answered as reads are.
Plain(p) ==
    /\ p.rx = <<>> /\ ~EventActive(p)
    /\ Type0WriteOd \/ (p.isdu_phase = "none" /\ p.isdu_pending = "none")

\* In STARTUP a late reply of the exchange before may still arrive, and may
\* wait in the FIFO; the test message is sent when it cannot arrive any more.
StartupFramed(p) ==
    /\ p.step # "AWAIT_RESPONSE" =>
          /\ Leftover(p.fifo)
          /\ Owes(p, {<<"od", "cks">>, <<"pd", "cks">>})
          /\ p.fifo = <<>> \/ p.owed = <<>>
    /\ p.step = "SEND_TYPE0" => p.owed = <<>>
    /\ p.step = "AWAIT_RESPONSE" =>
          \/ Leftover(p.fifo) /\ Owes(p, {<<"od", "cks">>})
          \/ TwoFrames(p.fifo) /\ p.owed = <<>>

\* In PREOPERATE a reply is owed, or waits whole, or neither; after the
\* DeviceOperate write it is a lone CKS, and nothing else is sent any more.
PreoperateFramed(p) ==
    /\ p.rx_retry_count = 0 /\ ~p.awaiting_response
    /\ p.step \in {"AWAIT_RESPONSE", "AWAIT_OPERATE_ACK"}
    /\ p.step = "AWAIT_RESPONSE" =>
          \/ p.fifo = <<>> /\ Owes(p, {<<"od", "cks">>, <<"idle", "cks">>})
          \/ OdFrame(p.fifo) /\ p.owed = <<>>
    /\ p.step = "AWAIT_OPERATE_ACK" =>
          /\ \/ p.fifo = <<>> /\ Owes(p, {<<"cks">>})
             \/ Len(p.fifo) = 1 /\ p.fifo[1] \in Cks /\ p.owed = <<>>
          /\ ~p.rx_od_expected /\ ~IsduSending(p)
          /\ Validate => p.device_info # "none"

\* In OPERATE it is the reply to the frame last sent; only that of a cycle is
\* waited for.
OperateFramed(p) ==
    /\ \/ p.fifo = <<>> /\ Owes(p, {TypedReply(p.rx_od_expected)})
       \/ Intact(TypedReply(p.rx_od_expected), p.fifo) /\ p.owed = <<>>
    /\ p.awaiting_response => ~p.rx_od_expected

\* The inductive invariant.
Framed(p) ==
    /\ Plain(p)
    /\ p.state = "STARTUP" => StartupFramed(p)
    /\ p.state = "PREOPERATE" => PreoperateFramed(p)
    /\ p.state = "OPERATE" => OperateFramed(p)

\* Nothing of all this is about other fields.
LEMMA SameFramed ==
    ASSUME NEW p, NEW q, Framed(p),
           q.rx = p.rx, q.fifo = p.fifo, q.owed = p.owed,
           q.rx_od_expected = p.rx_od_expected,
           SameControl(p, q), SameService(p, q)
    PROVE  Framed(q)
BY DEF Framed, Plain, StartupFramed, PreoperateFramed, OperateFramed, Owes,
       SameControl, SameService, EventActive, IsduSending

\* With one reply at a time, a request is owed its reply and no other.
LEMMA OweOne ==
    ASSUME MaxOwed = 1, NEW owed \in Seq(Shapes), NEW reply \in Shapes,
           owed = <<>> \/ Len(owed) = 1
    PROVE  LET o == Owe(owed, reply) IN Len(o) = 1 /\ o[1] = reply
  <1>1. CASE owed = <<>>
    <2>1. Owe(owed, reply) = Append(owed, reply)
      BY <1>1 DEF Owe
    <2> QED
      BY <1>1, <2>1
  <1>2. CASE Len(owed) = 1
    <2>1. Owe(owed, reply) = [owed EXCEPT ![1] = reply]
      BY <1>2 DEF Owe
    <2>2. 1 \in 1..Len(owed)
      BY <1>2
    <2>3. /\ Len([owed EXCEPT ![1] = reply]) = Len(owed)
          /\ [owed EXCEPT ![1] = reply][1] = reply
      BY <2>2, ExceptSeq
    <2> QED
      BY <1>2, <2>1, <2>3
  <1> QED
    BY <1>1, <1>2

\* A frame that was sent is owed its reply and no other.
LEMMA SentOwes ==
    ASSUME MaxOwed = 1, NEW p \in Ports, NEW q, NEW kind, NEW read,
           NEW reply \in Shapes, NEW shapes, Owes(p, shapes),
           Sent(p, q, kind, read, reply)
    PROVE  Owes(q, {reply})
  <1>1. p.owed \in Seq(Shapes)
    BY DEF Ports
  <1>2. Len(Owe(p.owed, reply)) = 1 /\ Owe(p.owed, reply)[1] = reply
    BY <1>1, OweOne DEF Owes
  <1> QED
    BY <1>2 DEF Sent, Owes

\* A poll that finds nothing (poll_rx).
LEMMA PollNothing ==
    ASSUME NEW p \in Good, Polled(p), p.rx = <<>>, p.fifo = <<>>, NEW c
    PROVE  LET s == PollRx(p, c)
           IN  /\ s.ok <=> c.fail # "recv_byte"
               /\ s.ok => s.p = p
               /\ ~s.ok => /\ s.p.state = "ERROR" /\ s.p.rx = <<>>
                           /\ s.p.tx = p.tx /\ s.p.event = p.event
                           /\ s.p.isdu_phase = p.isdu_phase
                           /\ s.p.isdu_pending = p.isdu_pending
  <1> DEFINE n == Len(ExpectedReply(p))
             r == [ok |-> TRUE, p |-> p]
             s == PollRx(p, c)
  <1>1. r \in Polls
    BY DEF Polls
  <1>2. PollFrame(r, n, c) = r
    BY PollOver
  <1>3. r = PollFrame(PollFrame(PollFrame(PollFrame(r, n, c), n, c), n, c), n, c)
    BY <1>2
  <1>4. /\ s.ok <=> r.ok /\ c.fail # "recv_byte"
        /\ s.ok => s = r
        /\ ~s.ok /\ r.ok => /\ s.p.state = "ERROR" /\ s.p.rx = <<>>
                            /\ s.p.tx = r.p.tx
                            /\ s.p.isdu_phase = r.p.isdu_phase
                            /\ s.p.isdu_pending = r.p.isdu_pending
                            /\ s.p.event = r.p.event
    BY <1>1, <1>3, PollRxEnds
  <1> HIDE DEF s
  <1>5. s.ok => s.p = p
    BY <1>4
  <1>6. (s.ok <=> c.fail # "recv_byte")
    BY <1>4
  <1>7. ~s.ok => /\ s.p.state = "ERROR" /\ s.p.rx = <<>>
                 /\ s.p.tx = p.tx /\ s.p.event = p.event
                 /\ s.p.isdu_phase = p.isdu_phase
                 /\ s.p.isdu_pending = p.isdu_pending
    BY <1>4
  <1> QED
    BY <1>5, <1>6, <1>7 DEF s

\* The halves of a sequence of two or four.
LEMMA Halves ==
    ASSUME NEW S, NEW f \in Seq(S)
    PROVE  /\ Len(f) \in {2, 4} => Len(f) >= 2
           /\ Len(f) = 2 => SubSeq(f, 1, 2) = f /\ SubSeq(f, 3, Len(f)) = <<>>
           /\ Len(f) = 4 => /\ Len(SubSeq(f, 3, 4)) = 2
                            /\ SubSeq(f, 3, 4)[1] = f[3]
                            /\ SubSeq(f, 3, 4)[2] = f[4]
  <1>1. Len(f) \in {2, 4} => Len(f) >= 2
    OBVIOUS
  <1>2. Len(f) = 2 => SubSeq(f, 1, 2) = f /\ SubSeq(f, 3, Len(f)) = <<>>
    OBVIOUS
  <1>3. ASSUME Len(f) = 4
        PROVE  /\ Len(SubSeq(f, 3, 4)) = 2
               /\ SubSeq(f, 3, 4)[1] = f[3] /\ SubSeq(f, 3, 4)[2] = f[4]
    BY <1>3
  <1> QED
    BY <1>1, <1>2, <1>3

\* The two octets a poll of STARTUP hands to on_rx first.
LEMMA FirstFrame ==
    ASSUME NEW p \in Good, p.state = "STARTUP", p.step = "AWAIT_RESPONSE",
           p.rx = <<>>, Len(p.fifo) \in {2, 4}, NEW c
    PROVE  LET y == Consumed(p, 2)
               f == SubSeq(p.fifo, 1, 2)
           IN  /\ Len(ExpectedReply(p)) = 2
               /\ PollFrame([ok |-> TRUE, p |-> p], 2, c) = PolledFrame(y, f, c)
               /\ y \in Good /\ Advanced(p, y) /\ Polled(y)
               /\ y.fifo = SubSeq(p.fifo, 3, Len(p.fifo))
               /\ Len(f) = 2 /\ f[1] = p.fifo[1] /\ f[2] = p.fifo[2]
               /\ Accepts(y, f) <=> f[1] \in OdOctets /\ f[2] \in Cks
  <1>0. p.fifo \in Seq(Octets)
    BY DEF Good, Ports
  <1> DEFINE y == Consumed(p, 2)
             f == SubSeq(p.fifo, 1, 2)
  <1>1. Len(p.fifo) >= 2 /\ p.fifo \in Seq(Octets)
    BY <1>0, Halves
  <1>2. PollFrame([ok |-> TRUE, p |-> p], 2, c) = PolledFrame(y, f, c)
    BY <1>1, PollRound
  <1>3. /\ y \in Good /\ Advanced(p, y)
        /\ y.fifo = SubSeq(p.fifo, 2 + 1, Len(p.fifo))
        /\ ExpectedReply(y) = ExpectedReply(p) /\ (Polled(y) <=> Polled(p))
    BY ConsumedFields
  <1>4. ExpectedReply(p) = <<"od", "cks">> /\ Polled(p)
    BY DEF ExpectedReply, Polled
  <1>5. Len(f) = 2 /\ f[1] = p.fifo[1] /\ f[2] = p.fifo[2]
    BY <1>1
  <1> HIDE DEF y, f
  <1>6. y.state = "STARTUP" /\ y.step = "AWAIT_RESPONSE"
    BY <1>3 DEF Advanced, SameControl
  <1>7. Accepts(y, f) <=> Intact(<<"od", "cks">>, f)
    BY <1>3, <1>4, <1>6 DEF Accepts
  <1>8. Intact(<<"od", "cks">>, f) <=> f[1] \in OdOctets /\ f[2] \in Cks
    BY <1>5 DEF Intact
  <1>9. Len(ExpectedReply(p)) = 2
    BY <1>4
  <1>10. y.fifo = SubSeq(p.fifo, 3, Len(p.fifo))
    BY <1>3
  <1> QED
    BY <1>2, <1>3, <1>4, <1>5, <1>7, <1>8, <1>9, <1>10 DEF y, f

\* A leftover that is not the answer to a test message is dropped, and ends
\* the poll (poll_rx).
LEMMA PollRejects ==
    ASSUME NEW p \in Good, p.state = "STARTUP", p.step = "AWAIT_RESPONSE",
           p.rx = <<>>, Len(p.fifo) \in {2, 4}, p.fifo[1] \notin OdOctets,
           NEW c
    PROVE  LET s == PollRx(p, c)
           IN  /\ ~s.ok /\ Advanced(p, s.p)
               /\ s.p.fifo = SubSeq(p.fifo, 3, Len(p.fifo))
  <1> DEFINE y == Consumed(p, 2)
             f == SubSeq(p.fifo, 1, 2)
             r0 == [ok |-> TRUE, p |-> p]
             r == PolledFrame(y, f, c)
             s == PollRx(p, c)
  <1>1. /\ Len(ExpectedReply(p)) = 2 /\ PollFrame(r0, 2, c) = r
        /\ y \in Good /\ Advanced(p, y) /\ Polled(y)
        /\ y.fifo = SubSeq(p.fifo, 3, Len(p.fifo))
        /\ ~Accepts(y, f)
    BY FirstFrame
  <1>2. r \in Polls
    BY <1>1, PolledFrameType
  <1> HIDE DEF y, f
  <1>3. y.state = "STARTUP"
    BY <1>1 DEF Advanced, SameControl
  <1>4. ~r.ok /\ r.p = y
    BY <1>1, <1>3 DEF PolledFrame, OnRx
  <1> HIDE DEF r, r0
  <1>5. PollFrame(r, 2, c) = r
    BY <1>4, PollOver
  <1>6. r = PollFrame(PollFrame(PollFrame(PollFrame(r0, 2, c), 2, c), 2, c), 2, c)
    BY <1>1, <1>5
  <1>7. Polled(p)
    BY DEF Polled
  <1>8. ~s.ok /\ s = r
    <2>1. /\ s.ok <=> r.ok /\ c.fail # "recv_byte"
          /\ ~s.ok /\ ~r.ok => s = r
      BY <1>1, <1>2, <1>6, <1>7, PollRxEnds DEF r0
    <2> HIDE DEF s
    <2> QED
      BY <1>4, <2>1
  <1> HIDE DEF s
  <1> QED
    BY <1>1, <1>4, <1>8 DEF s

\* Taking two replies is taking one.
LEMMA RepliedTwice ==
    ASSUME NEW p, NEW y, NEW q, NEW z, NEW s,
           p.state = "STARTUP", p.step = "AWAIT_RESPONSE",
           Advanced(p, y), Replied(y, q), Advanced(q, z), Replied(z, s)
    PROVE  /\ s.state = "PREOPERATE" /\ s.step = p.step
           /\ s.owed = p.owed /\ s.rx = <<>> /\ s.fifo = z.fifo
           /\ s.tx = p.tx /\ s.send_gate = p.send_gate
           /\ s.rx_od_expected = p.rx_od_expected
           /\ s.rx_retry_count = 0 /\ ~s.awaiting_response
           /\ s.device_info = p.device_info
           /\ EventActive(s) => EventActive(p)
           /\ p.isdu_phase # "wait" => /\ s.isdu_phase = p.isdu_phase
                                       /\ s.isdu_pending = p.isdu_pending
  <1>1. y.state = "STARTUP" /\ y.step = "AWAIT_RESPONSE"
    BY DEF Advanced, SameControl
  <1>2. q.state = "PREOPERATE" /\ q.step = "AWAIT_RESPONSE"
    BY <1>1 DEF Replied, StateAfterReply
  <1>3. z.state = "PREOPERATE" /\ z.step = "AWAIT_RESPONSE"
    BY <1>2 DEF Advanced, SameControl
  <1>4. s.state = "PREOPERATE" /\ s.step = "AWAIT_RESPONSE"
    BY <1>3 DEF Replied, StateAfterReply
  <1> QED
    BY <1>4
    DEF Advanced, Replied, SameWire, SameControl, SameService, EventActive

\* What was waiting was taken, all of it.
Taken(p, q) ==
    /\ Polled(p) /\ p.fifo # <<>>
    /\ q.rx = <<>> /\ q.fifo = <<>> /\ q.owed = p.owed
    /\ q.rx_od_expected = p.rx_od_expected
    /\ q.tx = p.tx /\ q.send_gate = p.send_gate
    /\ q.step = p.step /\ q.device_info = p.device_info
    /\ q.rx_retry_count = 0 /\ ~q.awaiting_response
    /\ q.state = StateAfterReply(p)
    /\ Plain(q)

\* An old answer to a test message waits before the present one: both are
\* taken, the second in PREOPERATE.
LEMMA PollTwo ==
    ASSUME NEW p \in Good, p.state = "STARTUP", p.step = "AWAIT_RESPONSE",
           Plain(p), TwoFrames(p.fifo), p.fifo[1] \in OdOctets,
           NEW c
    PROVE  LET s == PollRx(p, c)
           IN  /\ s.ok => Taken(p, s.p)
               /\ ~s.ok => s.p.state = "ERROR" /\ s.p.tx = p.tx /\ Plain(s.p)
  <1> DEFINE y == Consumed(p, 2)
             f == SubSeq(p.fifo, 1, 2)
             q == OnRx(y, f, c)
             z == Consumed(q, 2)
             g == SubSeq(q.fifo, 1, 2)
             t == OnRx(z, g, c)
             r0 == [ok |-> TRUE, p |-> p]
             r1 == [ok |-> TRUE, p |-> q]
             r == [ok |-> TRUE, p |-> t]
             s == PollRx(p, c)
  <1>0. p.rx = <<>> /\ Len(p.fifo) = 4 /\ p.fifo \in Seq(Octets)
    BY DEF Plain, TwoFrames, Good, Ports
  <1>1. /\ Len(ExpectedReply(p)) = 2
        /\ PollFrame(r0, 2, c) = PolledFrame(y, f, c)
        /\ y \in Good /\ Advanced(p, y) /\ Polled(y)
        /\ y.fifo = SubSeq(p.fifo, 3, Len(p.fifo))
        /\ Accepts(y, f)
    BY <1>0, FirstFrame DEF TwoFrames
  <1> HIDE DEF y, f
  <1>2. Replied(y, q) /\ q \in Good /\ Polled(q)
    BY <1>1, OnRxReplied, OnRxGood
  <1>3. PollFrame(r0, 2, c) = r1
    BY <1>1 DEF PolledFrame
  <1> HIDE DEF q, r0
  <1>4. /\ q.rx = <<>> /\ q.fifo = SubSeq(p.fifo, 3, 4)
        /\ q.state = "PREOPERATE" /\ q.step = "AWAIT_RESPONSE"
    BY <1>0, <1>1, <1>2
    DEF Replied, SameWire, Advanced, SameControl, StateAfterReply
  <1>5. /\ Len(q.fifo) = 2 /\ q.fifo[1] = p.fifo[3] /\ q.fifo[2] = p.fifo[4]
        /\ q.fifo \in Seq(Octets)
    <2>1. q.fifo \in Seq(Octets)
      BY <1>2 DEF Good, Ports
    <2> QED
      BY <1>0, <1>4, <2>1, Halves
  <1>6. /\ z \in Good /\ Advanced(q, z)
        /\ z.fifo = SubSeq(q.fifo, 2 + 1, Len(q.fifo))
        /\ ExpectedReply(z) = ExpectedReply(q) /\ Polled(z)
    BY <1>2, <1>4, ConsumedFields
  <1>7. z.fifo = <<>> /\ g = q.fifo
    <2>1. SubSeq(q.fifo, 1, 2) = q.fifo /\ SubSeq(q.fifo, 3, Len(q.fifo)) = <<>>
      BY <1>5, Halves
    <2>2. z.fifo = SubSeq(q.fifo, 3, Len(q.fifo))
      <3> HIDE DEF z
      <3> QED
        BY <1>6
    <2> QED
      BY <2>1, <2>2
  <1>8. PollFrame(r1, 2, c) = PolledFrame(z, g, c)
    <2>1. Len(q.fifo) >= 2
      BY <1>5
    <2>2. q \in Good /\ q.rx = <<>>
      BY <1>2, <1>4
    <2>3. PollFrame([ok |-> TRUE, p |-> q], 2, c)
             = PolledFrame(Consumed(q, 2), SubSeq(q.fifo, 1, 2), c)
      BY <2>1, <2>2, PollRound
    <2> QED
      BY <2>3
  <1> HIDE DEF z, g
  <1>9. Accepts(z, g)
    <2>1. ExpectedReply(z) = <<"od", "cks">> /\ z.state = "PREOPERATE"
      BY <1>4, <1>6 DEF ExpectedReply, Advanced, SameControl
    <2>2. Intact(<<"od", "cks">>, g)
      <3>1. Len(g) = 2 /\ g[1] \in OdOctets /\ g[2] \in Cks
        BY <1>5, <1>7 DEF TwoFrames
      <3> QED
        BY <3>1 DEF Intact
    <2> QED
      BY <2>1, <2>2 DEF Accepts
  <1>10. Replied(z, t) /\ t \in Good /\ Polled(t)
    BY <1>6, <1>9, OnRxReplied, OnRxGood
  <1>11. PollFrame(r1, 2, c) = r
    BY <1>8, <1>9 DEF PolledFrame
  <1> HIDE DEF t, r1
  <1>12. /\ t.state = "PREOPERATE" /\ t.step = p.step
         /\ t.owed = p.owed /\ t.rx = <<>> /\ t.fifo = z.fifo
         /\ t.tx = p.tx /\ t.send_gate = p.send_gate
         /\ t.rx_od_expected = p.rx_od_expected
         /\ t.rx_retry_count = 0 /\ ~t.awaiting_response
         /\ t.device_info = p.device_info
         /\ EventActive(t) => EventActive(p)
         /\ p.isdu_phase # "wait" => /\ t.isdu_phase = p.isdu_phase
                                     /\ t.isdu_pending = p.isdu_pending
    BY <1>1, <1>2, <1>6, <1>10, RepliedTwice
  <1>13. Taken(p, t)
    BY <1>0, <1>7, <1>12 DEF Taken, Plain, Polled, StateAfterReply
  <1>14. PollFrame(r, 2, c) = r /\ r \in Polls
    BY <1>7, <1>10, <1>12, PollOver DEF Polls
  <1>15. r = PollFrame(PollFrame(PollFrame(PollFrame(r0, 2, c), 2, c), 2, c), 2, c)
    BY <1>3, <1>11, <1>14
  <1>16. Polled(p) /\ r.ok /\ r.p = t
    BY DEF Polled
  <1> HIDE DEF r
  <1>17. /\ s.ok => s = r
         /\ ~s.ok => /\ s.p.state = "ERROR" /\ s.p.rx = <<>>
                     /\ s.p.tx = r.p.tx
                     /\ s.p.isdu_phase = r.p.isdu_phase
                     /\ s.p.isdu_pending = r.p.isdu_pending
                     /\ s.p.event = r.p.event
    BY <1>1, <1>14, <1>15, <1>16, PollRxEnds DEF r0
  <1> HIDE DEF s
  <1>18. s.ok => Taken(p, s.p)
    BY <1>13, <1>16, <1>17
  <1>19. ~s.ok => s.p.state = "ERROR" /\ s.p.tx = p.tx /\ Plain(s.p)
    BY <1>12, <1>13, <1>16, <1>17 DEF Taken, Plain, EventActive
  <1> QED
    BY <1>18, <1>19 DEF s

\* A whole reply is taken.
LEMMA PollOne ==
    ASSUME NEW p \in Good, Polled(p), Plain(p),
           Intact(ExpectedReply(p), p.fifo), NEW c
    PROVE  LET s == PollRx(p, c)
           IN  /\ s.ok => Taken(p, s.p)
               /\ ~s.ok => s.p.state = "ERROR" /\ s.p.tx = p.tx /\ Plain(s.p)
  <1> DEFINE s == PollRx(p, c)
             y == Consumed(p, Len(p.fifo))
  <1>1. p.rx = <<>> /\ p.fifo \in Seq(Octets) /\ Len(p.fifo) \in Nat
    BY LenProperties DEF Plain, Good, Ports
  <1>2. p.fifo # <<>>
    BY ReplyLengths DEF Intact
  <1>3. /\ s.ok => s.p.fifo = <<>> /\ Replied(y, s.p)
        /\ ~s.ok => /\ s.p.state = "ERROR" /\ s.p.rx = <<>>
                    /\ s.p.tx = p.tx
                    /\ EventActive(s.p) => EventActive(p)
                    /\ p.isdu_phase = "none" /\ p.isdu_pending = "none"
                          => /\ s.p.isdu_phase = "none"
                             /\ s.p.isdu_pending = "none"
    BY <1>1, PollWhole
  <1>4. Advanced(p, y)
    BY <1>1, ConsumedFields
  <1> HIDE DEF s, y
  <1>5. ~s.ok => s.p.state = "ERROR" /\ s.p.tx = p.tx /\ Plain(s.p)
    BY <1>3 DEF Plain
  <1>6. ASSUME s.ok
        PROVE  Taken(p, s.p)
    <2> DEFINE q == s.p
    <2>1. Replied(y, q) /\ q.fifo = <<>>
      BY <1>3, <1>6
    <2> HIDE DEF q
    <2>2. /\ q.rx = <<>> /\ q.owed = p.owed /\ q.tx = p.tx
          /\ q.rx_od_expected = p.rx_od_expected
          /\ q.send_gate = p.send_gate
          /\ q.step = p.step /\ q.device_info = p.device_info
          /\ q.rx_retry_count = 0 /\ ~q.awaiting_response
          /\ EventActive(q) => EventActive(p)
          /\ p.isdu_phase # "wait" => /\ q.isdu_phase = p.isdu_phase
                                      /\ q.isdu_pending = p.isdu_pending
      BY <1>4, <2>1
      DEF Replied, Advanced, SameWire, SameControl, SameService, EventActive
    <2>3. q.state = StateAfterReply(p)
      BY <1>4, <2>1 DEF Replied, Advanced, SameControl, StateAfterReply
    <2>4. Plain(q)
      BY <2>2 DEF Plain
    <2> QED
      BY <1>2, <2>1, <2>2, <2>3, <2>4 DEF Taken, q
  <1> QED
    BY <1>5, <1>6 DEF s

\* A reply that was taken leaves the exchange framed.
LEMMA TakenFramed ==
    ASSUME NEW p, NEW q, Framed(p), Taken(p, q)
    PROVE  Framed(q)
  <1>1. CASE p.state = "STARTUP"
    <2>1. p.step = "AWAIT_RESPONSE"
      BY <1>1 DEF Taken, Polled
    <2>2. Owes(p, {<<"od", "cks">>, <<"idle", "cks">>})
      BY <1>1, <2>1 DEF Framed, StartupFramed, Owes
    <2> QED
      BY <1>1, <2>1, <2>2
      DEF Taken, StateAfterReply, Framed, PreoperateFramed, Owes
  <1>2. CASE p.state = "PREOPERATE" /\ p.step = "AWAIT_OPERATE_ACK"
    <2>1. p.owed = <<>> /\ q.state = "OPERATE"
      BY <1>2 DEF Taken, StateAfterReply, Framed, PreoperateFramed
    <2> QED
      BY <2>1 DEF Taken, Framed, OperateFramed, Owes
  <1>3. CASE p.state = "PREOPERATE" /\ p.step # "AWAIT_OPERATE_ACK"
    BY <1>3 DEF Taken, StateAfterReply, Framed, PreoperateFramed, Owes
  <1>4. CASE p.state = "OPERATE"
    BY <1>4 DEF Taken, StateAfterReply, Framed, OperateFramed, Owes
  <1> QED
    BY <1>1, <1>2, <1>3, <1>4 DEF Taken, Polled

\* A leftover was dropped: the port goes on waiting in STARTUP.
Dropped(p, q) ==
    /\ p.state = "STARTUP" /\ q.state = "STARTUP" /\ q.step = p.step
    /\ p.step = "AWAIT_RESPONSE" /\ p.fifo # <<>>
    /\ q.tx = p.tx /\ q.send_gate = p.send_gate

\* What poll_rx makes of a framed exchange.
PollOutcome(p, s) ==
    \/ s.ok /\ s.p = p /\ (Polled(p) => p.fifo = <<>>)
    \/ s.ok /\ Taken(p, s.p)
    \/ ~s.ok /\ s.p.state = "ERROR" /\ s.p.tx = p.tx /\ Plain(s.p)
    \/ ~s.ok /\ Dropped(p, s.p) /\ Framed(s.p)

LEMMA PollFramed ==
    ASSUME CleanLine, NEW p \in Good, Framed(p), NEW c
    PROVE  PollOutcome(p, PollRx(p, c))
  <1> DEFINE s == PollRx(p, c)
  <1>0. Plain(p) /\ p.rx = <<>> /\ p.fifo \in Seq(Octets)
    BY DEF Framed, Plain, Good, Ports
  <1>1. CASE ~Polled(p)
    BY <1>1 DEF PollRx, PollOutcome
  <1>2. CASE Polled(p) /\ p.fifo = <<>>
    <2>1. /\ s.ok => s.p = p
          /\ ~s.ok => /\ s.p.state = "ERROR" /\ s.p.rx = <<>>
                      /\ s.p.tx = p.tx /\ s.p.event = p.event
                      /\ s.p.isdu_phase = p.isdu_phase
                      /\ s.p.isdu_pending = p.isdu_pending
      BY <1>0, <1>2, PollNothing
    <2> HIDE DEF s
    <2>2. PollOutcome(p, s)
      BY <1>0, <1>2, <2>1 DEF PollOutcome, Plain, EventActive
    <2> QED
      BY <2>2 DEF s
  <1>3. CASE Polled(p) /\ Intact(ExpectedReply(p), p.fifo)
    BY <1>0, <1>3, PollOne DEF PollOutcome
  <1>4. CASE p.state = "STARTUP" /\ p.step = "AWAIT_RESPONSE" /\ p.fifo # <<>>
    <2>0. Len(p.fifo) \in {2, 4}
      BY <1>4 DEF Framed, StartupFramed, Leftover, OdFrame, PdFrame, TwoFrames
    <2>1. CASE p.fifo[1] \notin OdOctets
      <3> DEFINE q == s.p
      <3>1. ~s.ok /\ Advanced(p, q) /\ q.fifo = SubSeq(p.fifo, 3, Len(p.fifo))
        BY <1>0, <1>4, <2>0, <2>1, PollRejects
      <3> HIDE DEF s, q
      <3>2. \/ q.fifo = <<>> /\ Owes(p, {<<"od", "cks">>})
            \/ OdFrame(q.fifo) /\ p.owed = <<>>
        <4>1. CASE Len(p.fifo) = 2
          <5>1. q.fifo = <<>>
            BY <1>0, <3>1, <4>1
          <5>2. Owes(p, {<<"od", "cks">>})
            BY <1>4, <4>1 DEF Framed, StartupFramed, TwoFrames, Owes
          <5> QED
            BY <5>1, <5>2
        <4>2. CASE Len(p.fifo) = 4
          <5>1. TwoFrames(p.fifo) /\ p.owed = <<>>
            BY <1>4, <4>2 DEF Framed, StartupFramed, Leftover, OdFrame, PdFrame
          <5>2. /\ Len(SubSeq(p.fifo, 3, 4)) = 2
                /\ SubSeq(p.fifo, 3, 4)[1] = p.fifo[3]
                /\ SubSeq(p.fifo, 3, 4)[2] = p.fifo[4]
            BY <1>0, <4>2, Halves
          <5> QED
            BY <3>1, <4>2, <5>1, <5>2 DEF TwoFrames, OdFrame
        <4> QED
          BY <2>0, <4>1, <4>2
      <3>3. Framed(q) /\ Dropped(p, q)
        BY <1>0, <1>4, <3>1, <3>2
        DEF Advanced, SameService, SameControl, Framed, Plain, EventActive,
            StartupFramed, Leftover, Owes, Dropped
      <3> QED
        BY <3>1, <3>3 DEF PollOutcome, q, s
    <2>2. CASE p.fifo[1] \in OdOctets
      <3>1. "pd" \notin OdOctets
        BY EnvironmentAssumption DEF OdOctets
      <3>2. CASE OdFrame(p.fifo)
        <4>1. ExpectedReply(p) = <<"od", "cks">> /\ Polled(p)
          BY <1>4 DEF ExpectedReply, Polled
        <4>2. Intact(<<"od", "cks">>, p.fifo)
          BY <3>2 DEF OdFrame, Intact
        <4> QED
          BY <1>3, <4>1, <4>2
      <3>3. CASE TwoFrames(p.fifo) /\ p.owed = <<>>
        BY <1>0, <1>4, <2>2, <3>3, PollTwo DEF PollOutcome
      <3> QED
        BY <1>4, <2>2, <3>1, <3>2, <3>3
        DEF Framed, StartupFramed, Leftover, PdFrame
    <2> QED
      BY <2>1, <2>2
  <1>5. CASE p.state \in {"PREOPERATE", "OPERATE"} /\ p.fifo # <<>>
    <2>1. CASE p.state = "PREOPERATE" /\ p.step = "AWAIT_RESPONSE"
      <3>1. OdFrame(p.fifo)
        BY <1>5, <2>1 DEF Framed, PreoperateFramed
      <3>2. ExpectedReply(p) = <<"od", "cks">> /\ Polled(p)
        BY <2>1 DEF ExpectedReply, Polled
      <3>3. Intact(<<"od", "cks">>, p.fifo)
        BY <3>1 DEF OdFrame, Intact
      <3> QED
        BY <1>3, <3>2, <3>3
    <2>2. CASE p.state = "PREOPERATE" /\ p.step = "AWAIT_OPERATE_ACK"
      <3>1. Len(p.fifo) = 1 /\ p.fifo[1] \in Cks
        BY <1>5, <2>2 DEF Framed, PreoperateFramed
      <3>2. ExpectedReply(p) = <<"cks">> /\ Polled(p)
        BY <2>2 DEF ExpectedReply, Polled
      <3>3. Intact(<<"cks">>, p.fifo)
        BY <3>1 DEF Intact
      <3> QED
        BY <1>3, <3>2, <3>3
    <2>3. CASE p.state = "OPERATE"
      <3>1. Intact(TypedReply(p.rx_od_expected), p.fifo)
        BY <1>5, <2>3 DEF Framed, OperateFramed
      <3>2. ExpectedReply(p) = TypedReply(p.rx_od_expected) /\ Polled(p)
        BY <2>3 DEF ExpectedReply, Polled, CleanLine
      <3> QED
        BY <1>3, <3>1, <3>2
    <2> QED
      BY <1>5, <2>1, <2>2, <2>3 DEF Framed, PreoperateFramed
  <1> QED
    BY <1>1, <1>2, <1>4, <1>5 DEF Polled

-----------------------------------------------------------------------------
(* The second half of a tick.                                              *)

\* The request the port may be counting as lost, and those it has.
Count(p) == p.rx_retry_count + (IF p.awaiting_response THEN 1 ELSE 0)

\* The delay a step of the wake-up procedure begins with.
Gate(step) == IF step = "INACTIVE" THEN TSd ELSE TDwu

\* A polled port: what waited was taken, and nothing was sent yet.
Settled(p) ==
    /\ Framed(p) /\ p.tx = "none"
    /\ p.state \in {"PREOPERATE", "OPERATE"} => p.fifo = <<>>

\* From a polled port p to the end q of the tick.
After(p, q) ==
    /\ Framed(q)
    /\ q.state # "ERROR" => q.fifo \in {p.fifo, <<>>}
    /\ q.state = "PREOPERATE" => p.state = "PREOPERATE"
    /\ q.state = "OPERATE" =>
          /\ p.state = "OPERATE"
          /\ Count(q) = Count(p) + (IF q.tx = "cyclic" THEN 1 ELSE 0)
    /\ p.state = "OPERATE" /\ q.state = "STARTUP" => Count(p) = RxRetryLimit + 1
    /\ q.tx = "cyclic" => q.state = "OPERATE"
    /\ q.state = "STARTUP" /\ q.step \in WakingSteps =>
          \/ q.state = p.state /\ q.step = p.step
          \/ q.send_gate = Gate(q.step)
    /\ q.tx = "wake" => p.send_gate = 0

\* Nothing happens.
LEMMA AfterNothing ==
    ASSUME NEW p \in Ports, Settled(p)
    PROVE  After(p, p)
  <1>1. Count(p) = Count(p) + 0
    <2>1. p.rx_retry_count \in Int
      BY DEF Ports, RxRetryLimit
    <2> QED
      BY <2>1 DEF Count
  <1> QED
    BY <1>1 DEF After, Settled

\* ERROR is latched.
LEMMA AfterError ==
    ASSUME NEW p, NEW q, q.state = "ERROR", q.tx = "none", Plain(q)
    PROVE  After(p, q)
BY DEF After, Framed

\* The wake-up request (process_at).
LEMMA StartupWakeFields ==
    ASSUME NEW p \in Ports, p.state = "STARTUP", NEW c
    PROVE  LET q == StartupWake(p, c)
           IN  /\ SameService(p, q) /\ q.rx = p.rx /\ q.fifo = p.fifo
               /\ \/ q.state = "ERROR" /\ q.tx = p.tx
                  \/ /\ q.state = "STARTUP" /\ q.step = "SEND_TYPE0"
                     /\ q.owed = <<>> /\ q.tx = "wake"
  <1> DEFINE m == IF p.step = "INACTIVE" THEN SetMode(p, "SDCI", c) ELSE p
             x == [m EXCEPT !.step = "WAKE"]
             w == WakeUp(x, c)
             s == [w EXCEPT !.step = "SEND_TYPE0"]
             a == ArmSendGate(s, WakeDelay, Timed)
  <1>1. StartupWake(p, c) = IF Failed(m) THEN m ELSE IF Failed(w) THEN w ELSE a
    BY DEF StartupWake
  <1>2. /\ m \in Ports /\ SameService(p, m) /\ m.rx = p.rx /\ m.fifo = p.fifo
        /\ m.state \in {"STARTUP", "ERROR"} /\ m.tx = p.tx
    <2>1. m \in {p, Error(p), [p EXCEPT !.phy_mode = "SDCI"]}
      BY DEF SetMode
    <2>2. Error(p) \in Ports /\ [p EXCEPT !.phy_mode = "SDCI"] \in Ports
      BY Literals, ZenonT(40) DEF Ports, Error
    <2>3. /\ SameService(p, Error(p)) /\ Error(p).rx = p.rx
          /\ Error(p).fifo = p.fifo
          /\ Error(p).state = "ERROR" /\ Error(p).tx = p.tx
      BY DEF Ports, Error, SameService
    <2> DEFINE d == [p EXCEPT !.phy_mode = "SDCI"]
    <2>4. /\ SameService(p, d) /\ d.rx = p.rx /\ d.fifo = p.fifo
          /\ d.state = "STARTUP" /\ d.tx = p.tx
      BY DEF Ports, SameService
    <2>5. SameService(p, p)
      BY DEF SameService
    <2> HIDE DEF m, d
    <2> QED
      BY <2>1, <2>2, <2>3, <2>4, <2>5 DEF d
  <1> HIDE DEF m
  <1>3. /\ x \in Ports /\ SameService(p, x) /\ x.rx = p.rx /\ x.fifo = p.fifo
        /\ x.state = m.state /\ x.tx = p.tx
    <2>1. x \in Ports
      BY <1>2, Literals, ZenonT(40) DEF Ports
    <2> QED
      BY <1>2, <2>1 DEF Ports, SameService
  <1> HIDE DEF x
  <1>4. /\ w \in Ports /\ SameService(p, w) /\ w.rx = p.rx /\ w.fifo = p.fifo
        /\ \/ w.state = "ERROR" /\ w.tx = p.tx
           \/ w.state = m.state /\ w.owed = <<>> /\ w.tx = "wake"
    <2>1. w \in {Error(x), [x EXCEPT !.tx = "wake", !.owed = <<>>]}
      BY DEF WakeUp
    <2>2. Error(x) \in Ports
      BY <1>3, Literals, ZenonT(40) DEF Ports, Error
    <2>3. [x EXCEPT !.tx = "wake", !.owed = <<>>] \in Ports
      BY <1>3, Literals, EmptySeq, ZenonT(40) DEF Ports
    <2>4. /\ SameService(p, Error(x)) /\ Error(x).rx = p.rx
          /\ Error(x).fifo = p.fifo
          /\ Error(x).state = "ERROR" /\ Error(x).tx = p.tx
      BY <1>3 DEF Ports, Error, SameService
    <2> DEFINE d == [x EXCEPT !.tx = "wake", !.owed = <<>>]
    <2>5. /\ SameService(p, d) /\ d.rx = p.rx /\ d.fifo = p.fifo
          /\ d.state = m.state /\ d.owed = <<>> /\ d.tx = "wake"
      BY <1>3 DEF Ports, SameService
    <2> HIDE DEF w, d
    <2> QED
      BY <2>1, <2>2, <2>3, <2>4, <2>5 DEF d
  <1> HIDE DEF w
  <1>5. /\ SameService(p, s) /\ s.rx = p.rx /\ s.fifo = p.fifo
        /\ s.state = w.state /\ s.step = "SEND_TYPE0"
        /\ s.owed = w.owed /\ s.tx = w.tx
        /\ s \in Ports
    <2>1. s \in Ports
      BY <1>4, Literals, ZenonT(40) DEF Ports
    <2> QED
      BY <1>4, <2>1 DEF Ports, SameService
  <1> HIDE DEF s
  <1>6. /\ SameService(p, a) /\ a.rx = p.rx /\ a.fifo = p.fifo
        /\ a.state = w.state /\ a.step = "SEND_TYPE0"
        /\ a.owed = w.owed /\ a.tx = w.tx
    BY <1>5 DEF ArmSendGate, Ports, SameService
  <1> HIDE DEF a
  <1> QED
    BY <1>1, <1>2, <1>4, <1>6 DEF Failed

LEMMA StartupWakeAfter ==
    ASSUME NEW p \in Good, Settled(p), p.state = "STARTUP",
           p.step \in WakingSteps, p.send_gate = 0, NEW c
    PROVE  After(p, StartupWake(p, c))
  <1> DEFINE q == StartupWake(p, c)
  <1>1. /\ SameService(p, q) /\ q.rx = p.rx /\ q.fifo = p.fifo
        /\ \/ q.state = "ERROR" /\ q.tx = p.tx
           \/ /\ q.state = "STARTUP" /\ q.step = "SEND_TYPE0"
              /\ q.owed = <<>> /\ q.tx = "wake"
    BY StartupWakeFields DEF Good
  <1> HIDE DEF q
  <1>2. Plain(q) /\ p.tx = "none"
    BY <1>1 DEF Settled, Framed, Plain, SameService, EventActive
  <1>3. CASE q.state = "ERROR" /\ q.tx = p.tx
    <2>1. After(p, q)
      BY <1>2, <1>3, AfterError
    <2> QED
      BY <2>1 DEF q
  <1>4. CASE /\ q.state = "STARTUP" /\ q.step = "SEND_TYPE0"
             /\ q.owed = <<>> /\ q.tx = "wake"
    <2>1. Leftover(q.fifo)
      BY <1>1 DEF Settled, Framed, StartupFramed, WakingSteps
    <2>2. Framed(q)
      BY <1>1, <1>2, <1>4, <2>1 DEF Framed, StartupFramed, Owes
    <2>3. After(p, q)
      BY <1>1, <1>4, <2>2 DEF After, WakingSteps
    <2> QED
      BY <2>3 DEF q
  <1> QED
    BY <1>1, <1>3, <1>4

\* The test message (process_at).
LEMMA StartupTestAfter ==
    ASSUME CleanLine, NEW p \in Good, Settled(p), p.state = "STARTUP",
           p.step = "SEND_TYPE0", NEW c
    PROVE  After(p, StartupTest(p, c))
  <1> DEFINE s == SendFull(p, "test", TRUE, <<"od", "cks">>, c)
             x == [s EXCEPT !.step = "AWAIT_RESPONSE"]
             a == ArmTestDeadline(x)
  <1>1. StartupTest(p, c) = IF Failed(s) THEN s ELSE a
    BY DEF StartupTest
  <1>2. /\ SameService(p, s)
        /\ Refused(p, s, c) \/ Sent(p, s, "test", TRUE, <<"od", "cks">>)
    BY SendFullSent DEF Good
  <1>3. s \in Ports
    <2>1. <<"od", "cks">> \in Shapes
      BY DEF Shapes
    <2> QED
      BY <2>1, Literals, SendFullKept DEF KeptOrFailed, Good
  <1>4. p.owed = <<>> /\ Leftover(p.fifo) /\ p.tx = "none" /\ Plain(p)
    BY DEF Settled, Framed, StartupFramed
  <1> HIDE DEF s
  <1>5. CASE Refused(p, s, c)
    <2>1. Plain(s) /\ s.tx = "none" /\ s.state = "ERROR"
      BY <1>2, <1>4, <1>5 DEF Refused, Plain, SameService, EventActive
    <2> QED
      BY <1>1, <2>1, AfterError DEF Failed
  <1>6. CASE Sent(p, s, "test", TRUE, <<"od", "cks">>)
    <2>1. Owes(s, {<<"od", "cks">>})
      <3>1. <<"od", "cks">> \in Shapes /\ Owes(p, {}) /\ p \in Ports /\ MaxOwed = 1
        BY <1>4 DEF Shapes, Owes, Good, CleanLine
      <3> QED
        BY <1>6, <3>1, SentOwes
    <2>2. x \in Ports
      BY <1>3, Literals, ZenonT(40) DEF Ports
    <2>3. /\ SameService(s, x) /\ x.rx = s.rx /\ x.fifo = s.fifo
          /\ x.owed = s.owed /\ x.tx = s.tx
          /\ x.state = s.state /\ x.step = "AWAIT_RESPONSE"
      BY <1>3 DEF Ports, SameService
    <2> HIDE DEF x
    <2>4. /\ SameService(s, a) /\ a.rx = s.rx /\ a.fifo = s.fifo
          /\ a.owed = s.owed /\ a.tx = s.tx
          /\ a.state = s.state /\ a.step = "AWAIT_RESPONSE"
      BY <2>2, <2>3 DEF ArmTestDeadline, Ports, SameService
    <2> HIDE DEF a
    <2>5. /\ a.rx = p.rx /\ a.fifo = p.fifo /\ a.owed = s.owed /\ a.tx = "test"
          /\ a.state = "STARTUP" /\ a.step = "AWAIT_RESPONSE"
          /\ s.state = "STARTUP" /\ SameService(p, a)
      BY <1>2, <1>6, <2>4, SameTrans DEF Sent, SameControl
    <2>6. Plain(a)
      BY <1>4, <2>5 DEF Plain, SameService, EventActive
    <2>7. Framed(a)
      BY <1>4, <2>1, <2>5, <2>6 DEF Framed, StartupFramed, Owes
    <2>8. After(p, a)
      BY <2>5, <2>7 DEF After, WakingSteps
    <2> QED
      BY <1>1, <2>5, <2>8 DEF Failed
  <1> QED
    BY <1>2, <1>5, <1>6

\* A frame was sent, and no service is disturbed where none may run.
LEMMA SentPlain ==
    ASSUME NEW p, NEW q, Plain(p), q.rx = p.rx, q.event = p.event,
           Type0WriteOd \/ SameService(p, q)
    PROVE  Plain(q)
BY DEF Plain, SameService, EventActive

\* One M-sequence of the ISDU channel, in PREOPERATE and in OPERATE.
LEMMA SendIsduAfter ==
    ASSUME CleanLine, NEW p \in Good, Settled(p), IsduSending(p),
           p.state \in {"PREOPERATE", "OPERATE"}, ~p.awaiting_response, NEW c
    PROVE  After(p, SendIsdu(p, c)) /\ SendIsdu(p, c).tx # "cyclic"
  <1> DEFINE q == SendIsdu(p, c)
             read == p.isdu_pending # "none" \/ p.isdu_phase # "request"
             reply == IF p.state = "OPERATE" /\ ~Type0 THEN TypedReply(read)
                      ELSE Type0Reply(read)
  <1>1. /\ Refused(p, q, c) \/ Sent(p, q, "isdu", read, reply)
        /\ q.event = p.event
    BY SendIsduSent
  <1>2. reply \in Shapes /\ read \in BOOLEAN
    BY ReplyTypes
  <1> HIDE DEF q, read
  <1>3. /\ Plain(p) /\ Type0WriteOd /\ p.tx = "none" /\ p.fifo = <<>>
        /\ p \in Ports /\ MaxOwed = 1 /\ ~Type0
    BY DEF Settled, Framed, Plain, IsduSending, Good, CleanLine
  <1>4. CASE Refused(p, q, c)
    <2>1. Plain(q) /\ q.state = "ERROR" /\ q.tx = "none"
      BY <1>1, <1>3, <1>4, SentPlain DEF Refused
    <2>2. After(p, q)
      BY <2>1, AfterError
    <2> QED
      BY <2>1, <2>2 DEF q
  <1>5. CASE Sent(p, q, "isdu", read, reply)
    <2>1. /\ Plain(q) /\ SameControl(p, q) /\ q.fifo = <<>> /\ q.tx = "isdu"
          /\ q.rx_od_expected = read
      BY <1>1, <1>3, <1>5, SentPlain DEF Sent
    <2>2. \E shapes : Owes(p, shapes)
      BY <1>3 DEF Settled, Framed, PreoperateFramed, OperateFramed, Owes
    <2>3. Owes(q, {reply})
      BY <1>2, <1>3, <1>5, <2>2, SentOwes
    <2>4. CASE p.state = "PREOPERATE"
      <3>1. reply \in {<<"od", "cks">>, <<"idle", "cks">>}
        BY <1>3, <2>4 DEF Type0Reply
      <3>2. p.step = "AWAIT_RESPONSE" /\ p.rx_retry_count = 0
        BY <1>3, <2>4 DEF Settled, Framed, PreoperateFramed
      <3> HIDE DEF reply
      <3>3. PreoperateFramed(q)
        BY <2>1, <2>3, <3>1, <3>2 DEF PreoperateFramed, SameControl, Owes
      <3>4. After(p, q)
        BY <2>1, <2>4, <3>3, <1>3 DEF After, Framed, SameControl
      <3> QED
        BY <2>1, <3>4 DEF q
    <2>5. CASE p.state = "OPERATE"
      <3>1. reply = TypedReply(q.rx_od_expected)
        BY <1>3, <2>1, <2>5
      <3> HIDE DEF reply
      <3>2. OperateFramed(q)
        BY <2>1, <2>3, <3>1 DEF OperateFramed, SameControl
      <3>3. Framed(q)
        BY <2>1, <2>5, <3>2 DEF Framed, SameControl
      <3>4. Count(q) = Count(p) /\ Count(p) \in Int
        <4>1. p.rx_retry_count \in Int
          BY <1>3 DEF Ports, RxRetryLimit
        <4> QED
          BY <2>1, <4>1 DEF Count, SameControl
      <3>5. After(p, q)
        BY <2>1, <2>5, <3>3, <3>4, <1>3 DEF After, SameControl
      <3> QED
        BY <2>1, <3>5 DEF q
    <2> QED
      BY <2>4, <2>5
  <1> QED
    BY <1>1, <1>4, <1>5

\* The DeviceOperate write of a port whose device passed (send_operate).
LEMMA SendOperateAfter ==
    ASSUME CleanLine, NEW p, p.state = "PREOPERATE", p.fifo = <<>>,
           NEW s \in Good, s.state = "PREOPERATE", s.fifo = <<>>,
           Plain(s), s.tx = "none", ~IsduSending(s),
           s.rx_retry_count = 0, ~s.awaiting_response,
           Validate => s.device_info # "none",
           NEW shapes, Owes(s, shapes), NEW c
    PROVE  After(p, SendOperate(s, c))
  <1> DEFINE z == SendFull(s, "operate", FALSE, <<"cks">>, c)
             x == [z EXCEPT !.step = "AWAIT_OPERATE_ACK"]
  <1>1. SendOperate(s, c) = IF Failed(z) THEN z ELSE x
    BY DEF SendOperate
  <1>2. /\ SameService(s, z)
        /\ Refused(s, z, c) \/ Sent(s, z, "operate", FALSE, <<"cks">>)
    BY SendFullSent DEF Good
  <1>3. <<"cks">> \in Shapes /\ s \in Ports /\ MaxOwed = 1
    BY DEF Shapes, Good, CleanLine
  <1>4. z \in Ports
    BY <1>3, Literals, SendFullKept DEF KeptOrFailed, Good
  <1> HIDE DEF z
  <1>5. CASE Refused(s, z, c)
    <2>1. Plain(z) /\ z.tx = "none" /\ z.state = "ERROR"
      BY <1>2, <1>5, SentPlain DEF Refused, SameService
    <2>2. After(p, z)
      BY <2>1, AfterError
    <2> QED
      BY <1>1, <2>1, <2>2 DEF Failed
  <1>6. CASE Sent(s, z, "operate", FALSE, <<"cks">>)
    <2>1. Owes(z, {<<"cks">>})
      BY <1>3, <1>6, SentOwes
    <2>2. /\ SameService(z, x) /\ x.rx = z.rx /\ x.fifo = z.fifo
          /\ x.owed = z.owed /\ x.tx = z.tx /\ x.state = z.state
          /\ x.rx_od_expected = z.rx_od_expected
          /\ x.rx_retry_count = z.rx_retry_count
          /\ x.awaiting_response = z.awaiting_response
          /\ x.device_info = z.device_info
          /\ x.step = "AWAIT_OPERATE_ACK"
      BY <1>4 DEF Ports, SameService
    <2> HIDE DEF x
    <2>3. /\ SameService(s, x) /\ x.rx = s.rx /\ x.fifo = <<>>
          /\ x.owed = z.owed /\ x.tx = "operate" /\ x.state = "PREOPERATE"
          /\ ~x.rx_od_expected /\ x.rx_retry_count = 0
          /\ ~x.awaiting_response /\ x.device_info = s.device_info
          /\ z.state = "PREOPERATE"
      BY <1>2, <1>6, <2>2, SameTrans DEF Sent, SameControl
    <2>4. Plain(x)
      BY <2>3, SentPlain DEF SameService
    <2>5. ~IsduSending(x)
      BY <2>3 DEF IsduSending, SameService
    <2>6. Owes(x, {<<"cks">>})
      BY <2>1, <2>3 DEF Owes
    <2>7. PreoperateFramed(x)
      BY <2>2, <2>3, <2>5, <2>6 DEF PreoperateFramed
    <2>8. After(p, x)
      BY <2>3, <2>4, <2>7 DEF After, Framed
    <2> QED
      BY <1>1, <2>3, <2>8 DEF Failed
  <1> QED
    BY <1>2, <1>5, <1>6

\* Reading the identity of the device sends nothing; once it is known the
\* service is over (read_device_info).
LEMMA ReadDeviceInfoIdentity ==
    ASSUME NEW p \in Ports, NEW q, q = ReadDeviceInfo(p), ~IsduSending(p),
           p.device_info = "none"
    PROVE  /\ q.state \in {p.state, "ERROR"} /\ q.step = p.step
           /\ q.rx = p.rx /\ q.fifo = p.fifo /\ q.owed = p.owed /\ q.tx = p.tx
           /\ q.rx_retry_count = p.rx_retry_count
           /\ q.awaiting_response = p.awaiting_response
           /\ q.event = p.event
           /\ q.device_info # "none" => ~IsduSending(q)
  <1> DEFINE f == [p EXCEPT !.isdu_op = "none", !.isdu_phase = "none",
                            !.isdu_pending = IF @ = "abort" THEN @ ELSE "none",
                            !.isdu_result = "none"]
             b == [p EXCEPT !.isdu_op = "info", !.isdu_phase = "request",
                            !.isdu_pending = "none", !.isdu_result = "none"]
             i == [f EXCEPT !.device_info = p.isdu_result]
  <1>1. q \in {p, b, Error(p), i, Error(f)}
    BY DEF ReadDeviceInfo, IsduStart, IsduFinish
  <1>2. /\ p.isdu_pending = "none"
    BY DEF IsduSending
  <1>3. CASE q = p
    BY <1>3
  <1>4. CASE q = b
    BY <1>4 DEF Ports
  <1>5. CASE q = Error(p)
    BY <1>5 DEF Ports, Error
  <1>6. CASE q = i
    BY <1>2, <1>6 DEF Ports, IsduSending
  <1>7. CASE q = Error(f)
    BY <1>7 DEF Ports, Error
  <1> QED
    BY <1>1, <1>3, <1>4, <1>5, <1>6, <1>7

\* PREOPERATE sends what a service has, reads the identity, or asks the device
\* to operate (process_at).
LEMMA PreoperateAfter ==
    ASSUME CleanLine, NEW p \in Good, Settled(p), p.state = "PREOPERATE", NEW c
    PROVE  After(p, Preoperate(p, c))
  <1> DEFINE q == IF Validate /\ p.device_info = "none"
                  THEN ReadDeviceInfo(p) ELSE p
  <1>1. /\ p \in Ports /\ Plain(p) /\ p.fifo = <<>> /\ p.tx = "none"
        /\ PreoperateFramed(p)
    BY DEF Settled, Framed, Good
  <1>2. PICK shapes : Owes(p, shapes)
    <2>1. \/ Owes(p, {<<"od", "cks">>, <<"idle", "cks">>}) \/ Owes(p, {<<"cks">>})
          \/ Owes(p, {})
      BY <1>1 DEF PreoperateFramed, Owes
    <2> QED
      BY <2>1
  <1>3. CASE IsduSending(p)
    <2>1. Preoperate(p, c) = SendIsdu(p, c)
      BY <1>1, <1>3 DEF Preoperate, Plain
    <2>2. ~p.awaiting_response
      BY <1>1 DEF PreoperateFramed
    <2> QED
      BY <1>3, <2>1, <2>2, SendIsduAfter
  <1>4. CASE ~IsduSending(p) /\ ~(Validate /\ p.device_info = "none")
    <2>1. Preoperate(p, c) \in {SendOperate(p, c), Error(p)}
      BY <1>1, <1>4 DEF Preoperate, Plain, Failed
    <2>2. After(p, SendOperate(p, c))
      <3>1. /\ p.rx_retry_count = 0 /\ ~p.awaiting_response
            /\ Validate => p.device_info # "none"
        BY <1>1, <1>4 DEF PreoperateFramed
      <3> QED
        BY <1>1, <1>2, <1>4, <3>1, SendOperateAfter
    <2>3. After(p, Error(p))
      <3> DEFINE e == Error(p)
      <3>1. /\ e.state = "ERROR" /\ e.tx = p.tx /\ e.rx = p.rx
            /\ SameService(p, e)
        BY <1>1 DEF Error, Ports, SameService
      <3> HIDE DEF e
      <3>2. Plain(e)
        BY <1>1, <3>1, SentPlain DEF SameService
      <3>3. After(p, e)
        BY <1>1, <3>1, <3>2, AfterError
      <3> QED
        BY <3>3 DEF e
    <2> QED
      BY <2>1, <2>2, <2>3
  <1>5. CASE ~IsduSending(p) /\ Validate /\ p.device_info = "none"
    <2>1. q = ReadDeviceInfo(p)
      BY <1>5
    <2>2. Preoperate(p, c)
             = IF Failed(q) \/ q.device_info = "none" THEN q
               ELSE IF ~ValidIdentity(q) THEN Error(q)
               ELSE SendOperate(q, c)
      BY <1>1, <1>5 DEF Preoperate, Plain
    <2>3. q \in Good
      BY <2>1, ReadDeviceInfoKept DEF KeptOrFailed
    <2> HIDE DEF q
    <2>4. /\ q.state \in {"PREOPERATE", "ERROR"} /\ q.step = p.step
          /\ q.rx = p.rx /\ q.fifo = <<>> /\ q.owed = p.owed /\ q.tx = "none"
          /\ q.rx_retry_count = p.rx_retry_count
          /\ q.awaiting_response = p.awaiting_response
          /\ q.event = p.event
          /\ q.device_info # "none" => ~IsduSending(q)
      BY <1>1, <1>5, <2>1, ReadDeviceInfoIdentity
    <2>5. Type0WriteOd /\ p.step = "AWAIT_RESPONSE"
      BY <1>1, <1>5 DEF CleanLine, PreoperateFramed
    <2>6. Plain(q)
      BY <1>1, <2>4, <2>5, SentPlain
    <2>7. CASE q.state = "ERROR"
      <3>1. After(p, q)
        BY <2>4, <2>6, <2>7, AfterError
      <3> QED
        BY <2>2, <2>7, <3>1 DEF Failed
    <2>8. CASE q.state = "PREOPERATE" /\ q.device_info = "none"
      <3>1. PreoperateFramed(q)
        BY <1>1, <2>4, <2>5 DEF PreoperateFramed, OdFrame, Owes
      <3>2. After(p, q)
        BY <1>1, <2>4, <2>6, <2>8, <3>1 DEF After, Framed
      <3> QED
        BY <2>2, <2>8, <3>2
    <2>9. CASE q.state = "PREOPERATE" /\ q.device_info # "none"
      <3>1. Preoperate(p, c) \in {Error(q), SendOperate(q, c)}
        BY <2>2, <2>9 DEF Failed
      <3>2. After(p, SendOperate(q, c))
        <4>1. /\ q.rx_retry_count = 0 /\ ~q.awaiting_response
              /\ ~IsduSending(q) /\ Owes(q, shapes)
          BY <1>1, <1>2, <2>4, <2>9 DEF PreoperateFramed, Owes
        <4> QED
          BY <1>1, <2>3, <2>4, <2>6, <2>9, <4>1, SendOperateAfter
      <3>3. After(p, Error(q))
        <4> DEFINE e == Error(q)
        <4>1. /\ e.state = "ERROR" /\ e.tx = q.tx /\ e.rx = q.rx
              /\ SameService(q, e)
          BY <2>3 DEF Error, Good, Ports, SameService
        <4> HIDE DEF e
        <4>2. Plain(e)
          BY <2>6, <4>1, SentPlain DEF SameService
        <4>3. After(p, e)
          BY <2>4, <4>1, <4>2, AfterError
        <4> QED
          BY <4>3 DEF e
      <3> QED
        BY <3>1, <3>2, <3>3
    <2> QED
      BY <2>4, <2>7, <2>8, <2>9
  <1> QED
    BY <1>3, <1>4, <1>5

\* A cycle of OPERATE: a request of a service, or the cyclic one, whose answer
\* is then waited for (process_at, tick_common).
LEMMA OperateAfter ==
    ASSUME CleanLine, NEW p \in Good, Settled(p), p.state = "OPERATE",
           ~p.awaiting_response, NEW c
    PROVE  LET q == Operate(p, c)
           IN  /\ q.tx # "cyclic" => After(p, q)
               /\ q.tx = "cyclic" => After(p, StartCycleTimer(q))
  <1>1. /\ p \in Ports /\ Plain(p) /\ p.fifo = <<>> /\ p.tx = "none"
        /\ OperateFramed(p) /\ ~Type0 /\ MaxOwed = 1
    BY DEF Settled, Framed, Good, CleanLine
  <1>2. CASE IsduSending(p)
    <2>1. Operate(p, c) = SendIsdu(p, c)
      BY <1>1, <1>2 DEF Operate, Plain
    <2> QED
      BY <1>2, <2>1, SendIsduAfter
  <1>3. CASE ~IsduSending(p)
    <2> DEFINE reply == TypedReply(FALSE)
               s == SendFull(p, "cyclic", FALSE, reply, c)
               q == StartCycleTimer(s)
    <2>1. Operate(p, c) = s
      BY <1>1, <1>3 DEF Operate, Plain
    <2>2. reply \in Shapes
      BY ReplyTypes
    <2> HIDE DEF reply
    <2>3. /\ SameService(p, s)
          /\ Refused(p, s, c) \/ Sent(p, s, "cyclic", FALSE, reply)
      BY <1>1, SendFullSent
    <2>4. s \in Ports
      BY <2>2, Literals, SendFullKept DEF KeptOrFailed, Good
    <2> HIDE DEF s
    <2>5. CASE Refused(p, s, c)
      <3>1. Plain(s) /\ s.state = "ERROR" /\ s.tx = "none"
        BY <1>1, <2>3, <2>5, SentPlain DEF Refused, SameService
      <3> QED
        BY <2>1, <3>1, AfterError
    <2>6. CASE Sent(p, s, "cyclic", FALSE, reply)
      <3>1. Owes(p, {TypedReply(p.rx_od_expected)}) \/ Owes(p, {})
        BY <1>1 DEF OperateFramed, Owes
      <3>2. Owes(s, {reply})
        BY <1>1, <2>2, <2>6, <3>1, SentOwes
      <3>3. /\ SameWire(s, q) /\ SameService(s, q)
            /\ q.state = s.state /\ q.rx_retry_count = s.rx_retry_count
            /\ q.awaiting_response = TRUE
        BY <2>4, CycleTimerFields
      <3> HIDE DEF q
      <3>4. /\ q.state = "OPERATE" /\ q.tx = "cyclic" /\ s.tx = "cyclic"
            /\ q.rx = p.rx /\ q.fifo = <<>> /\ q.owed = s.owed
            /\ ~q.rx_od_expected /\ q.rx_retry_count = p.rx_retry_count
            /\ SameService(p, q)
        BY <1>1, <2>3, <2>6, <3>3, SameTrans DEF Sent, SameControl, SameWire
      <3>5. Plain(q)
        BY <1>1, <3>4, SentPlain DEF SameService
      <3>6. Owes(q, {TypedReply(q.rx_od_expected)})
        BY <3>2, <3>4 DEF Owes, reply, TypedReply
      <3>7. Framed(q)
        BY <3>4, <3>5, <3>6 DEF Framed, OperateFramed
      <3>8. Count(q) = Count(p) + 1
        <4>1. p.rx_retry_count \in Int
          BY <1>1 DEF Ports, RxRetryLimit
        <4> QED
          BY <3>3, <3>4, <4>1 DEF Count
      <3>9. After(p, q)
        BY <3>4, <3>7, <3>8 DEF After
      <3> QED
        BY <2>1, <3>4, <3>9 DEF q
    <2> QED
      BY <2>3, <2>5, <2>6
  <1> QED
    BY <1>2, <1>3

\* A tick that starts a cycle, or a step of the startup (tick_common).
LEMMA CycleTickAfter ==
    ASSUME CleanLine, NEW p \in Good, Settled(p), NEW c
    PROVE  After(p, CycleTick(p, c))
  <1> DEFINE q == ProcessAt(p, c)
  <1>1. p \in Ports /\ Timed /\ p.tx = "none"
    BY DEF Good, CleanLine, Settled
  <1>2. After(p, p)
    BY <1>1, AfterNothing
  <1>3. CASE p.awaiting_response \/ ~CycleDue(p) \/ p.send_gate > 0
    <2>1. p.send_gate > 0 => q = p
      BY <1>1 DEF ProcessAt
    <2> HIDE DEF q
    <2>2. CycleTick(p, c) = p
      BY <1>1, <1>3, <2>1 DEF CycleTick, q
    <2> QED
      BY <1>2, <2>2
  <1>4. CASE ~(p.awaiting_response \/ ~CycleDue(p) \/ p.send_gate > 0)
    <2>1. p.send_gate = 0
      <3>1. p.send_gate \in Nat
        BY <1>1 DEF Ports
      <3> QED
        BY <1>4, <3>1
    <2>2. CycleTick(p, c) = IF q.tx = "cyclic" THEN StartCycleTimer(q) ELSE q
      BY <1>1, <1>4 DEF CycleTick
    <2>3. CASE p.state = "STARTUP" /\ p.step \in WakingSteps
      <3>1. q = StartupWake(p, c)
        BY <1>4, <2>3 DEF ProcessAt, WakingSteps
      <3> HIDE DEF q
      <3>2. After(p, q)
        BY <2>1, <2>3, <3>1, StartupWakeAfter
      <3>3. q.tx # "cyclic"
        BY <1>1, <2>3, <3>1, StartupWakeFields
      <3> QED
        BY <2>2, <3>2, <3>3
    <2>4. CASE p.state = "STARTUP" /\ p.step = "SEND_TYPE0"
      <3>1. q = StartupTest(p, c)
        BY <1>4, <2>4 DEF ProcessAt, WakingSteps
      <3> HIDE DEF q
      <3>2. After(p, q)
        BY <2>4, <3>1, StartupTestAfter
      <3>3. q.tx # "cyclic"
        BY <2>4, <3>2 DEF After
      <3> QED
        BY <2>2, <3>2, <3>3
    <2>5. CASE p.state = "PREOPERATE"
      <3>1. q = Preoperate(p, c)
        BY <1>4, <2>5 DEF ProcessAt
      <3> HIDE DEF q
      <3>2. After(p, q)
        BY <2>5, <3>1, PreoperateAfter
      <3>3. q.tx # "cyclic"
        BY <2>5, <3>2 DEF After
      <3> QED
        BY <2>2, <3>2, <3>3
    <2>6. CASE p.state = "OPERATE"
      <3>1. q = Operate(p, c)
        BY <1>4, <2>6 DEF ProcessAt
      <3> HIDE DEF q
      <3> QED
        BY <1>4, <2>2, <2>6, <3>1, OperateAfter
    <2>7. CASE ~(\/ p.state = "STARTUP" /\ p.step \in WakingSteps
                 \/ p.state = "STARTUP" /\ p.step = "SEND_TYPE0"
                 \/ p.state \in {"PREOPERATE", "OPERATE"})
      <3>1. q = p
        BY <1>4, <2>7 DEF ProcessAt
      <3> HIDE DEF q
      <3> QED
        BY <1>1, <1>2, <2>2, <3>1
    <2> QED
      BY <2>3, <2>4, <2>5, <2>6, <2>7
  <1> QED
    BY <1>3, <1>4

\* Nothing is sent or received; an answer may be given up.
Idle(p, q) ==
    /\ q.rx = p.rx /\ q.fifo = p.fifo /\ q.tx = p.tx
    /\ q.owed \in {p.owed, <<>>}
    /\ SameService(p, q)

LEMMA IdleTrans ==
    ASSUME NEW p, NEW s, NEW q, Idle(p, s), Idle(s, q)
    PROVE  Idle(p, q)
BY DEF Idle, SameService

\* The PHY helpers neither send nor receive.
LEMMA PhyIdle ==
    ASSUME NEW p \in Ports, NEW c
    PROVE  /\ Idle(p, p) /\ Idle(p, Error(p))
           /\ Idle(p, SetBaudrate(p, c))
           /\ \A mode : Idle(p, SetMode(p, mode, c))
           /\ \A delay, timed : Idle(p, ArmSendGate(p, delay, timed))
  <1>1. Idle(p, p) /\ Idle(p, Error(p))
    BY DEF Error, Ports, Idle, SameService
  <1>2. Idle(p, SetBaudrate(p, c))
    BY DEF SetBaudrate, Error, Ports, Idle, SameService
  <1>3. \A mode : Idle(p, SetMode(p, mode, c))
    BY DEF SetMode, Error, Ports, Idle, SameService
  <1>4. \A delay, timed : Idle(p, ArmSendGate(p, delay, timed))
    BY DEF ArmSendGate, Ports, Idle, SameService
  <1> QED
    BY <1>1, <1>2, <1>3, <1>4

\* Nor does assigning the fields of the procedure.
LEMMA PutIdle ==
    ASSUME NEW p \in Ports, NEW v
    PROVE  /\ Idle(p, [p EXCEPT !.baudrate_index = v])
           /\ Idle(p, [p EXCEPT !.wake_attempts = v])
           /\ Idle(p, [p EXCEPT !.rx_retry_count = v])
           /\ Idle(p, [p EXCEPT !.awaiting_response = v])
           /\ Idle(p, [p EXCEPT !.step = v])
BY DEF Ports, Idle, SameService

LEMMA ResetRateScanIdle ==
    ASSUME NEW p \in Ports, NEW c
    PROVE  Idle(p, ResetRateScan(p, c))
  <1> DEFINE z == [p EXCEPT !.baudrate_index = 0]
  <1>1. z \in Ports
    BY PutLink, Literals
  <1>2. Idle(p, z) /\ Idle(z, SetBaudrate(z, c)) /\ Idle(p, p)
    BY <1>1, PutIdle, PhyIdle
  <1>3. ResetRateScan(p, c) \in {p, SetBaudrate(z, c)}
    BY DEF ResetRateScan
  <1> HIDE DEF z
  <1> QED
    BY <1>2, <1>3, IdleTrans

\* After COMLOST the port waits T_DWU before it wakes the device
\* (restart_establish).
LEMMA RestartEstablishGated ==
    ASSUME NEW p \in Ports, NEW timed, NEW c
    PROVE  LET q == RestartEstablish(p, timed, c)
           IN  /\ Idle(p, q)
               /\ \/ q.state = "ERROR"
                  \/ /\ q.state = "STARTUP" /\ q.step = "WAKE"
                     /\ timed => q.send_gate = TDwu
  <1> DEFINE z == [p EXCEPT !.state = "STARTUP", !.step = "WAKE",
                            !.wake_attempts = 0, !.rx_retry_count = 0,
                            !.awaiting_response = FALSE]
             q == ResetRateScan(z, c)
             a == ArmSendGate(q, TDwu, timed)
  <1>1. RestartEstablish(p, timed, c) = IF Failed(q) THEN q ELSE a
    BY DEF RestartEstablish
  <1>2. z \in Ports
    BY Literals, ZenonT(40) DEF Ports
  <1>3. Idle(p, z) /\ z.state = "STARTUP" /\ z.step = "WAKE"
    BY DEF Ports, Idle, SameService
  <1> HIDE DEF z
  <1>4. Idle(z, q)
    BY <1>2, ResetRateScanIdle
  <1>5. /\ q \in Ports
        /\ Failed(q) \/ (q.state = "STARTUP" /\ q.step = "WAKE")
    <2> DEFINE b == [z EXCEPT !.baudrate_index = 0]
    <2>1. q \in {z, SetBaudrate(b, c)}
      BY DEF ResetRateScan
    <2>2. b \in Ports /\ b.state = z.state /\ b.step = z.step
      BY <1>2, PutLink, Literals
    <2> HIDE DEF b
    <2>3. /\ SetBaudrate(b, c) \in Ports
          /\ \/ Failed(SetBaudrate(b, c))
             \/ SetBaudrate(b, c).state = b.state /\ SetBaudrate(b, c).step = b.step
      BY <2>2, SetBaudrateLink
    <2> HIDE DEF q
    <2> QED
      BY <1>2, <1>3, <2>1, <2>2, <2>3
  <1> HIDE DEF q
  <1>6. TDwu \in Nat
    BY TimesAssumption
  <1>7. /\ Idle(q, a) /\ a.state = q.state /\ a.step = q.step
        /\ timed => a.send_gate = TDwu
    <2>1. Idle(q, a)
      BY <1>5, PhyIdle
    <2> QED
      BY <1>5, <1>6, <2>1, ArmSendGateFields
  <1> HIDE DEF a
  <1>8. Idle(p, q) /\ Idle(p, a)
    BY <1>3, <1>4, <1>7, IdleTrans
  <1> QED
    BY <1>1, <1>5, <1>7, <1>8 DEF Failed

\* At the next rate nothing is awaited of the rate before
\* (establish_attempt_failed, set_baudrate).
LEMMA NextRateGated ==
    ASSUME NEW p \in Good, p.state = "STARTUP", p.step # "INACTIVE",
           MoreRates(p), NEW c
    PROVE  LET q == NextRate(p, c)
           IN  /\ Idle(p, q)
               /\ \/ q.state = "ERROR"
                  \/ /\ q.state = "STARTUP" /\ q.step = "SEND_TYPE0"
                     /\ q.owed = <<>>
  <1> DEFINE i == p.baudrate_index + 1
             z == [p EXCEPT !.baudrate_index = i]
             q == SetBaudrate(z, c)
             s == [q EXCEPT !.step = "SEND_TYPE0"]
             a == ArmSendGate(s, TDmt, Timed)
  <1>1. NextRate(p, c) = IF Failed(q) THEN q ELSE a
    BY DEF NextRate
  <1>2. i \in 0..LastRate /\ p.baudrate_index \in 0..2 /\ i # p.baudrate_index
    BY DEF Good, Ports, MoreRates, LastRate
  <1>3. p.phy_rate = p.baudrate_index /\ AutoBaudrate
    BY DEF Good, Agrees, ScanRate, MoreRates
  <1> HIDE DEF i
  <1>4. /\ z \in Ports /\ Idle(p, z) /\ z.baudrate_index = i
        /\ z.phy_rate = p.phy_rate /\ z.state = "STARTUP"
    <2>1. p \in Ports
      BY DEF Good
    <2>2. Idle(p, z)
      BY <2>1, PutIdle
    <2> QED
      BY <1>2, <2>1, <2>2, PutLink
  <1> HIDE DEF z
  <1>5. z.phy_rate # ScanRate(z)
    BY <1>2, <1>3, <1>4 DEF ScanRate
  <1>6. Idle(z, q)
    BY <1>4, PhyIdle
  <1>7. \/ q.state = "ERROR"
        \/ q.state = "STARTUP" /\ q.owed = <<>>
    BY <1>4, <1>5 DEF SetBaudrate, Error, Ports
  <1>8. q \in Ports
    BY <1>4, SetBaudrateLink
  <1> HIDE DEF q
  <1>9. /\ s \in Ports /\ Idle(q, s)
        /\ s.state = q.state /\ s.step = "SEND_TYPE0" /\ s.owed = q.owed
    <2>1. Idle(q, s)
      BY <1>8, PutIdle
    <2>2. s \in Ports /\ s.state = q.state /\ s.step = "SEND_TYPE0"
      BY <1>8, Literals, PutLink
    <2>3. s.owed = q.owed
      BY <1>8 DEF Ports
    <2> QED
      BY <2>1, <2>2, <2>3
  <1> HIDE DEF s
  <1>10. Idle(s, a) /\ a.state = s.state /\ a.step = s.step /\ a.owed = s.owed
    <2>1. Idle(s, a)
      BY <1>9, PhyIdle
    <2>2. a.state = s.state /\ a.step = s.step /\ a.owed = s.owed
      BY <1>9 DEF ArmSendGate, Ports
    <2> QED
      BY <2>1, <2>2
  <1> HIDE DEF a
  <1>11. Idle(p, q) /\ Idle(p, a)
    BY <1>4, <1>6, <1>9, <1>10, IdleTrans
  <1> QED
    BY <1>1, <1>7, <1>9, <1>10, <1>11 DEF Failed

\* A sequence given up pauses for T_SD (establish_attempt_failed).
LEMMA GiveUpSequenceGated ==
    ASSUME NEW p \in Good, p.state = "STARTUP", NEW c
    PROVE  LET q == GiveUpSequence(p, c)
           IN  /\ Idle(p, q)
               /\ \/ q.state = "ERROR"
                  \/ /\ q.state = "STARTUP" /\ q.step = "INACTIVE"
                     /\ Timed => q.send_gate = TSd
  <1> DEFINE z == [p EXCEPT !.wake_attempts = 0]
             q == SetMode(z, "INACTIVE", c)
             s == [q EXCEPT !.step = "INACTIVE"]
             a == ArmSendGate(s, TSd, Timed)
  <1>1. GiveUpSequence(p, c) = IF Failed(q) THEN q ELSE a
    BY DEF GiveUpSequence
  <1>2. z \in Ports /\ z.state = "STARTUP"
    BY Literals, PutCounters DEF Kept, SameLink, Good
  <1>3. Idle(p, z)
    BY PutIdle DEF Good
  <1> HIDE DEF z
  <1>4. Idle(z, q)
    BY <1>2, PhyIdle
  <1>5. q \in Ports /\ q.state \in {"STARTUP", "ERROR"}
    <2> DEFINE m == [z EXCEPT !.phy_mode = "INACTIVE"]
    <2>1. q \in {Error(z), m}
      BY DEF SetMode
    <2>2. m \in Ports /\ m.state = "STARTUP"
      BY <1>2, PutLink, Literals
    <2>3. Error(z) \in Ports /\ Error(z).state = "ERROR"
      BY <1>2, ErrorGood DEF Good, Failed
    <2> HIDE DEF m, q
    <2> QED
      BY <2>1, <2>2, <2>3
  <1> HIDE DEF q
  <1>6. s \in Ports /\ s.state = q.state /\ s.step = "INACTIVE"
    BY <1>5, Literals, PutLink
  <1>7. Idle(q, s)
    BY <1>5, PutIdle
  <1> HIDE DEF s
  <1>8. TSd \in Nat
    BY TimesAssumption
  <1>9. a.state = s.state /\ a.step = s.step /\ (Timed => a.send_gate = TSd)
    BY <1>6, <1>8, ArmSendGateFields
  <1>10. Idle(s, a)
    BY <1>6, PhyIdle
  <1> HIDE DEF a
  <1>11. Idle(p, q) /\ Idle(p, a)
    BY <1>3, <1>4, <1>7, <1>10, IdleTrans
  <1> QED
    BY <1>1, <1>5, <1>6, <1>9, <1>11 DEF Failed

\* Where a failed attempt leads: the next rate, a wake-up after T_DWU, or the
\* pause (establish_attempt_failed).
LEMMA EstablishAttemptFailedGated ==
    ASSUME NEW p \in Good, p.state = "STARTUP", p.step # "INACTIVE", NEW c
    PROVE  LET q == EstablishAttemptFailed(p, c)
           IN  /\ Idle(p, q)
               /\ \/ q.state = "ERROR"
                  \/ /\ q.state = "STARTUP" /\ q.step = "SEND_TYPE0"
                     /\ q.owed = <<>>
                  \/ /\ q.state = "STARTUP" /\ q.step \in WakingSteps
                     /\ Timed => q.send_gate = Gate(q.step)
  <1> DEFINE a == [p EXCEPT !.awaiting_response = FALSE]
             n == (a.wake_attempts + 1) % 256
             z == [a EXCEPT !.wake_attempts = n]
             q == ResetRateScan(z, c)
             s == [q EXCEPT !.step = "WAKE"]
             g == ArmSendGate(s, TDwu, Timed)
  <1>1. EstablishAttemptFailed(p, c)
           = IF MoreRates(a) THEN NextRate(a, c)
             ELSE IF Failed(q) THEN q
             ELSE IF MoreWakeUps(q) THEN g
             ELSE GiveUpSequence(q, c)
    BY DEF EstablishAttemptFailed
  <1>2. a \in Good /\ a.state = "STARTUP" /\ a.step # "INACTIVE"
    BY PutFlags DEF Kept, SameLink, Good
  <1>3. Idle(p, a)
    BY PutIdle DEF Good
  <1> HIDE DEF a
  <1>4. n \in 0..255
    <2>1. a.wake_attempts \in 0..255
      BY <1>2 DEF Good, Ports
    <2> QED
      BY <2>1
  <1> HIDE DEF n
  <1>5. z \in Good /\ z.state = "STARTUP" /\ z.step # "INACTIVE"
    BY <1>2, <1>4, PutCounters DEF Kept, SameLink, Good
  <1>6. Idle(a, z)
    BY <1>2, PutIdle DEF Good
  <1> HIDE DEF z
  <1>7. q \in Good /\ (Failed(q) \/ (q.state = "STARTUP" /\ q.step = z.step))
    BY <1>5, ResetRateScanGood
  <1>8. Idle(z, q)
    BY <1>5, ResetRateScanIdle DEF Good
  <1> HIDE DEF q
  <1>9. Idle(p, q)
    BY <1>3, <1>6, <1>8, IdleTrans
  <1>10. CASE MoreRates(a)
    <2> DEFINE r == NextRate(a, c)
    <2>1. /\ Idle(a, r)
          /\ \/ r.state = "ERROR"
             \/ r.state = "STARTUP" /\ r.step = "SEND_TYPE0" /\ r.owed = <<>>
      BY <1>2, <1>10, NextRateGated
    <2> HIDE DEF r
    <2>2. Idle(p, r)
      BY <1>3, <2>1, IdleTrans
    <2>3. EstablishAttemptFailed(p, c) = r
      BY <1>1, <1>10 DEF r
    <2> QED
      BY <2>1, <2>2, <2>3
  <1>11. CASE ~MoreRates(a) /\ Failed(q)
    <2>1. EstablishAttemptFailed(p, c) = q
      BY <1>1, <1>11
    <2> QED
      BY <1>9, <1>11, <2>1 DEF Failed
  <1>12. CASE ~MoreRates(a) /\ ~Failed(q) /\ MoreWakeUps(q)
    <2>1. s \in Ports /\ s.state = "STARTUP" /\ s.step = "WAKE"
      BY <1>7, <1>12, Literals, PutLink DEF Good
    <2>2. Idle(q, s)
      BY <1>7, PutIdle DEF Good
    <2> HIDE DEF s
    <2>3. TDwu \in Nat
      BY TimesAssumption
    <2>4. g.state = "STARTUP" /\ g.step = "WAKE" /\ (Timed => g.send_gate = TDwu)
      BY <2>1, <2>3, ArmSendGateFields
    <2>5. Idle(s, g)
      BY <2>1, PhyIdle
    <2> HIDE DEF g
    <2>6. Idle(p, g)
      BY <1>9, <2>2, <2>5, IdleTrans
    <2>7. EstablishAttemptFailed(p, c) = g
      BY <1>1, <1>12
    <2> QED
      BY <2>4, <2>6, <2>7 DEF WakingSteps, Gate
  <1>13. CASE ~MoreRates(a) /\ ~Failed(q) /\ ~MoreWakeUps(q)
    <2> DEFINE r == GiveUpSequence(q, c)
    <2>1. /\ Idle(q, r)
          /\ \/ r.state = "ERROR"
             \/ /\ r.state = "STARTUP" /\ r.step = "INACTIVE"
                /\ Timed => r.send_gate = TSd
      BY <1>7, <1>13, GiveUpSequenceGated
    <2>2. EstablishAttemptFailed(p, c) = r
      BY <1>1, <1>13
    <2> HIDE DEF r
    <2>3. Idle(p, r)
      BY <1>9, <2>1, IdleTrans
    <2> QED
      BY <2>1, <2>2, <2>3 DEF WakingSteps, Gate
  <1> QED
    BY <1>10, <1>11, <1>12, <1>13

\* A flush that fails latches ERROR, one that does not leaves nothing.
LEMMA FlushRxFields ==
    ASSUME NEW p \in Ports, NEW c
    PROVE  LET q == FlushRx(p, c)
           IN  /\ q.rx = <<>> /\ q.tx = p.tx /\ q.owed = p.owed
               /\ c.fail # "flush_rx" => q.fifo = <<>>
               /\ q.rx_od_expected = p.rx_od_expected
               /\ SameControl(p, q) /\ SameService(p, q)
BY DEF FlushRx, Ports, SameControl, SameService

\* A timeout: what waited is dropped; in STARTUP the attempt has failed, in
\* OPERATE a retry is left or the connection is lost (on_timeout_at).
LEMMA OnTimeoutAtAfter ==
    ASSUME CleanLine, NEW p \in Good, Settled(p), p.awaiting_response, Ready(p),
           NEW x \in Good, x.rx = <<>>, x.tx = "none", x.owed = p.owed,
           x.rx_od_expected = p.rx_od_expected,
           x.state = p.state, x.step = p.step,
           x.rx_retry_count = p.rx_retry_count, ~x.awaiting_response,
           SameService(p, x), NEW c
    PROVE  After(p, OnTimeoutAt(x, c))
  <1> DEFINE s == FlushRx(x, c)
             n == s.rx_retry_count + 1
             t == [s EXCEPT !.rx_retry_count = n]
  <1>1. /\ s.rx = <<>> /\ s.tx = "none" /\ s.owed = p.owed
        /\ c.fail # "flush_rx" => s.fifo = <<>>
        /\ s.rx_od_expected = p.rx_od_expected
        /\ SameControl(x, s) /\ SameService(x, s)
    BY FlushRxFields DEF Good
  <1>2. s \in Good /\ s \in Ports /\ Timed
    BY FlushRxKept, KeptTrans DEF Good, CleanLine
  <1>3. OnTimeoutAt(x, c)
           = IF c.fail = "flush_rx" THEN Error(s)
             ELSE IF s.state = "OPERATE"
             THEN IF MoreRetries(s) THEN t ELSE RestartEstablish(s, Timed, c)
             ELSE IF s.state = "STARTUP" /\ s.step # "INACTIVE"
             THEN EstablishAttemptFailed(s, c)
             ELSE s
    BY DEF OnTimeoutAt
  <1> HIDE DEF s
  <1>4. /\ s.state = p.state /\ s.step = p.step
        /\ s.rx_retry_count = p.rx_retry_count /\ ~s.awaiting_response
        /\ SameService(p, s)
    BY <1>1, SameTrans DEF SameControl
  <1>5. Plain(p) /\ Plain(s)
    BY <1>1, <1>4 DEF Settled, Framed, Plain, SameService, EventActive
  <1>6. CASE c.fail = "flush_rx"
    <2> DEFINE e == Error(s)
    <2>1. e.state = "ERROR" /\ Idle(s, e)
      BY <1>2, PhyIdle DEF Error, Ports
    <2> HIDE DEF e
    <2>2. Plain(e) /\ e.tx = "none"
      BY <1>1, <1>5, <2>1 DEF Idle, Plain, SameService, EventActive
    <2>3. After(p, e)
      BY <2>1, <2>2, AfterError
    <2> QED
      BY <1>3, <1>6, <2>3 DEF e
  <1>7. p.rx_retry_count \in 0..2 /\ Count(p) = p.rx_retry_count + 1
    <2>1. p.rx_retry_count \in 0..2
      BY DEF Good, Ports, RxRetryLimit
    <2> QED
      BY <2>1 DEF Count
  <1>8. CASE c.fail # "flush_rx" /\ s.state = "OPERATE" /\ MoreRetries(s)
    <2>1. OnTimeoutAt(x, c) = t
      BY <1>3, <1>8
    <2>2. n \in 0..2 /\ n = p.rx_retry_count + 1
      BY <1>4, <1>7, <1>8 DEF MoreRetries, RxRetryLimit
    <2> HIDE DEF n
    <2>3. /\ t.rx_retry_count = n /\ t.state = "OPERATE"
          /\ t.rx_od_expected = s.rx_od_expected
          /\ t.awaiting_response = s.awaiting_response
          /\ t.owed = s.owed /\ t.fifo = s.fifo /\ t.rx = s.rx /\ t.tx = s.tx
          /\ SameService(s, t)
      BY <1>2, <1>8 DEF Ports, SameService
    <2> HIDE DEF t
    <2>4. Plain(t)
      BY <1>5, <2>3, SentPlain DEF SameService
    <2>5. Owes(t, {TypedReply(t.rx_od_expected)})
      BY <1>1, <1>4, <1>8, <2>3 DEF Settled, Framed, OperateFramed, Owes
    <2>6. Framed(t)
      BY <1>1, <1>4, <1>8, <2>3, <2>4, <2>5 DEF Framed, OperateFramed
    <2>7. Count(t) = Count(p)
      BY <1>4, <1>7, <2>2, <2>3 DEF Count
    <2>8. After(p, t)
      BY <1>1, <1>4, <1>7, <1>8, <2>3, <2>6, <2>7 DEF After
    <2> QED
      BY <2>1, <2>8
  <1>9. CASE c.fail # "flush_rx" /\ s.state = "OPERATE" /\ ~MoreRetries(s)
    <2> DEFINE q == RestartEstablish(s, Timed, c)
    <2>1. /\ Idle(s, q)
          /\ \/ q.state = "ERROR"
             \/ q.state = "STARTUP" /\ q.step = "WAKE" /\ q.send_gate = TDwu
      BY <1>2, RestartEstablishGated
    <2>2. OnTimeoutAt(x, c) = q
      BY <1>3, <1>9
    <2> HIDE DEF q
    <2>3. Plain(q) /\ q.tx = "none" /\ q.fifo = <<>>
      BY <1>1, <1>5, <1>9, <2>1 DEF Idle, Plain, SameService, EventActive
    <2>4. CASE q.state = "ERROR"
      BY <2>2, <2>3, <2>4, AfterError
    <2>5. CASE q.state = "STARTUP" /\ q.step = "WAKE" /\ q.send_gate = TDwu
      <3>1. Count(p) = RxRetryLimit + 1
        BY <1>4, <1>7, <1>9 DEF MoreRetries, RxRetryLimit
      <3>2. Owes(p, {<<"pd", "cks">>})
        BY <1>4, <1>9 DEF Settled, Framed, OperateFramed, Owes, TypedReply
      <3>3. Owes(q, {<<"od", "cks">>, <<"pd", "cks">>})
        BY <1>1, <2>1, <3>2 DEF Idle, Owes
      <3>4. Framed(q)
        BY <2>3, <2>5, <3>3 DEF Framed, StartupFramed, Leftover
      <3>5. After(p, q)
        BY <2>3, <2>5, <3>1, <3>4 DEF After, Gate
      <3> QED
        BY <2>2, <3>5
    <2> QED
      BY <2>1, <2>4, <2>5
  <1>10. CASE c.fail # "flush_rx" /\ s.state = "STARTUP"
    <2>1. p.step = "AWAIT_RESPONSE"
      BY <1>2, <1>4, <1>10 DEF Ready
    <2> DEFINE q == EstablishAttemptFailed(s, c)
    <2>2. OnTimeoutAt(x, c) = q
      BY <1>3, <1>4, <1>10, <2>1
    <2>3. /\ Idle(s, q)
          /\ \/ q.state = "ERROR"
             \/ q.state = "STARTUP" /\ q.step = "SEND_TYPE0" /\ q.owed = <<>>
             \/ /\ q.state = "STARTUP" /\ q.step \in WakingSteps
                /\ q.send_gate = Gate(q.step)
      BY <1>2, <1>4, <1>10, <2>1, EstablishAttemptFailedGated
    <2> HIDE DEF q
    <2>4. Plain(q) /\ q.tx = "none" /\ q.fifo = <<>>
      BY <1>1, <1>5, <1>10, <2>3 DEF Idle, Plain, SameService, EventActive
    <2>5. Owes(q, {<<"od", "cks">>, <<"pd", "cks">>})
      <3>1. Owes(p, {<<"od", "cks">>})
        BY <1>4, <1>10, <2>1 DEF Settled, Framed, StartupFramed, Owes
      <3> QED
        BY <1>1, <2>3, <3>1 DEF Idle, Owes
    <2>6. CASE q.state = "ERROR"
      BY <2>2, <2>4, <2>6, AfterError
    <2>7. CASE /\ q.state = "STARTUP" /\ q.step = "SEND_TYPE0"
               /\ q.owed = <<>>
      <3>1. Framed(q)
        BY <2>4, <2>5, <2>7 DEF Framed, StartupFramed, Leftover
      <3>2. After(p, q)
        BY <1>4, <1>10, <2>4, <2>7, <3>1 DEF After, WakingSteps
      <3> QED
        BY <2>2, <3>2
    <2>8. CASE /\ q.state = "STARTUP" /\ q.step \in WakingSteps
               /\ q.send_gate = Gate(q.step)
      <3>1. Framed(q)
        BY <2>4, <2>5, <2>8 DEF Framed, StartupFramed, Leftover, WakingSteps
      <3>2. After(p, q)
        BY <1>4, <1>10, <2>4, <2>8, <3>1 DEF After
      <3> QED
        BY <2>2, <3>2
    <2> QED
      BY <2>3, <2>6, <2>7, <2>8
  <1>11. CASE c.fail # "flush_rx" /\ s.state \notin {"OPERATE", "STARTUP"}
    <2>1. OnTimeoutAt(x, c) = s
      BY <1>3, <1>11
    <2>2. s.state = "ERROR"
      <3>1. s.state \in States /\ s.state # "INACTIVE"
        BY <1>2, <1>4 DEF Ports, Ready
      <3>2. s.state # "PREOPERATE"
        BY <1>4 DEF Settled, Framed, PreoperateFramed
      <3> QED
        BY <1>11, <3>1, <3>2 DEF States
    <2> QED
      BY <1>1, <1>5, <2>1, <2>2, AfterError
  <1> QED
    BY <1>6, <1>8, <1>9, <1>10, <1>11

\* A tick that reports a timeout (tick_common).
LEMMA TimeoutTickAfter ==
    ASSUME CleanLine, NEW p \in Good, Settled(p), Ready(p), NEW c
    PROVE  After(p, TimeoutTick(p, c))
  <1> DEFINE q == FlushRx(p, c)
             x == [q EXCEPT !.awaiting_response = FALSE]
  <1>1. p \in Ports /\ Timed /\ p.tx = "none"
    BY DEF Good, CleanLine, Settled
  <1>2. CASE ~p.awaiting_response
    <2>1. TimeoutTick(p, c) = p
      BY <1>1, <1>2 DEF TimeoutTick
    <2> QED
      BY <1>1, <2>1, AfterNothing
  <1>3. CASE p.awaiting_response
    <2>1. TimeoutTick(p, c) = OnTimeoutAt(x, c)
      BY <1>3 DEF TimeoutTick
    <2>2. /\ q.rx = <<>> /\ q.tx = p.tx /\ q.owed = p.owed
          /\ q.rx_od_expected = p.rx_od_expected
          /\ SameControl(p, q) /\ SameService(p, q)
      BY <1>1, FlushRxFields
    <2>3. q \in Good
      BY FlushRxKept, KeptTrans
    <2> HIDE DEF q
    <2>4. x \in Good
      BY <2>3, PutFlags, KeptTrans
    <2>5. /\ x.rx = q.rx /\ x.tx = q.tx /\ x.owed = q.owed
          /\ x.rx_od_expected = q.rx_od_expected
          /\ x.state = q.state /\ x.step = q.step
          /\ x.rx_retry_count = q.rx_retry_count
          /\ x.awaiting_response = FALSE /\ SameService(q, x)
      BY <2>3 DEF Good, Ports, SameService
    <2> HIDE DEF x
    <2>6. /\ x.rx = <<>> /\ x.tx = "none" /\ x.owed = p.owed
          /\ x.rx_od_expected = p.rx_od_expected
          /\ x.state = p.state /\ x.step = p.step
          /\ x.rx_retry_count = p.rx_retry_count
          /\ ~x.awaiting_response /\ SameService(p, x)
      BY <1>1, <2>2, <2>5, SameTrans DEF SameControl
    <2> QED
      BY <1>3, <2>1, <2>4, <2>6, OnTimeoutAtAfter
  <1> QED
    BY <1>2, <1>3

-----------------------------------------------------------------------------
(* The whole tick, and the steps between ticks.                            *)

\* The cyclic requests a port has counted as unanswered, when nothing waits.
Counting(p) == IF p.state = "OPERATE" /\ p.fifo = <<>> THEN Count(p) ELSE 0

\* What a tick does to a framed port.
Ticked(p, q) ==
    /\ Framed(q)
    /\ q.state \in {"PREOPERATE", "OPERATE"} => q.fifo = <<>>
    /\ q.state # "ERROR" /\ q.fifo # <<>> => p.state # "ERROR" /\ p.fifo # <<>>
    /\ q.state = "PREOPERATE" =>
          \/ p.state = "PREOPERATE"
          \/ p.state # "ERROR" /\ p.fifo # <<>>
    /\ q.state = "OPERATE" =>
          /\ p.state \in {"PREOPERATE", "OPERATE"}
          /\ Count(q) = Counting(p) + (IF q.tx = "cyclic" THEN 1 ELSE 0)
    /\ p.state = "OPERATE" /\ q.state = "STARTUP" =>
          p.fifo = <<>> /\ Count(p) = RxRetryLimit + 1
    /\ q.tx = "cyclic" => q.state = "OPERATE"
    /\ q.state = "STARTUP" /\ q.step \in WakingSteps =>
          \/ q.state = p.state /\ q.step = p.step
          \/ q.send_gate = Gate(q.step)
    /\ q.tx = "wake" => p.send_gate = 0

LEMMA TickFramed ==
    ASSUME CleanLine, NEW p \in Good, Ready(p), Framed(p),
           NEW event \in {"CYCLE_DUE", "RESPONSE_TIMEOUT"}, NEW c
    PROVE  Ticked(p, TickCommon(p, event, c))
  <1> DEFINE z == [p EXCEPT !.tx = "none"]
             r == PollRx(z, c)
             s == r.p
             t == TickCommon(p, event, c)
  <1>0. p.state = "ERROR" => t.state = "ERROR"
    <2>1. Moves(p, t, c)
      BY TickCommonMoves
    <2> HIDE DEF t
    <2> QED
      BY <2>1
      DEF Moves, Rests, Talks, Answers, Loses, Fails, Wakes, Tests, Slows,
          Retries, Pauses, Failing, Com
  <1>1. t \in IF r.ok THEN {CycleTick(s, c), TimeoutTick(s, c)} ELSE {s}
    BY DEF TickCommon
  <1>2. /\ z \in Good /\ z.tx = "none"
        /\ z.rx = p.rx /\ z.fifo = p.fifo /\ z.owed = p.owed
        /\ z.rx_od_expected = p.rx_od_expected /\ z.send_gate = p.send_gate
        /\ SameService(p, z) /\ SameControl(p, z) /\ (Polled(z) <=> Polled(p))
    BY TickStarts
  <1>3. z.wake_attempts = p.wake_attempts /\ z.baudrate_index = p.baudrate_index
    BY DEF Good, Ports
  <1> HIDE DEF z
  <1>4. Framed(z)
    BY <1>2, SameFramed
  <1>5. Ready(z) /\ Silent(z)
    BY <1>2, <1>3 DEF Ready, Silent, SameControl
  <1>6. PollOutcome(z, r)
    BY <1>2, <1>4, PollFramed
  <1>7. s \in Good
    BY <1>2, PollRxGood
  <1>8. r.ok => Ready(s)
    BY <1>2, <1>5, <1>7, PollRxMoves, PollingReady DEF PollsOn
  <1> HIDE DEF r, t
  <1>9. CASE ~r.ok /\ s.state = "ERROR" /\ s.tx = z.tx /\ Plain(s)
    <2>1. t = s
      BY <1>1, <1>9
    <2> HIDE DEF s
    <2> QED
      BY <1>2, <1>9, <2>1 DEF Ticked, Framed, t
  <1>10. CASE ~r.ok /\ Dropped(z, s) /\ Framed(s)
    <2>1. t = s
      BY <1>1, <1>10
    <2> HIDE DEF s
    <2> QED
      BY <1>2, <1>10, <2>1 DEF Ticked, Dropped, SameControl, WakingSteps, t
  <1>11. CASE r.ok /\ s = z /\ (Polled(z) => z.fifo = <<>>)
    <2>1. Settled(s)
      BY <1>2, <1>4, <1>11 DEF Settled, Polled
    <2>2. After(s, t)
      BY <1>1, <1>7, <1>8, <1>11, <2>1, CycleTickAfter, TimeoutTickAfter
    <2> HIDE DEF s
    <2>3. /\ s.state = p.state /\ s.step = p.step /\ s.fifo = p.fifo
          /\ s.send_gate = p.send_gate
          /\ s.rx_retry_count = p.rx_retry_count
          /\ s.awaiting_response = p.awaiting_response
      BY <1>2, <1>11 DEF SameControl
    <2>4. Count(s) = Count(p)
      BY <2>3 DEF Count
    <2>5. s.state \in {"PREOPERATE", "OPERATE"} => s.fifo = <<>>
      BY <2>1 DEF Settled
    <2>6. Ticked(p, t)
      BY <1>0, <2>2, <2>3, <2>4, <2>5 DEF Ticked, After, Counting
    <2> QED
      BY <2>6 DEF t
  <1>12. CASE r.ok /\ Taken(z, s)
    <2>1. Framed(s)
      BY <1>4, <1>12, TakenFramed
    <2>2. Settled(s)
      BY <1>2, <1>12, <2>1 DEF Settled, Taken
    <2>3. After(s, t)
      BY <1>1, <1>7, <1>8, <1>12, <2>2, CycleTickAfter, TimeoutTickAfter
    <2> HIDE DEF s
    <2>4. /\ s.fifo = <<>> /\ p.fifo # <<>> /\ p.state # "ERROR"
          /\ s.send_gate = p.send_gate
          /\ s.rx_retry_count = 0 /\ ~s.awaiting_response
          /\ s.state = StateAfterReply(p)
      BY <1>2, <1>12 DEF Taken, Polled, SameControl, StateAfterReply
    <2>5. Count(s) = 0
      BY <2>4 DEF Count
    <2>6. /\ s.state \in {"PREOPERATE", "OPERATE"}
          /\ p.state = "OPERATE" => s.state = "OPERATE"
          /\ s.state = "OPERATE" => p.state \in {"PREOPERATE", "OPERATE"}
      BY <1>2, <1>12, <2>4 DEF Taken, StateAfterReply, Polled
    <2>7. Ticked(p, t)
      BY <2>3, <2>4, <2>5, <2>6 DEF Ticked, After, Counting, RxRetryLimit
    <2> QED
      BY <2>7 DEF t
  <1> QED
    BY <1>6, <1>9, <1>10, <1>11, <1>12 DEF PollOutcome

\* The device answers in the shape the request calls for.
LEMMA FilledFrames ==
    ASSUME NEW shape \in Shapes, NEW cks \in Cks, dev \in DevIds
    PROVE  LET g == Filled(shape, cks)
           IN  /\ g \in Seq(Octets) /\ Len(g) = Len(shape) /\ g # <<>>
               /\ shape \in {<<"od", "cks">>, <<"idle", "cks">>} => OdFrame(g)
               /\ shape = <<"pd", "cks">> => PdFrame(g)
               /\ shape = <<"cks">> => Len(g) = 1 /\ g[1] \in Cks
               /\ shape \in {TypedReply(TRUE), TypedReply(FALSE)}
                     => Intact(shape, g)
  <1> DEFINE g == Filled(shape, cks)
  <1>1. /\ Len(shape) \in Nat /\ Len(shape) > 0
        /\ \A i \in 1..Len(shape) : shape[i] \in {"od", "idle", "pd", "cks"}
    <2>1. /\ Len(shape) \in Nat
          /\ \A i \in 1..Len(shape) : shape[i] \in {"od", "idle", "pd", "cks"}
      BY DEF Shapes
    <2>2. Len(shape) > 0
      BY DEF Shapes
    <2> QED
      BY <2>1, <2>2
  <1>2. /\ dev \in OdOctets /\ "idle" \in OdOctets /\ OdOctets \subseteq Octets
        /\ "pd" \in Octets /\ Cks \subseteq Octets
    BY DEF Octets, OdOctets
  <1>3. \A i \in 1..Len(shape) :
           g[i] = CASE shape[i] = "od" -> dev
                    [] shape[i] = "cks" -> cks
                    [] OTHER -> shape[i]
    BY DEF Filled
  <1>4. g \in [1..Len(shape) -> Octets]
    BY <1>1, <1>2 DEF Filled
  <1>5. g \in Seq(Octets)
    BY <1>1, <1>4, SeqDef
  <1>6. Len(g) = Len(shape)
    BY <1>1, <1>4, <1>5, LenProperties
  <1> HIDE DEF g
  <1>7. g # <<>>
    BY <1>1, <1>5, <1>6, EmptySeq
  <1>8. ASSUME shape \in {<<"od", "cks">>, <<"idle", "cks">>} PROVE OdFrame(g)
    <2>1. Len(shape) = 2 /\ shape[1] \in {"od", "idle"} /\ shape[2] = "cks"
      BY <1>8
    <2>2. g[1] \in {dev, "idle"} /\ g[2] = cks
      BY <1>3, <2>1
    <2> QED
      BY <1>2, <1>6, <2>1, <2>2 DEF OdFrame
  <1>9. ASSUME shape = <<"pd", "cks">> PROVE PdFrame(g)
    <2>1. Len(shape) = 2 /\ shape[1] = "pd" /\ shape[2] = "cks"
      BY <1>9
    <2>2. g[1] = "pd" /\ g[2] = cks
      BY <1>3, <2>1
    <2> QED
      BY <1>6, <2>1, <2>2 DEF PdFrame
  <1>10. ASSUME shape = <<"cks">> PROVE Len(g) = 1 /\ g[1] \in Cks
    <2>1. Len(shape) = 1 /\ shape[1] = "cks"
      BY <1>10
    <2> QED
      BY <1>3, <1>6, <2>1
  <1>11. ASSUME shape \in {TypedReply(TRUE), TypedReply(FALSE)}
         PROVE  Intact(shape, g)
    <2>1. \A i \in 1..Len(shape) : shape[i] \in {"od", "pd", "cks"}
      BY <1>11 DEF TypedReply
    <2> QED
      BY <1>2, <1>3, <1>6, <2>1 DEF Intact
  <1> QED
    BY <1>5, <1>6, <1>7, <1>8, <1>9, <1>10, <1>11 DEF g

\* Two frames in a row.
LEMMA FrameAfterFrame ==
    ASSUME NEW f \in Seq(Octets), NEW g \in Seq(Octets), OdFrame(g),
           OdFrame(f) \/ PdFrame(f)
    PROVE  TwoFrames(f \o g)
  <1>1. /\ Len(f) = 2 /\ Len(g) = 2
        /\ f[1] \in OdOctets \cup {"pd"} /\ f[2] \in Cks
        /\ g[1] \in OdOctets /\ g[2] \in Cks
    BY DEF OdFrame, PdFrame
  <1>2. /\ Len(f \o g) = 4 /\ (f \o g)[1] = f[1] /\ (f \o g)[2] = f[2]
        /\ (f \o g)[3] = g[1] /\ (f \o g)[4] = g[2]
    <2> DEFINE h == f \o g
    <2>1. /\ Len(h) = Len(f) + Len(g)
          /\ \A i \in 1..Len(f) + Len(g) :
                h[i] = IF i <= Len(f) THEN f[i] ELSE g[i - Len(f)]
      BY ConcatProperties
    <2> HIDE DEF h
    <2>2. /\ Len(h) = 4
          /\ \A i \in 1..4 : h[i] = IF i <= 2 THEN f[i] ELSE g[i - 2]
      BY <1>1, <2>1
    <2>3. h[1] = f[1] /\ h[2] = f[2] /\ h[3] = g[1] /\ h[4] = g[2]
      BY <2>2
    <2> QED
      BY <2>2, <2>3 DEF h
  <1> QED
    BY <1>1, <1>2 DEF TwoFrames

\* A reply arrives.
LEMMA AnswerFramed ==
    ASSUME CleanLine, Inv, Framed(port), NEW cks \in CksOctets, Answer(cks)
    PROVE  /\ Framed(port') /\ port'.fifo # <<>> /\ port'.tx = "none"
           /\ SameControl(port, port')
  <1> DEFINE shape == Head(port.owed)
             g == Filled(shape, cks)
             f == port.fifo \o g
             o == Tail(port.owed)
             q == [port EXCEPT !.fifo = f, !.owed = o, !.tx = "none"]
  <1>1. /\ port \in Ports /\ port.owed # <<>> /\ dev \in DevIds
        /\ port.owed \in Seq(Shapes) /\ port.fifo \in Seq(Octets) /\ cks \in Cks
    BY EnvironmentAssumption DEF Inv, Good, Ports, Answer, CanAnswer, Cks
  <1>2. port' = q
    BY Zenon DEF Answer, Received
  <1>3. shape \in Shapes /\ shape = port.owed[1]
    BY <1>1, HeadTailProperties
  <1>4. Len(port.owed) = 1 => o = <<>>
    <2>1. Len(port.owed) = 1 => Len(o) = 0 /\ o \in Seq(Shapes)
      BY <1>1, HeadTailProperties
    <2> QED
      BY <2>1, EmptySeq
  <1> HIDE DEF shape
  <1>5. /\ g \in Seq(Octets) /\ g # <<>>
        /\ shape \in {<<"od", "cks">>, <<"idle", "cks">>} => OdFrame(g)
        /\ shape = <<"pd", "cks">> => PdFrame(g)
        /\ shape = <<"cks">> => Len(g) = 1 /\ g[1] \in Cks
        /\ shape \in {TypedReply(TRUE), TypedReply(FALSE)} => Intact(shape, g)
    BY <1>1, <1>3, FilledFrames
  <1> HIDE DEF g
  <1>6. port.fifo = <<>> => f = g
    BY <1>5, ConcatEmptySeq
  <1>7. f # <<>>
    BY <1>1, <1>5, ConcatProperties, EmptySeq
  <1>8. OdFrame(g) /\ (OdFrame(port.fifo) \/ PdFrame(port.fifo)) => TwoFrames(f)
    BY <1>1, <1>5, FrameAfterFrame
  <1> HIDE DEF f, o
  <1>9. /\ q.fifo = f /\ q.owed = o /\ q.tx = "none" /\ q.rx = port.rx
        /\ q.rx_od_expected = port.rx_od_expected
        /\ SameControl(port, q) /\ SameService(port, q)
    BY <1>1 DEF Ports, SameControl, SameService
  <1> HIDE DEF q
  <1>10. Plain(q)
    BY <1>9, SentPlain DEF Framed, SameService
  <1>11. ASSUME port.state = "STARTUP" PROVE StartupFramed(q)
    <2>1. StartupFramed(port) /\ q.step = port.step
      BY <1>9, <1>11 DEF Framed, SameControl
    <2>2. CASE port.step # "AWAIT_RESPONSE"
      <3>1. /\ port.fifo = <<>> /\ port.step # "SEND_TYPE0"
            /\ Len(port.owed) = 1
            /\ shape \in {<<"od", "cks">>, <<"pd", "cks">>}
        BY <1>1, <1>3, <2>1, <2>2 DEF StartupFramed, Owes
      <3>2. q.owed = <<>> /\ (OdFrame(q.fifo) \/ PdFrame(q.fifo))
        BY <1>4, <1>5, <1>6, <1>9, <3>1
      <3> QED
        BY <2>1, <2>2, <3>1, <3>2 DEF StartupFramed, Owes, Leftover
    <2>3. CASE port.step = "AWAIT_RESPONSE"
      <3>1. /\ Leftover(port.fifo) /\ Len(port.owed) = 1
            /\ shape = <<"od", "cks">>
        BY <1>1, <1>3, <2>1, <2>3 DEF StartupFramed, Owes
      <3>2. q.owed = <<>> /\ (OdFrame(q.fifo) \/ TwoFrames(q.fifo))
        BY <1>4, <1>5, <1>6, <1>8, <1>9, <3>1 DEF Leftover
      <3> QED
        BY <2>1, <2>3, <3>2 DEF StartupFramed, Owes, Leftover
    <2> QED
      BY <2>2, <2>3
  <1>12. ASSUME port.state = "PREOPERATE" PROVE PreoperateFramed(q)
    <2>1. PreoperateFramed(port) /\ SameControl(port, q)
      BY <1>9, <1>12 DEF Framed
    <2>2. CASE port.step = "AWAIT_RESPONSE"
      <3>1. /\ port.fifo = <<>> /\ Len(port.owed) = 1
            /\ shape \in {<<"od", "cks">>, <<"idle", "cks">>}
        BY <1>1, <1>3, <2>1, <2>2 DEF PreoperateFramed, Owes
      <3>2. q.owed = <<>> /\ OdFrame(q.fifo)
        BY <1>4, <1>5, <1>6, <1>9, <3>1
      <3> QED
        BY <2>1, <2>2, <3>2 DEF PreoperateFramed, SameControl
    <2>3. CASE port.step = "AWAIT_OPERATE_ACK"
      <3>1. /\ port.fifo = <<>> /\ Len(port.owed) = 1 /\ shape = <<"cks">>
        BY <1>1, <1>3, <2>1, <2>3 DEF PreoperateFramed, Owes
      <3>2. q.owed = <<>> /\ Len(q.fifo) = 1 /\ q.fifo[1] \in Cks
        BY <1>4, <1>5, <1>6, <1>9, <3>1
      <3>3. ~IsduSending(q)
        BY <1>9, <2>1, <2>3 DEF PreoperateFramed, IsduSending, SameService
      <3> QED
        BY <1>9, <2>1, <2>3, <3>2, <3>3 DEF PreoperateFramed, SameControl
    <2> QED
      BY <2>1, <2>2, <2>3 DEF PreoperateFramed
  <1>13. ASSUME port.state = "OPERATE" PROVE OperateFramed(q)
    <2>1. /\ OperateFramed(port) /\ SameControl(port, q)
          /\ port.rx_od_expected \in BOOLEAN
      BY <1>1, <1>9, <1>13 DEF Framed, Ports
    <2>2. /\ port.fifo = <<>> /\ Len(port.owed) = 1
          /\ shape = TypedReply(port.rx_od_expected)
      BY <1>1, <1>3, <2>1 DEF OperateFramed, Owes
    <2>3. q.owed = <<>> /\ Intact(TypedReply(port.rx_od_expected), q.fifo)
      BY <1>4, <1>5, <1>6, <1>9, <2>1, <2>2
    <2> QED
      BY <1>9, <2>1, <2>3 DEF OperateFramed, SameControl
  <1>14. Framed(q)
    BY <1>9, <1>10, <1>11, <1>12, <1>13 DEF Framed, SameControl
  <1> QED
    BY <1>2, <1>7, <1>9, <1>14

\* A port that has heard and asked nothing.
Blank(p) ==
    /\ p.rx = <<>> /\ p.fifo = <<>> /\ p.owed = <<>> /\ p.event = "none"
    /\ p.isdu_phase = "none" /\ p.isdu_pending = "none"

\* After power-on nothing waits and nothing is owed.
LEMMA InitFramed == ASSUME Init PROVE Framed(port) /\ port.fifo = <<>>
  <1>1. PICK c \in Choices : port = PortInit(PowerOnPhy, c)
    BY DEF Init
  <1>2. PICK d \in Choices : Fresh(port, d)
    BY InitFresh
  <1> DEFINE n == NewPort(PowerOnPhy)
             f == FlushRx(n, c)
             b == SetBaudrate(f, c)
             m == SetMode(b, "SDCI", c)
  <1>3. port \in {Error(n), Error(f), b, m}
    BY <1>1 DEF PortInit
  <1>4. n \in Ports
    <2>1. /\ PowerOnPhy.phy_mode \in Modes
          /\ PowerOnPhy.phy_rate \in 0..LastRate
          /\ PowerOnPhy.fifo \in Seq(Octets) /\ PowerOnPhy.owed \in Seq(Shapes)
      BY EnvironmentAssumption, EmptySeq DEF PowerOnPhy, Modes, LastRate
    <2> QED
      BY <2>1, NewPortType
  <1>5. Blank(n)
    BY DEF NewPort, PowerOnPhy, Blank
  <1> HIDE DEF n
  <1>6. f \in Ports /\ Blank(f)
    <2>1. Blank(f)
      BY <1>4, <1>5 DEF FlushRx, Ports, Blank
    <2> QED
      BY <1>4, <2>1, FlushRxLink
  <1> HIDE DEF f
  <1>7. b \in Ports /\ Blank(b)
    <2>1. Blank(b)
      BY <1>6 DEF SetBaudrate, Error, Ports, Blank
    <2> QED
      BY <1>6, <2>1, SetBaudrateLink
  <1> HIDE DEF b
  <1>8. Blank(m) /\ Blank(Error(n)) /\ Blank(Error(f))
    BY <1>4, <1>5, <1>6, <1>7 DEF SetMode, Error, Ports, Blank
  <1> HIDE DEF m
  <1>9. Blank(port)
    BY <1>3, <1>5, <1>6, <1>7, <1>8
  <1>10. port.state = "ERROR" \/ (port.state = "STARTUP" /\ port.step = "WAKE")
    BY <1>2 DEF Fresh
  <1> QED
    BY <1>9, <1>10
    DEF Blank, Framed, Plain, EventActive, StartupFramed, Leftover, Owes

\* A step between ticks: the control of the port stays as it is, and the FIFO
\* changes by an answer only.
Passes ==
    /\ Framed(port') /\ SameControl(port, port') /\ port'.tx = "none"
    /\ port'.fifo = port.fifo \/ \E cks \in CksOctets : Answer(cks)

\* An application call or a moment that passes keeps a framed port framed.
LEMMA CallPasses ==
    ASSUME Framed(port), NEW s \in Ports, port' = [s EXCEPT !.tx = "none"],
           s.rx = port.rx, s.fifo = port.fifo, s.owed = port.owed,
           s.rx_od_expected = port.rx_od_expected, s.event = port.event,
           SameControl(port, s),
           \/ SameService(port, s)
           \/ Type0WriteOd /\ port.state = "OPERATE"
    PROVE  Passes
  <1> DEFINE q == [s EXCEPT !.tx = "none"]
  <1>1. /\ q.tx = "none" /\ q.rx = s.rx /\ q.fifo = s.fifo /\ q.owed = s.owed
        /\ q.rx_od_expected = s.rx_od_expected /\ q.event = s.event
        /\ SameControl(s, q) /\ SameService(s, q)
    BY DEF Ports, SameControl, SameService
  <1>2. port' = q
    OBVIOUS
  <1> HIDE DEF q
  <1>3. SameControl(port, q)
    BY <1>1, SameTrans
  <1>4. CASE SameService(port, s)
    <2>1. Framed(q)
      BY <1>1, <1>3, <1>4, SameTrans, SameFramed
    <2> QED
      BY <1>1, <1>2, <1>3, <2>1 DEF Passes
  <1>5. CASE Type0WriteOd /\ port.state = "OPERATE"
    <2>1. Plain(q)
      BY <1>1, <1>5, SentPlain DEF Framed
    <2>2. OperateFramed(q)
      BY <1>1, <1>3, <1>5 DEF Framed, OperateFramed, SameControl, Owes
    <2>3. Framed(q)
      BY <1>3, <1>5, <2>1, <2>2 DEF Framed, SameControl
    <2> QED
      BY <1>1, <1>2, <1>3, <2>3 DEF Passes
  <1> QED
    BY <1>4, <1>5

\* Every step of a framed port is a tick or passes.
LEMMA FramedSteps ==
    ASSUME CleanLine, EInv, Framed(port), Next
    PROVE  Ticked(port, port') \/ Passes
  <1>1. port \in Good /\ port \in Ports /\ Ready(port)
    BY DEF EInv, Inv, Good
  <1>2. ASSUME NEW c \in Choices, TickAt(c)
        PROVE  Ticked(port, port')
    <2>1. PICK event \in {"CYCLE_DUE", "RESPONSE_TIMEOUT"} :
             port' = TickCommon(port, event, c)
      BY <1>2 DEF TickAt
    <2> QED
      BY <1>1, <2>1, TickFramed
  <1>3. CASE StartIsdu
    <2> DEFINE s == IsduStart(port, "app")
    <2>1. s \in Ports
      BY <1>1, IsduStartKept DEF Kept, Good
    <2>2. /\ s.rx = port.rx /\ s.fifo = port.fifo /\ s.owed = port.owed
          /\ s.rx_od_expected = port.rx_od_expected /\ s.event = port.event
          /\ SameControl(port, s)
      BY <1>1 DEF IsduStart, Ports, SameControl
    <2>3. port' = [s EXCEPT !.tx = "none"]
      BY <1>3 DEF StartIsdu
    <2>4. Type0WriteOd /\ port.state = "OPERATE"
      BY <1>3 DEF StartIsdu, Serviceable, CleanLine
    <2> HIDE DEF s
    <2> QED
      BY <2>1, <2>2, <2>3, <2>4, CallPasses
  <1>4. CASE CollectIsdu
    <2> DEFINE s == IsduFinish(port)
    <2>1. s \in Ports
      BY <1>1, IsduFinishKept DEF Kept, Good
    <2>2. /\ s.rx = port.rx /\ s.fifo = port.fifo /\ s.owed = port.owed
          /\ s.rx_od_expected = port.rx_od_expected /\ s.event = port.event
          /\ SameControl(port, s)
      BY <1>1 DEF IsduFinish, Ports, SameControl
    <2>3. port' = [s EXCEPT !.tx = "none"]
      BY <1>4 DEF CollectIsdu
    <2>4. Type0WriteOd /\ port.state = "OPERATE"
      BY <1>4 DEF CollectIsdu, Serviceable, CleanLine
    <2> HIDE DEF s
    <2> QED
      BY <2>1, <2>2, <2>3, <2>4, CallPasses
  <1>5. CASE Elapse
    <2> DEFINE a == Less(port.deadline)
               b == Less(port.send_gate)
               l == Less(port.cycle_left)
               q == [port EXCEPT !.deadline = a, !.send_gate = b,
                                 !.cycle_left = l, !.tx = "none"]
    <2>1. port' = q
      BY <1>5, Zenon DEF Elapse
    <2> HIDE DEF a, b, l
    <2>2. /\ q.rx = port.rx /\ q.fifo = port.fifo /\ q.owed = port.owed
          /\ q.rx_od_expected = port.rx_od_expected /\ q.tx = "none"
          /\ SameControl(port, q) /\ SameService(port, q)
      BY <1>1 DEF Ports, SameControl, SameService
    <2> HIDE DEF q
    <2>3. Framed(q)
      BY <2>2, SameFramed
    <2> QED
      BY <2>1, <2>2, <2>3 DEF Passes
  <1>6. ASSUME NEW d \in Pluggable, Plug(d)
        PROVE  Passes
    <2> DEFINE q == [port EXCEPT !.owed = <<>>, !.tx = "none"]
    <2>1. port' = q
      BY <1>6, Zenon DEF Plug
    <2>2. /\ q.rx = port.rx /\ q.fifo = port.fifo /\ q.owed = <<>>
          /\ q.rx_od_expected = port.rx_od_expected /\ q.tx = "none"
          /\ SameControl(port, q) /\ SameService(port, q)
      BY <1>1 DEF Ports, SameControl, SameService
    <2> HIDE DEF q
    <2>3. Plain(q) /\ (port.state = "STARTUP" => StartupFramed(q))
      BY <2>2 DEF Framed, Plain, EventActive, StartupFramed, Owes, SameControl,
                  SameService
    <2>4. port.state = "PREOPERATE" => PreoperateFramed(q)
      BY <2>2 DEF Framed, PreoperateFramed, Owes, SameControl, SameService,
                  IsduSending
    <2>5. port.state = "OPERATE" => OperateFramed(q)
      BY <2>2 DEF Framed, OperateFramed, Owes, SameControl
    <2>6. Framed(q)
      BY <2>2, <2>3, <2>4, <2>5 DEF Framed, SameControl
    <2> QED
      BY <2>1, <2>2, <2>6 DEF Passes
  <1>7. ASSUME NEW cks \in CksOctets, Answer(cks)
        PROVE  Passes
    BY <1>7, AnswerFramed DEF EInv, Passes
  <1>8. /\ \A c : ~Restart(c)
        /\ \A e, c : ~TickEvent(e, c)
        /\ \A phase : ~StartEvent(phase)
        /\ ~CollectEvent /\ ~AnswerGarbled /\ ~AnswerTruncated
    BY DEF CleanLine, Restart, TickEvent, StartEvent, CollectEvent, Serviceable,
           AnswerGarbled, AnswerTruncated
  <1> QED
    BY <1>2, <1>3, <1>4, <1>5, <1>6, <1>7, <1>8 DEF Next

\* A framed port stays framed.
LEMMA FramedHolds ==
    ASSUME CleanLine
    PROVE  EInv /\ Framed(port) /\ [Next]_vars => Framed(port')
  <1>1. SUFFICES ASSUME EInv, Framed(port), [Next]_vars
                 PROVE  Framed(port')
    OBVIOUS
  <1>2. CASE UNCHANGED vars
    BY <1>1, <1>2 DEF vars
  <1>3. CASE Next
    BY <1>1, <1>3, FramedSteps DEF Ticked, Passes
  <1> QED
    BY <1>1, <1>2, <1>3

-----------------------------------------------------------------------------
(* What the observer sees of a framed port.                                *)

\* The port is framed.
LineFramed == EInv /\ Framed(port)

\* The observer counts what the port counts: nothing is unanswered when a reply
\* waits, and otherwise as many cyclic requests as the port has retried or
\* still waits for.
Counted ==
    /\ port.state # "ERROR" /\ port.fifo # <<>> => unanswered = 0
    /\ port.state = "PREOPERATE" => unanswered = 0
    /\ port.state = "OPERATE" /\ port.fifo = <<>> => unanswered = Count(port)

\* The time observed and the time still to wait make up the delay of the next
\* wake-up, once there was one.
Held ==
    /\ quiet \in Nat
    /\ port.state = "STARTUP" /\ port.step \in WakingSteps /\ ~fresh
          => quiet + port.send_gate >= Gate(port.step)

\* With no restart, every step is watched.
LEMMA AllWatched ==
    ASSUME CleanLine, HNext
    PROVE  Next /\ Observe /\ fresh' = (fresh /\ port'.tx # "wake")
  <1>1. \A c : ~Restart(c)
    BY DEF CleanLine, Restart
  <1> QED
    BY <1>1 DEF HNext

\* A framed port stays framed under observation.
LEMMA HSpecFramed ==
    ASSUME CleanLine
    PROVE  /\ HInit => LineFramed
           /\ LineFramed /\ [HNext]_hvars => LineFramed'
  <1>1. ASSUME HInit PROVE LineFramed
    BY <1>1, ObserverWatches, EInvHolds, InitFramed DEF LineFramed
  <1>2. ASSUME LineFramed, [HNext]_hvars PROVE LineFramed'
    <2>1. [Next]_vars /\ EInv /\ Framed(port)
      BY <1>2, ObserverWatches DEF LineFramed
    <2>2. EInv' /\ Framed(port')
      BY <2>1, EInvHolds, FramedHolds
    <2> QED
      BY <2>2 DEF LineFramed
  <1> QED
    BY <1>1, <1>2

\* The counts of a framed port and its observer stay in step.
LEMMA StepCounted ==
    ASSUME CleanLine, LineFramed, Counted, [HNext]_hvars
    PROVE  Counted'
  <1>1. CASE UNCHANGED hvars
    BY <1>1 DEF hvars, vars, Counted, Count
  <1>2. CASE HNext
    <2>1. Next /\ Observe /\ EInv /\ Framed(port)
      BY <1>2, AllWatched DEF LineFramed
    <2>2. unanswered' =
             IF port'.tx = "cyclic"
             THEN Upto(IF port.state = "OPERATE" THEN unanswered ELSE 0,
                       RxRetryLimit + 2)
             ELSE IF \E cks \in CksOctets : Answer(cks) THEN 0
             ELSE unanswered
      BY <2>1, Zenon DEF Observe
    <2>3. Ticked(port, port') \/ Passes
      BY <2>1, FramedSteps
    <2>4. port.rx_retry_count \in 0..2 /\ port.awaiting_response \in BOOLEAN
      BY <2>1, FieldTypes DEF EInv, Inv
    <2>5. Count(port) \in 0..3
      BY <2>4 DEF Count
    <2>6. CASE \E cks \in CksOctets : Answer(cks)
      <3>1. port'.fifo # <<>> /\ port'.tx = "none"
        BY <2>1, <2>6, AnswerFramed DEF EInv
      <3>2. unanswered' = 0
        BY <2>2, <2>6, <3>1
      <3> QED
        BY <3>1, <3>2 DEF Counted
    <2>7. CASE Passes /\ ~\E cks \in CksOctets : Answer(cks)
      <3>1. /\ port'.tx = "none" /\ port'.fifo = port.fifo
            /\ SameControl(port, port')
        BY <2>7 DEF Passes
      <3>2. unanswered' = unanswered
        BY <2>2, <2>7, <3>1
      <3>3. Count(port') = Count(port)
        BY <3>1 DEF SameControl, Count
      <3> QED
        BY <3>1, <3>2, <3>3 DEF SameControl, Counted
    <2>8. CASE /\ Ticked(port, port') /\ port'.tx = "cyclic"
      <3>1. /\ port'.state = "OPERATE" /\ port'.fifo = <<>>
            /\ port.state \in {"PREOPERATE", "OPERATE"}
            /\ Count(port') = Counting(port) + 1
        BY <2>8 DEF Ticked
      <3>2. (IF port.state = "OPERATE" THEN unanswered ELSE 0) = Counting(port)
        BY <3>1 DEF Counted, Counting
      <3>3. Counting(port) \in 0..3
        BY <2>5 DEF Counting
      <3>4. unanswered' = Upto(Counting(port), 4)
        BY <2>2, <2>8, <3>2 DEF RxRetryLimit
      <3>5. unanswered' = Count(port')
        BY <3>1, <3>3, <3>4 DEF Upto
      <3> QED
        BY <3>1, <3>5 DEF Counted
    <2>9. CASE /\ Ticked(port, port') /\ port'.tx # "cyclic"
               /\ ~\E cks \in CksOctets : Answer(cks)
      <3>1. unanswered' = unanswered
        BY <2>2, <2>9
      <3>2. port'.state = "OPERATE" =>
               /\ port.state \in {"PREOPERATE", "OPERATE"}
               /\ Count(port') = Counting(port)
        BY <2>5, <2>9 DEF Ticked, Counting
      <3>3. port'.state = "OPERATE" => unanswered' = Count(port')
        BY <3>1, <3>2 DEF Counted, Counting
      <3>4. port'.state # "ERROR" /\ port'.fifo # <<>> => unanswered' = 0
        BY <2>9, <3>1 DEF Ticked, Counted
      <3>5. port'.state = "PREOPERATE" => unanswered' = 0
        BY <2>9, <3>1 DEF Ticked, Counted
      <3> QED
        BY <3>3, <3>4, <3>5 DEF Counted
    <2> QED
      BY <2>3, <2>6, <2>7, <2>8, <2>9
  <1> QED
    BY <1>1, <1>2

\* Port and observer count alike throughout.
LEMMA CountedHolds ==
    ASSUME CleanLine
    PROVE  /\ HInit => LineFramed /\ Counted
           /\ LineFramed /\ Counted /\ [HNext]_hvars => LineFramed' /\ Counted'
  <1>1. ASSUME HInit PROVE LineFramed /\ Counted
    <2>1. LineFramed /\ port.fifo = <<>> /\ unanswered = 0
      BY <1>1, HSpecFramed, InitFramed DEF HInit
    <2>2. PICK c \in Choices : Fresh(port, c)
      BY <1>1, InitFresh DEF HInit
    <2> QED
      BY <2>1, <2>2 DEF Fresh, Counted
  <1>2. ASSUME LineFramed, Counted, [HNext]_hvars PROVE LineFramed' /\ Counted'
    BY <1>2, HSpecFramed, StepCounted
  <1> QED
    BY <1>1, <1>2

\* The delay of the next wake-up is kept.
LEMMA StepHeld ==
    ASSUME CleanLine, LineFramed, LineFramed', Held, [HNext]_hvars
    PROVE  Held'
  <1>1. CASE UNCHANGED hvars
    BY <1>1 DEF hvars, vars, Held
  <1>2. CASE HNext
    <2>1. /\ Next /\ Observe /\ EInv /\ Framed(port)
          /\ fresh' = (fresh /\ port'.tx # "wake")
      BY <1>2, AllWatched DEF LineFramed
    <2>2. /\ port.send_gate \in Nat /\ port'.send_gate \in Nat
          /\ quiet \in Nat /\ HoldOff \in Nat
          /\ {TDmt, TRen, TDwu, TSd} \subseteq Nat
      BY FieldTypes, TimesAssumption DEF LineFramed, EInv, Inv, Held, HoldOff
    <2>3. quiet' = IF Moved THEN 0
                   ELSE IF Elapse THEN Upto(quiet, HoldOff) ELSE quiet
      BY <2>1, Zenon DEF Observe
    <2>4. Upto(quiet, HoldOff) \in Nat /\ Upto(quiet, HoldOff) >= quiet
      BY <2>2 DEF Upto
    <2>5. quiet' \in Nat /\ (~Moved => quiet' >= quiet)
      BY <2>2, <2>3, <2>4
    <2>6. SUFFICES ASSUME port'.state = "STARTUP", port'.step \in WakingSteps,
                          ~fresh'
                   PROVE  quiet' + port'.send_gate >= Gate(port'.step)
      BY <2>5 DEF Held
    <2>7. \/ Rests(port, port')
          \/ Elapses(port, port') /\ Elapse
          \/ \E c \in Choices : Moves(port, port', c)
      <3>1. \A c : ~Restart(c)
        BY DEF CleanLine, Restart
      <3> QED
        BY <2>1, <3>1, NextSteps DEF PortSteps
    <2>8. port'.tx # "wake" /\ ~fresh
      <3>1. port'.tx # "wake"
        BY <2>6, <2>7
        DEF Rests, Elapses, Moves, Talks, Answers, Loses, Fails, Wakes, Tests,
            Slows, Retries, Pauses, Silent, WakingSteps
      <3> QED
        BY <2>1, <2>6, <3>1
    <2>9. Gate(port'.step) \in Nat /\ Gate(port'.step) <= HoldOff
      BY <2>2 DEF Gate, HoldOff
    <2>10. CASE port'.state = port.state /\ port'.step = port.step
      <3>1. quiet + port.send_gate >= Gate(port'.step)
        BY <2>6, <2>8, <2>10 DEF Held
      <3>2. CASE Rests(port, port')
        <4>1. ~Moved /\ port'.send_gate = port.send_gate
          BY <3>2 DEF Rests, Moved
        <4> QED
          BY <2>2, <2>5, <2>9, <3>1, <4>1
      <3>3. CASE Elapses(port, port') /\ Elapse
        <4>1. ~Moved /\ port'.send_gate = Less(port.send_gate)
          BY <3>3 DEF Elapses, Moved
        <4>2. quiet' = Upto(quiet, HoldOff)
          BY <2>3, <3>3, <4>1
        <4>3. quiet' = quiet + 1 \/ (quiet' = quiet /\ quiet >= HoldOff)
          BY <2>2, <4>2 DEF Upto
        <4>4. port'.send_gate >= port.send_gate - 1
          BY <2>2, <4>1 DEF Less
        <4> QED
          BY <2>2, <2>5, <2>9, <3>1, <4>3, <4>4
      <3>4. CASE \E c \in Choices : Moves(port, port', c)
        <4>1. Rests(port, port')
          BY <2>6, <2>8, <2>10, <3>4
          DEF CleanLine, Moves, Talks, Answers, Loses, Fails, Wakes, Tests,
              Slows, Retries, Pauses, Failing, Com, WakingSteps
        <4> QED
          BY <3>2, <4>1
      <3> QED
        BY <2>7, <3>2, <3>3, <3>4
    <2>11. CASE port'.send_gate = Gate(port'.step)
      BY <2>2, <2>5, <2>9, <2>11
    <2> QED
      BY <2>1, <2>6, <2>10, <2>11, FramedSteps DEF Ticked, Passes, SameControl
  <1> QED
    BY <1>1, <1>2

\* On a clean line a reply is never split or joined with the next: the first
\* octet still to be completed is never a CKS.  This is so whatever the order
\* of ticks, replies, losses, late replies, unplugged and swapped devices, and
\* refusing PHYs; it fails when the port is initialised again while a reply to
\* the DeviceOperate write is on its way (poll_rx, read_expected_rx_frame).
THEOREM FramesWhole ==
    ASSUME CleanLine
    PROVE  Spec => []RepliesFramed
  <1>1. Init => LineFramed
    BY EInvHolds, InitFramed DEF LineFramed
  <1>2. LineFramed /\ [Next]_vars => LineFramed'
    <2>1. SUFFICES ASSUME LineFramed, [Next]_vars PROVE LineFramed'
      OBVIOUS
    <2>2. EInv' /\ Framed(port')
      BY <2>1, EInvHolds, FramedHolds DEF LineFramed
    <2> QED
      BY <2>2 DEF LineFramed
  <1>3. LineFramed => RepliesFramed
    BY DEF LineFramed, Framed, Plain, RepliesFramed
  <1> QED
    BY <1>1, <1>2, <1>3, PTL DEF Spec

\* On a clean line the port in OPERATE never sends a cyclic request beyond the
\* retries of one that nobody has answered, whichever of its requests were
\* lost and whichever replies came late (on_timeout_at, on_rx).
THEOREM LossesNoticed ==
    ASSUME CleanLine
    PROVE  HSpec => []LossNoticed
  <1>1. HInit => LineFramed /\ Counted
    BY CountedHolds
  <1>2. LineFramed /\ Counted /\ [HNext]_hvars => LineFramed' /\ Counted'
    BY CountedHolds
  <1>3. LineFramed /\ Counted => LossNoticed
    <2>1. SUFFICES ASSUME LineFramed, Counted, port.state = "OPERATE"
                   PROVE  unanswered <= RxRetryLimit + 1
      BY DEF LossNoticed
    <2>2. port.rx_retry_count \in 0..2 /\ port.awaiting_response \in BOOLEAN
      BY <2>1, FieldTypes DEF LineFramed, EInv, Inv
    <2>3. Count(port) \in 0..3
      BY <2>2 DEF Count
    <2> QED
      BY <2>1, <2>3 DEF Counted, RxRetryLimit
  <1> QED
    BY <1>1, <1>2, <1>3, PTL DEF HSpec

\* On a clean line the port gives up communication in OPERATE only after a
\* request and both of its retries went unanswered: a late, an unexpected or a
\* left-over reply never costs a retry (on_timeout_at, on_rx).
THEOREM LossesTolerated ==
    ASSUME CleanLine
    PROVE  HSpec => LossTolerance
  <1>1. HInit => LineFramed /\ Counted
    BY CountedHolds
  <1>2. LineFramed /\ Counted /\ [HNext]_hvars => LineFramed' /\ Counted'
    BY CountedHolds
  <1>3. LineFramed /\ Counted /\ [HNext]_hvars
          => [port.state = "OPERATE" /\ port'.state = "STARTUP"
                => unanswered > RxRetryLimit
                   \/ (\E c \in Choices : Restart(c))]_hvars
    <2>1. SUFFICES ASSUME LineFramed, Counted, HNext,
                          port.state = "OPERATE", port'.state = "STARTUP"
                   PROVE  unanswered > RxRetryLimit
      OBVIOUS
    <2>2. Ticked(port, port') \/ Passes
      BY <2>1, AllWatched, FramedSteps DEF LineFramed
    <2>3. port.fifo = <<>> /\ Count(port) = RxRetryLimit + 1
      BY <2>1, <2>2 DEF Ticked, Passes, SameControl
    <2> QED
      BY <2>1, <2>3 DEF Counted, RxRetryLimit
  <1> QED
    BY <1>1, <1>2, <1>3, PTL DEF HSpec, LossTolerance

\* Every wake-up of a port after its first keeps T_DWU from the attempt that
\* failed or the connection that was lost, T_SD from the sequence given up, on
\* a line that garbles nothing: the restart after a checksum error arms no gate
\* (on_rx, restart_establish, establish_attempt_failed).
THEOREM WakesHeldOff ==
    ASSUME CleanLine
    PROVE  HSpec => WakeHoldOff
  <1>1. HInit => LineFramed /\ Held
    BY HSpecFramed DEF HInit, Held
  <1>2. LineFramed /\ Held /\ [HNext]_hvars => LineFramed' /\ Held'
    BY HSpecFramed, StepHeld
  <1>3. LineFramed /\ Held /\ [HNext]_hvars
          => [port'.tx = "wake" /\ ~fresh
                => quiet >= (IF port.step = "INACTIVE" THEN TSd
                             ELSE TDwu)]_hvars
    <2>1. SUFFICES ASSUME LineFramed, Held, HNext, port'.tx = "wake", ~fresh
                   PROVE  quiet >= Gate(port.step)
      BY DEF Gate
    <2>2. Next /\ EInv /\ Framed(port)
      BY <2>1, AllWatched DEF LineFramed
    <2>3. Wakes(port, port')
      <3>1. Observed
        BY <2>1, <2>2, ObserverWatches
      <3> QED
        BY <2>1, <3>1
        DEF Observed, Moves, Rests, Elapses, Fresh, Talks, Answers, Loses,
            Fails, Tests, Slows, Retries, Pauses, Silent
    <2>4. port.send_gate = 0
      BY <2>1, <2>2, FramedSteps DEF Ticked, Passes
    <2>5. quiet \in Nat /\ quiet + port.send_gate >= Gate(port.step)
      BY <2>1, <2>3 DEF Held, Wakes
    <2> QED
      BY <2>4, <2>5
  <1> QED
    BY <1>1, <1>2, <1>3, PTL DEF HSpec, WakeHoldOff

=============================================================================
