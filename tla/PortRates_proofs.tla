-------------------------- MODULE PortRates_proofs --------------------------
(***************************************************************************)
(* A port that scans for the rate of its device settles on the rate the     *)
(* device talks at: no octet of an earlier attempt, an earlier rate or an   *)
(* earlier connection is taken for the answer to a test message, whatever   *)
(* is lost, late, garbled, truncated or refused by the PHY, and however     *)
(* often the port is initialised again.                                     *)
(*                                                                          *)
(* The inductive invariant Rated says where octets of the On-request Data   *)
(* of a device can be in the receive path, and that they are so few that    *)
(* they are gone before three checksum errors change the rate under them.   *)
(***************************************************************************)
EXTENDS PortExchange_proofs

\* A port with process data, one reply outstanding at a time, and no acyclic
\* services.
ProcessDataOnly ==
    /\ ~Type0 /\ ~Validate /\ MaxOwed = 1
    /\ AppCalls \cap {"isdu", "event"} = {}

\* What was received and not yet decoded.
Buffer(p) == p.rx \o p.fifo

\* How many octets are on their way, and whether they answer a test message.
Owing(p) == IF p.owed = <<>> THEN 0 ELSE Len(p.owed[1])
TestOwed(p) == p.owed # <<>> /\ p.owed[1] = <<"od", "cks">>

\* No service runs, and no reply but these is on its way.
Replies == {<<"od", "cks">>, <<"pd", "cks">>, <<"cks">>}
Unserved(p) ==
    /\ p.isdu_phase = "none" /\ p.isdu_pending = "none" /\ ~EventActive(p)
    /\ Owes(p, Replies)

\* On-request Data comes from a device that talks at the rate of the scan.  Once
\* the port talks, such octets are among the first in the receive path, more so
\* with every checksum error.
Tuned(p) ==
    \A i \in 1..Len(Buffer(p)) :
        /\ Buffer(p)[i] # "idle"
        /\ Buffer(p)[i] \in DevIds =>
              /\ DevRate[Buffer(p)[i]] = ScanRate(p)
              /\ Com(p) => i + p.rx_retry_count <= RxRetryLimit

\* The most octets there can be in the receive path and on their way.
Room(p) ==
    IF Com(p) THEN 3 ELSE IF p.step = "AWAIT_RESPONSE" THEN 4 ELSE 2

\* The DeviceOperate write was sent, or has been acknowledged.
Operating(p) ==
    \/ p.state = "OPERATE"
    \/ p.state = "PREOPERATE" /\ p.step = "AWAIT_OPERATE_ACK"

\* An answer to the test message that was not needed any more.
Belated(p) ==
    /\ p.state = "PREOPERATE" /\ p.step = "AWAIT_RESPONSE"
    /\ p.rx = <<>> /\ p.fifo = <<>> /\ p.rx_retry_count = 0

Loaded(p) ==
    /\ Tuned(p)
    /\ Len(Buffer(p)) + Owing(p) <= Room(p) /\ Len(p.rx) <= 1
    /\ Com(p) /\ TestOwed(p) => Belated(p)
    /\ Operating(p) => ~p.rx_od_expected

\* The inductive invariant.
Rated(p) == Unserved(p) /\ (p.state # "ERROR" => Loaded(p))

-----------------------------------------------------------------------------
(* Lemmas about the receive path.                                          *)

LEMMA BufferTypes ==
    ASSUME NEW p \in Ports
    PROVE  /\ p.rx \in Seq(Octets) /\ p.fifo \in Seq(Octets)
           /\ Len(p.rx) \in Nat /\ Len(p.fifo) \in Nat
           /\ Buffer(p) \in Seq(Octets)
           /\ Len(Buffer(p)) = Len(p.rx) + Len(p.fifo)
           /\ Len(Buffer(p)) \in Nat
           /\ p.rx = <<>> => Buffer(p) = p.fifo
           /\ p.fifo = <<>> => Buffer(p) = p.rx
           /\ p.fifo # <<>> => Len(p.fifo) > 0
           /\ p.rx = <<>> /\ p.fifo = <<>> => Len(Buffer(p)) = 0
  <1>1. p.rx \in Seq(Octets) /\ p.fifo \in Seq(Octets)
    BY DEF Ports
  <1>2. Len(p.rx) \in Nat /\ Len(p.fifo) \in Nat
    BY <1>1, LenProperties
  <1>3. Buffer(p) \in Seq(Octets) /\ Len(Buffer(p)) = Len(p.rx) + Len(p.fifo)
    BY <1>1, ConcatProperties DEF Buffer
  <1>4. p.rx = <<>> => Buffer(p) = p.fifo
    BY <1>1, ConcatEmptySeq DEF Buffer
  <1>5. p.fifo = <<>> => Buffer(p) = p.rx
    BY <1>1, ConcatEmptySeq DEF Buffer
  <1>6. p.fifo # <<>> => Len(p.fifo) > 0
    BY <1>1, <1>2, EmptySeq
  <1>7. p.rx = <<>> /\ p.fifo = <<>> => Len(Buffer(p)) = 0
    BY <1>3, EmptySeq
  <1>8. Len(Buffer(p)) \in Nat
    BY <1>3, LenProperties
  <1> HIDE DEF Buffer
  <1> QED
    BY <1>1, <1>2, <1>3, <1>4, <1>5, <1>6, <1>7, <1>8

LEMMA OwingTypes ==
    ASSUME NEW p, Unserved(p)
    PROVE  /\ Owing(p) \in 0..2
           /\ TestOwed(p) => Owing(p) = 2
           /\ p.owed # <<>> => Owing(p) > 0
  <1>1. \A shape \in Replies : Len(shape) \in 1..2
    BY DEF Replies
  <1>2. Len(<<"od", "cks">>) = 2
    OBVIOUS
  <1>3. p.owed = <<>> \/ p.owed[1] \in Replies
    BY DEF Unserved, Owes
  <1>4. p.owed # <<>> => Owing(p) \in 1..2
    BY <1>1, <1>3 DEF Owing
  <1>5. p.owed = <<>> => Owing(p) = 0
    BY DEF Owing
  <1>6. TestOwed(p) => Owing(p) = 2
    BY <1>2 DEF Owing, TestOwed
  <1> QED
    BY <1>4, <1>5, <1>6

\* A call that leaves the services alone and forgets at most what is owed.
LEMMA StaysUnserved ==
    ASSUME NEW p, NEW q, Unserved(p), SameService(p, q),
           q.owed \in {p.owed, <<>>}
    PROVE  /\ Unserved(q) /\ Owing(q) \in {Owing(p), 0}
           /\ TestOwed(q) => TestOwed(p)
BY DEF Unserved, SameService, EventActive, Owes, Owing, TestOwed

\* An empty receive path holds nothing that could mislead the port.
LEMMA EmptiedRated ==
    ASSUME NEW q \in Ports, Unserved(q), q.rx = <<>>, q.fifo = <<>>,
           Com(q) /\ TestOwed(q) => Belated(q),
           Operating(q) => ~q.rx_od_expected
    PROVE  Rated(q)
  <1>1. Len(Buffer(q)) = 0 /\ Len(q.rx) = 0
    BY BufferTypes, EmptySeq
  <1>2. Owing(q) \in 0..2
    BY OwingTypes
  <1>3. Room(q) \in 2..4
    BY DEF Room
  <1>4. Tuned(q)
    BY <1>1 DEF Tuned
  <1> QED
    BY <1>1, <1>2, <1>3, <1>4 DEF Rated, Loaded

\* Nothing of all this is about other fields.
LEMMA SameRated ==
    ASSUME NEW p \in Ports, NEW q, Rated(p), SameService(p, q),
           q.rx = p.rx, q.fifo = p.fifo, q.owed \in {p.owed, <<>>},
           q.state = p.state, q.step = p.step,
           q.baudrate_index = p.baudrate_index,
           q.rx_retry_count = p.rx_retry_count,
           q.rx_od_expected = p.rx_od_expected
    PROVE  Rated(q)
  <1>1. /\ Unserved(q) /\ Owing(q) \in {Owing(p), 0}
        /\ TestOwed(q) => TestOwed(p)
    BY StaysUnserved DEF Rated
  <1>2. /\ Buffer(q) = Buffer(p) /\ ScanRate(q) = ScanRate(p)
        /\ Com(q) <=> Com(p)
        /\ Room(q) = Room(p) /\ (Operating(q) <=> Operating(p))
        /\ Belated(p) => Belated(q)
    BY DEF Buffer, ScanRate, Com, Room, Operating, Belated
  <1>3. Tuned(p) => Tuned(q)
    BY <1>2 DEF Tuned
  <1>4. Owing(p) \in 0..2 /\ Len(Buffer(p)) \in Nat /\ Room(p) \in Nat
    BY OwingTypes, BufferTypes DEF Rated, Room
  <1>5. /\ Len(Buffer(p)) + Owing(p) <= Room(p)
             => Len(Buffer(q)) + Owing(q) <= Room(q)
    BY <1>1, <1>2, <1>4
  <1> QED
    BY <1>1, <1>2, <1>3, <1>5 DEF Rated, Loaded

-----------------------------------------------------------------------------
(* Polling.                                                                *)

\* A reply that is taken leaves the scan where it is (on_rx).
LEMMA OnRxScan ==
    ASSUME NEW p \in Good, Polled(p), NEW f, Accepts(p, f), NEW c
    PROVE  OnRx(p, f, c).baudrate_index = p.baudrate_index
  <1> DEFINE t == ReplyTaken(p)
  <1>1. p \in Ports /\ t \in Good /\ t \in Ports /\ SameLink(p, t)
    BY ReplyTakenKept DEF Kept, Good
  <1>2. CASE p.state = "STARTUP"
    <2>1. OnRx(p, f, c) = [t EXCEPT !.wake_attempts = 0, !.state = "PREOPERATE"]
      BY <1>2 DEF OnRx, OnRxStartup
    <2> HIDE DEF t
    <2>2. [t EXCEPT !.wake_attempts = 0, !.state = "PREOPERATE"].baudrate_index
             = t.baudrate_index
      BY <1>1 DEF Ports
    <2> QED
      BY <1>1, <2>1, <2>2 DEF SameLink
  <1>3. CASE p.state = "OPERATE" /\ ~Type0
    <2>1. p.rx_od_expected => f[1] \in OdOctets
      BY <1>3, FirstOctet DEF ExpectedReply, TypedReply
    <2>2. OnRx(p, f, c) = OnRxTyped(p, f, c)
      BY <1>3 DEF OnRx
    <2> QED
      BY <2>1, <2>2, OnRxTypedKept DEF Kept, SameLink
  <1>4. CASE p.state = "PREOPERATE" /\ p.step = "AWAIT_OPERATE_ACK"
    <2> DEFINE b == (f[1] = "cks_event")
    <2>1. OnRx(p, f, c) = [t EXCEPT !.event_pending = b, !.state = "OPERATE"]
      BY <1>4 DEF OnRx, OnRxOperateAck
    <2> HIDE DEF t, b
    <2>2. [t EXCEPT !.event_pending = b, !.state = "OPERATE"].baudrate_index
             = t.baudrate_index
      BY <1>1 DEF Ports
    <2> QED
      BY <1>1, <2>1, <2>2 DEF SameLink
  <1>5. CASE \/ p.state = "OPERATE" /\ Type0
             \/ p.state = "PREOPERATE" /\ p.step # "AWAIT_OPERATE_ACK"
    <2>1. f[1] \in OdOctets
      BY <1>5, FirstOctet DEF ExpectedReply
    <2>2. OnRx(p, f, c) = RouteOd(t, f[1], c)
      BY <1>5 DEF OnRx
    <2> HIDE DEF t
    <2>3. SameLink(t, RouteOd(t, f[1], c))
      BY <1>1, <2>1, RouteOdKept DEF Kept
    <2> QED
      BY <1>1, <2>2, <2>3 DEF SameLink
  <1> QED
    BY <1>2, <1>3, <1>4, <1>5 DEF Polled

\* What is left of the receive path once a frame of k octets is taken out.
Rest(p, y, k) ==
    /\ y.rx = <<>> /\ y.owed = p.owed /\ y.state = p.state /\ y.step = p.step
    /\ y.rx_od_expected = p.rx_od_expected
    /\ y.baudrate_index = p.baudrate_index
    /\ y.rx_retry_count = p.rx_retry_count
    /\ SameService(p, y)
    /\ Len(Buffer(y)) = Len(Buffer(p)) - k
    /\ \A i \in 1..Len(Buffer(y)) : Buffer(y)[i] = Buffer(p)[i + k]

LEMMA ConsumedRest ==
    ASSUME NEW p \in Good, NEW k \in Nat, k > 0, k <= Len(Buffer(p))
    PROVE  LET y == Consumed(p, k)
           IN  y \in Good /\ Rest(p, y, k)
  <1> DEFINE buf == p.rx \o p.fifo
             rest == SubSeq(buf, k + 1, Len(buf))
             y == [p EXCEPT !.rx = <<>>, !.fifo = rest]
  <1>1. Consumed(p, k) = y /\ y \in Good
    BY ConsumedKept DEF Consumed, Kept
  <1>2. p \in Ports
    BY DEF Good
  <1>3. buf \in Seq(Octets) /\ Len(buf) \in Nat /\ buf = Buffer(p)
    BY <1>2, BufferTypes DEF Buffer
  <1> HIDE DEF buf
  <1>4. k + 1 \in Nat /\ k + 1 > 0 /\ Len(buf) >= k
    BY <1>3
  <1>5. \A i \in (k + 1)..Len(buf) : buf[i] \in Octets
    BY <1>3, <1>4, ElementOfSeq
  <1>6. /\ rest \in Seq(Octets) /\ Len(rest) = Len(buf) - k
        /\ \A i \in 1..Len(rest) : rest[i] = buf[i + k]
    <2>1. /\ SubSeq(buf, k + 1, Len(buf)) \in Seq(Octets)
          /\ Len(SubSeq(buf, k + 1, Len(buf)))
                = IF k + 1 <= Len(buf) THEN Len(buf) - (k + 1) + 1 ELSE 0
          /\ \A i \in 1..(Len(buf) - (k + 1) + 1) :
                SubSeq(buf, k + 1, Len(buf))[i] = buf[(k + 1) + i - 1]
      BY <1>3, <1>4, <1>5, SubSeqProperties
    <2>2. Len(rest) = Len(buf) - k
      BY <1>3, <1>4, <2>1
    <2>3. \A i \in 1..Len(rest) : rest[i] = buf[i + k]
      <3> SUFFICES ASSUME NEW i \in 1..Len(rest) PROVE rest[i] = buf[i + k]
        OBVIOUS
      <3>1. i \in 1..(Len(buf) - (k + 1) + 1) /\ (k + 1) + i - 1 = i + k
        BY <1>3, <2>2
      <3> QED
        BY <2>1, <3>1
    <2> QED
      BY <2>1, <2>2, <2>3
  <1> HIDE DEF rest
  <1>7. /\ y.rx = <<>> /\ y.fifo = rest /\ y.owed = p.owed
        /\ y.state = p.state /\ y.step = p.step
        /\ y.rx_od_expected = p.rx_od_expected
        /\ y.baudrate_index = p.baudrate_index
        /\ y.rx_retry_count = p.rx_retry_count
        /\ SameService(p, y)
    BY <1>2 DEF Ports, SameService
  <1> HIDE DEF y
  <1>8. Buffer(y) = rest
    BY <1>1, <1>7, BufferTypes DEF Good
  <1> QED
    BY <1>1, <1>3, <1>6, <1>7, <1>8 DEF Rest

\* The rest of a loaded receive path is no more loaded, and the octets of a
\* device have moved to the front.
LEMMA RestTuned ==
    ASSUME NEW p \in Good, NEW y \in Good, NEW k \in 1..2, Rest(p, y, k),
           Tuned(p), k <= Len(Buffer(p))
    PROVE  \A i \in 1..Len(Buffer(y)) :
              /\ Buffer(y)[i] # "idle"
              /\ Buffer(y)[i] \in DevIds =>
                    /\ DevRate[Buffer(y)[i]] = ScanRate(p)
                    /\ Com(p) => i + k + p.rx_retry_count <= RxRetryLimit
  <1>1. Len(Buffer(p)) \in Nat /\ Len(Buffer(y)) = Len(Buffer(p)) - k
    BY BufferTypes DEF Good, Rest
  <1> SUFFICES ASSUME NEW i \in 1..Len(Buffer(y))
               PROVE  /\ Buffer(y)[i] # "idle"
                      /\ Buffer(y)[i] \in DevIds =>
                            /\ DevRate[Buffer(y)[i]] = ScanRate(p)
                            /\ Com(p) => i + k + p.rx_retry_count <= RxRetryLimit
    OBVIOUS
  <1>2. i + k \in 1..Len(Buffer(p))
    BY <1>1
  <1>3. Buffer(y)[i] = Buffer(p)[i + k]
    BY DEF Rest
  <1> QED
    BY <1>2, <1>3 DEF Tuned

\* Where a frame of k octets takes a port: it talks on, an answer is taken, or
\* dropped, the retries are spent, or the PHY fails.
Onward(p, q, k) ==
    \/ q.state = "ERROR"
    \/ /\ Com(p) /\ Com(q) /\ q.baudrate_index = p.baudrate_index
       /\ q.rx_retry_count \in {0, p.rx_retry_count, p.rx_retry_count + 1}
    \/ /\ p.state = "STARTUP" /\ q.state = "PREOPERATE" /\ k = 2
       /\ q.step = p.step /\ q.baudrate_index = p.baudrate_index
       /\ q.rx_retry_count = 0
    \/ /\ p.state = "STARTUP" /\ q.state = "STARTUP" /\ q.step = p.step
       /\ q.baudrate_index = p.baudrate_index
    \/ Com(p) /\ q.state = "STARTUP" /\ p.rx_retry_count = RxRetryLimit

\* The rest of the receive path is no more than the port has room for.
LEMMA RestRated ==
    ASSUME NEW p \in Good, NEW y \in Good, NEW q \in Good, NEW k \in 1..2,
           Rest(p, y, k), Rated(p), Polled(p), k <= Len(Buffer(p)),
           q.rx = <<>>, q.fifo = y.fifo, Unserved(q),
           q.owed \in {p.owed, <<>>},
           Onward(p, q, k),
           Operating(q) =>
              Operating(p) /\ q.rx_od_expected = p.rx_od_expected,
           Com(p) => p.fifo # <<>>
    PROVE  Rated(q)
  <1> SUFFICES ASSUME q.state # "ERROR" PROVE Loaded(q)
    BY DEF Rated
  <1>1. p \in Ports /\ q \in Ports /\ y \in Ports /\ y.rx = <<>>
    BY DEF Good, Rest
  <1>2. Loaded(p) /\ Unserved(p)
    BY DEF Rated, Polled
  <1>3. /\ Buffer(q) = Buffer(y) /\ Len(q.rx) = 0
        /\ Len(Buffer(p)) \in Nat /\ Len(Buffer(q)) = Len(Buffer(p)) - k
        /\ Len(Buffer(q)) \in Nat
    <2>1. Buffer(q) = q.fifo /\ Buffer(y) = y.fifo
      BY <1>1, BufferTypes
    <2>2. Len(q.rx) = 0
      BY EmptySeq
    <2>3. Len(Buffer(p)) \in Nat /\ Len(Buffer(q)) \in Nat
      BY <1>1, BufferTypes
    <2> QED
      BY <2>1, <2>2, <2>3 DEF Rest
  <1>4. /\ Owing(p) \in 0..2 /\ Owing(q) \in {Owing(p), 0}
        /\ TestOwed(q) => TestOwed(p) /\ Owing(p) = 2
    BY <1>2, OwingTypes DEF Owing, TestOwed
  <1>5. p.rx_retry_count \in 0..2 /\ RxRetryLimit = 2
    BY <1>1 DEF Ports, RxRetryLimit
  <1>11. /\ Com(q) /\ Com(p) => /\ q.baudrate_index = p.baudrate_index
                               /\ \/ q.rx_retry_count = 0
                                  \/ q.rx_retry_count = p.rx_retry_count
                                  \/ q.rx_retry_count = p.rx_retry_count + 1
         /\ Com(q) /\ ~Com(p) =>
               /\ q.baudrate_index = p.baudrate_index /\ k = 2
               /\ q.state = "PREOPERATE" /\ q.step = "AWAIT_RESPONSE"
               /\ q.rx_retry_count = 0
         /\ ~Com(q) /\ Com(p) => p.rx_retry_count = RxRetryLimit
         /\ ~Com(q) /\ ~Com(p) =>
               q.baudrate_index = p.baudrate_index /\ q.step = p.step
         /\ ~Com(p) => p.state = "STARTUP" /\ p.step = "AWAIT_RESPONSE"
    BY DEF Onward, Com, Polled
  <1>6. Tuned(q)
    <2> SUFFICES ASSUME NEW i \in 1..Len(Buffer(q))
                 PROVE  /\ Buffer(q)[i] # "idle"
                        /\ Buffer(q)[i] \in DevIds =>
                              /\ DevRate[Buffer(q)[i]] = ScanRate(q)
                              /\ Com(q) => i + q.rx_retry_count <= RxRetryLimit
      BY DEF Tuned
    <2>1. /\ Buffer(q)[i] # "idle"
          /\ Buffer(q)[i] \in DevIds =>
                /\ DevRate[Buffer(q)[i]] = ScanRate(p)
                /\ Com(p) => i + k + p.rx_retry_count <= RxRetryLimit
      BY <1>2, <1>3, RestTuned DEF Loaded
    <2>2. CASE Com(q) /\ Com(p)
      <3>1. ScanRate(q) = ScanRate(p)
        BY <1>11, <2>2 DEF ScanRate
      <3>2. q.rx_retry_count \in {0, p.rx_retry_count, p.rx_retry_count + 1}
        BY <1>11, <2>2
      <3> QED
        BY <1>3, <1>5, <2>1, <2>2, <3>1, <3>2
    <2>3. CASE Com(q) /\ ~Com(p)
      <3>1. ScanRate(q) = ScanRate(p) /\ k = 2 /\ q.rx_retry_count = 0
        BY <1>11, <2>3 DEF ScanRate
      <3>2. Len(Buffer(p)) + Owing(p) <= 4
        BY <1>11, <1>2, <2>3 DEF Loaded, Room
      <3>3. i <= 2
        BY <1>3, <1>4, <3>1, <3>2
      <3> QED
        BY <1>3, <1>5, <2>1, <3>1, <3>3
    <2>4. CASE ~Com(q)
      <3>1. CASE q.baudrate_index = p.baudrate_index
        <4>1. ScanRate(q) = ScanRate(p)
          BY <3>1 DEF ScanRate
        <4> QED
          BY <2>1, <2>4, <4>1
      <3>2. CASE Com(p) /\ p.rx_retry_count = RxRetryLimit
        <4>1. ~(i + k + p.rx_retry_count <= RxRetryLimit)
          BY <1>3, <1>5, <3>2
        <4> QED
          BY <2>1, <2>4, <3>2, <4>1
      <3> QED
        BY <1>11, <2>4, <3>1, <3>2
    <2> QED
      BY <2>2, <2>3, <2>4
  <1>7. Len(Buffer(q)) + Owing(q) <= Room(q)
    <2>1. Len(Buffer(p)) + Owing(p) <= Room(p)
      BY <1>2 DEF Loaded
    <2>2. CASE Com(q) /\ Com(p)
      BY <1>3, <1>4, <2>1, <2>2 DEF Room
    <2>3. CASE Com(q) /\ ~Com(p)
      <3>1. k = 2 /\ Room(p) = 4 /\ Room(q) = 3
        BY <1>11, <2>3 DEF Room
      <3> QED
        BY <1>3, <1>4, <2>1, <3>1
    <2>4. CASE ~Com(q) /\ Com(p)
      <3>1. Room(p) = 3 /\ Room(q) \in {2, 4}
        BY <2>4 DEF Room
      <3> QED
        BY <1>3, <1>4, <2>1, <3>1
    <2>5. CASE ~Com(q) /\ ~Com(p)
      <3>1. Room(p) = 4 /\ Room(q) = 4
        BY <1>11, <2>5 DEF Room
      <3> QED
        BY <1>3, <1>4, <2>1, <3>1
    <2> QED
      BY <2>2, <2>3, <2>4, <2>5
  <1>8. Com(q) /\ TestOwed(q) => Belated(q)
    <2> SUFFICES ASSUME Com(q), TestOwed(q) PROVE Belated(q)
      OBVIOUS
    <2>1. ~Com(p)
      <3>1. Com(p) => Belated(p)
        BY <1>2, <1>4 DEF Loaded
      <3> QED
        BY <3>1 DEF Belated
    <2>2. /\ k = 2 /\ Room(p) = 4 /\ q.state = "PREOPERATE"
          /\ q.step = "AWAIT_RESPONSE" /\ q.rx_retry_count = 0
      BY <1>11, <2>1 DEF Room
    <2>3. Len(Buffer(p)) + Owing(p) <= 4
      BY <1>2, <2>2 DEF Loaded
    <2>4. Len(Buffer(q)) = 0
      BY <1>3, <1>4, <2>2, <2>3
    <2>5. q.fifo = <<>>
      <3>1. q.fifo \in Seq(Octets) /\ Buffer(q) = q.fifo
        BY <1>1, BufferTypes
      <3> QED
        BY <2>4, <3>1, EmptySeq
    <2> QED
      BY <2>2, <2>5 DEF Belated
  <1>9. Operating(q) => ~q.rx_od_expected
    BY <1>2 DEF Loaded
  <1>10. Len(q.rx) <= 1
    BY <1>3
  <1> QED
    BY <1>6, <1>7, <1>8, <1>9, <1>10 DEF Loaded

\* A frame handed to on_rx, whatever becomes of it.
LEMMA OnRxRated ==
    ASSUME NEW p \in Good, Polled(p), Rated(p), p.fifo # <<>>,
           NEW k \in 1..2, k <= Len(Buffer(p)), p.state = "STARTUP" => k = 2,
           NEW y \in Good, Rest(p, y, k), NEW f, NEW c
    PROVE  Rated(OnRx(y, f, c))
  <1> DEFINE q == OnRx(y, f, c)
  <1>1. /\ y \in Ports /\ Polled(y) /\ Unserved(y) /\ Unserved(p)
        /\ y.rx = <<>> /\ y.owed = p.owed
    <2>1. Polled(y) /\ y.rx = <<>> /\ y.owed = p.owed
      BY DEF Rest, Polled
    <2>2. Unserved(p) /\ SameService(p, y)
      BY DEF Rated, Rest
    <2> QED
      BY <2>1, <2>2, StaysUnserved DEF Good
  <1>2. q \in Good
    BY <1>1, OnRxGood
  <1>3. CASE Accepts(y, f)
    <2>1. Replied(y, q) /\ q.baudrate_index = y.baudrate_index
      BY <1>1, <1>3, OnRxReplied, OnRxScan
    <2> HIDE DEF q
    <2>2. q.rx = <<>> /\ q.fifo = y.fifo /\ q.owed = p.owed
      BY <1>1, <2>1 DEF Replied, SameWire
    <2>3. Unserved(q)
      BY <1>1, <2>1, <2>2 DEF Unserved, Replied, Owes
    <2>4. Onward(p, q, k)
      BY <2>1 DEF Onward, Com, Polled, Rest, Replied, StateAfterReply
    <2>5. Operating(q) => Operating(p) /\ q.rx_od_expected = p.rx_od_expected
      BY <2>1 DEF Operating, Polled, Rest, Replied, StateAfterReply, SameWire
    <2>6. Rated(q)
      BY <1>2, <2>2, <2>3, <2>4, <2>5, RestRated
    <2> QED
      BY <2>6 DEF q
  <1>4. CASE q = y
    <2>1. Onward(p, y, k)
      BY DEF Onward, Com, Polled, Rest
    <2>2. Operating(y) => Operating(p) /\ y.rx_od_expected = p.rx_od_expected
      BY DEF Operating, Rest
    <2>3. Rated(y)
      BY <1>1, <2>1, <2>2, RestRated
    <2> QED
      BY <1>4, <2>3
  <1>5. CASE Com(y) /\ q = ChecksumError(y, c) /\ MoreRetries(y)
    <2> DEFINE n == y.rx_retry_count + 1
               t == [y EXCEPT !.rx_retry_count = n]
    <2>1. q = t
      BY <1>5 DEF ChecksumError
    <2>2. /\ t.rx = y.rx /\ t.fifo = y.fifo /\ t.owed = y.owed
          /\ t.state = y.state /\ t.step = y.step
          /\ t.baudrate_index = y.baudrate_index /\ t.rx_retry_count = n
          /\ t.rx_od_expected = y.rx_od_expected /\ SameService(y, t)
      BY <1>1 DEF Ports, SameService
    <2>3. t \in Good
      BY <1>2, <2>1
    <2> HIDE DEF t
    <2>4. Unserved(t)
      BY <1>1, <2>2, StaysUnserved
    <2>5. Onward(p, t, k)
      BY <1>5, <2>2 DEF Onward, Com, Rest
    <2>6. Operating(t) => Operating(p) /\ t.rx_od_expected = p.rx_od_expected
      BY <2>2 DEF Operating, Rest
    <2>7. t.rx = <<>> /\ t.fifo = y.fifo /\ t.owed \in {p.owed, <<>>}
      BY <1>1, <2>2
    <2>8. Rated(t)
      BY <2>3, <2>4, <2>5, <2>6, <2>7, RestRated
    <2> QED
      BY <2>1, <2>8
  <1>6. CASE Com(y) /\ q = ChecksumError(y, c) /\ ~MoreRetries(y)
    <2> DEFINE t == RestartEstablish(y, FALSE, c)
    <2>1. q = t /\ t \in Good
      BY <1>2, <1>6 DEF ChecksumError
    <2>2. /\ Idle(y, t)
          /\ t.state = "ERROR" \/ (t.state = "STARTUP" /\ t.step = "WAKE")
      BY <1>1, RestartEstablishGated
    <2> HIDE DEF t
    <2>3. /\ Unserved(t) /\ t.rx = <<>> /\ t.fifo = y.fifo
          /\ t.owed \in {p.owed, <<>>}
      BY <1>1, <2>2, StaysUnserved DEF Idle
    <2>4. p.rx_retry_count = RxRetryLimit
      BY <1>1, <1>6 DEF MoreRetries, Rest, Ports, RxRetryLimit
    <2>5. Onward(p, t, k) /\ ~Operating(t)
      BY <1>6, <2>2, <2>4 DEF Onward, Com, Rest, Operating
    <2>6. Rated(t)
      BY <2>1, <2>3, <2>5, RestRated
    <2> QED
      BY <2>1, <2>6
  <1>7. \/ Accepts(y, f) \/ q = y
        \/ Com(y) /\ q = ChecksumError(y, c)
    BY <1>1 DEF OnRx, Polled, Com
  <1> QED
    BY <1>3, <1>4, <1>5, <1>6, <1>7

\* The first octet received is On-request Data.
First(p) == Len(Buffer(p)) >= 1 /\ Buffer(p)[1] \in OdOctets

\* What a round, or a poll, from p makes of the octets: the port takes up
\* communication only with the first of them.
Heeds(p, r) ==
    p.state = "STARTUP" =>
        \/ First(p)
        \/ r.p.state = "ERROR"
        \/ r.p.state = "STARTUP" /\ (r.ok => Buffer(r.p) = Buffer(p))

\* A round of the poll that finds an octet (poll_rx).
LEMMA CollectRated ==
    ASSUME NEW p \in Good, Polled(p), Rated(p), p.fifo # <<>>,
           NEW n \in 1..2, p.state = "STARTUP" => n = 2, NEW c
    PROVE  LET r == Collect(p, FrameEnd(p, n), c)
           IN  /\ Rated(r.p) /\ Heeds(p, r)
               /\ r.ok /\ r.p.state = "STARTUP" => p.state = "STARTUP"
               /\ r.ok => \/ r.p.fifo = <<>>
                          \/ Len(Buffer(r.p)) < Len(Buffer(p))
  <1> DEFINE k == FrameEnd(p, n)
             r == Collect(p, k, c)
             z == [p EXCEPT !.rx = p.rx \o p.fifo, !.fifo = <<>>]
             y == Consumed(p, k)
             f == SubSeq(p.rx \o p.fifo, 1, k)
             q == OnRx(y, f, c)
  <1>1. /\ p \in Ports /\ Loaded(p) /\ Unserved(p) /\ Len(p.rx) <= 1
        /\ Len(p.rx) \in Nat /\ Len(Buffer(p)) \in Nat
        /\ Buffer(p) \in Seq(Octets)
    BY BufferTypes DEF Good, Rated, Loaded, Polled
  <1>2. k \in 1..2 /\ (p.state = "STARTUP" => k = 2)
    BY <1>1 DEF FrameEnd
  <1>3. /\ Len(Buffer(p)) < k => r = [ok |-> TRUE, p |-> z]
        /\ ~(Len(Buffer(p)) < k) => r = [ok |-> Accepts(y, f), p |-> q]
    BY DEF Collect, PolledFrame, Buffer
  <1> HIDE DEF k, r
  <1>4. CASE Len(Buffer(p)) < k
    <2>1. /\ z.rx = Buffer(p) /\ z.fifo = <<>> /\ z.owed = p.owed
          /\ z.state = p.state /\ z.step = p.step
          /\ z.baudrate_index = p.baudrate_index
          /\ z.rx_retry_count = p.rx_retry_count
          /\ z.rx_od_expected = p.rx_od_expected /\ SameService(p, z)
      BY <1>1 DEF Ports, SameService, Buffer
    <2>2. z \in Ports
      <3> DEFINE b == p.rx \o p.fifo
      <3>1. b \in Seq(Octets) /\ <<>> \in Seq(Octets)
        BY <1>1, EmptySeq DEF Buffer
      <3> HIDE DEF b
      <3>2. [p EXCEPT !.rx = b, !.fifo = <<>>] \in Ports
        BY <1>1, <3>1, ZenonT(40) DEF Ports
      <3> QED
        BY <3>2 DEF b
    <2>3. r.ok /\ r.p = z
      BY <1>3, <1>4
    <2> HIDE DEF z
    <2>4. Buffer(z) = Buffer(p)
      BY <2>1, <2>2, BufferTypes
    <2>5. Len(z.rx) <= 1
      BY <1>1, <1>2, <1>4, <2>1
    <2>6. Unserved(z) /\ Owing(z) = Owing(p) /\ (TestOwed(z) => TestOwed(p))
      BY <1>1, <2>1, StaysUnserved DEF Owing
    <2>7. Tuned(z)
      BY <1>1, <2>1, <2>4 DEF Loaded, Tuned, ScanRate, Com
    <2>8. /\ Len(Buffer(z)) + Owing(z) <= Room(z)
          /\ Operating(z) => ~z.rx_od_expected
      BY <1>1, <2>1, <2>4, <2>6 DEF Loaded, Room, Com, Operating
    <2>9. ~(Com(z) /\ TestOwed(z))
      <3>1. Com(p) /\ TestOwed(p) => p.fifo = <<>>
        BY <1>1 DEF Loaded, Belated
      <3> QED
        BY <2>1, <2>6, <3>1 DEF Com
    <2>10. Rated(z)
      BY <2>5, <2>6, <2>7, <2>8, <2>9 DEF Rated, Loaded
    <2> QED
      BY <2>1, <2>3, <2>4, <2>10 DEF Heeds, k, r
  <1>5. CASE ~(Len(Buffer(p)) < k)
    <2>1. k \in Nat /\ k > 0 /\ k <= Len(Buffer(p))
      BY <1>1, <1>2, <1>5
    <2>2. y \in Good /\ Rest(p, y, k)
      BY <2>1, ConsumedRest
    <2> HIDE DEF y
    <2>3. Polled(y)
      BY <2>2 DEF Rest, Polled
    <2>4. r.ok = Accepts(y, f) /\ r.p = q
      BY <1>3, <1>5
    <2>5. q \in Good /\ Rated(q)
      BY <1>2, <2>1, <2>2, <2>3, OnRxGood, OnRxRated
    <2>6. Accepts(y, f) => /\ Len(Buffer(q)) < Len(Buffer(p))
                           /\ q.state # "STARTUP"
      <3> SUFFICES ASSUME Accepts(y, f)
                   PROVE  /\ Len(Buffer(q)) < Len(Buffer(p))
                          /\ q.state # "STARTUP"
        OBVIOUS
      <3>1. Replied(y, q)
        BY <2>2, <2>3, OnRxReplied
      <3> HIDE DEF q
      <3>2. Buffer(q) = Buffer(y)
        BY <3>1 DEF Replied, SameWire, Buffer
      <3>3. Len(Buffer(y)) = Len(Buffer(p)) - k
        BY <2>2 DEF Rest
      <3>4. q.state # "STARTUP"
        BY <2>3, <3>1 DEF Replied, StateAfterReply, Polled
      <3> QED
        BY <1>1, <2>1, <3>2, <3>3, <3>4
    <2>7. p.state = "STARTUP" /\ Accepts(y, f) => First(p)
      <3> SUFFICES ASSUME p.state = "STARTUP", Accepts(y, f) PROVE First(p)
        OBVIOUS
      <3>1. ExpectedReply(y) = <<"od", "cks">>
        BY <2>2 DEF Rest, ExpectedReply
      <3>2. f[1] \in OdOctets
        BY <3>1, FirstOctet
      <3>3. f = SubSeq(Buffer(p), 1, k)
        BY DEF Buffer
      <3> HIDE DEF f
      <3>4. \A i \in 1..k : Buffer(p)[i] \in Octets
        BY <1>1, <2>1, ElementOfSeq
      <3>5. f[1] = Buffer(p)[1]
        BY <1>1, <2>1, <3>3, <3>4, SubSeqProperties
      <3> QED
        BY <1>1, <2>1, <3>2, <3>5 DEF First
    <2>8. p.state = "STARTUP" /\ ~Accepts(y, f) => q.state = "STARTUP"
      <3>1. y.state = p.state
        BY <2>2 DEF Rest
      <3> QED
        BY <3>1 DEF OnRx
    <2> HIDE DEF q
    <2>9. Heeds(p, r)
      BY <2>4, <2>7, <2>8 DEF Heeds
    <2> QED
      BY <2>4, <2>5, <2>6, <2>9 DEF k, r
  <1> QED
    BY <1>4, <1>5

\* A poll from p, on its way: m octets at most are still to be collected.
Underway(p, r, n, m) ==
    /\ r \in Polls /\ Rated(r.p) /\ Heeds(p, r)
    /\ r.ok /\ r.p.state = "STARTUP" => n = 2
    /\ r.ok => r.p.fifo = <<>> \/ Len(Buffer(r.p)) <= m

\* Every round takes the poll on.
LEMMA PollFrameRated ==
    ASSUME NEW p \in Good, NEW r, NEW n \in 1..2, NEW m \in Nat,
           Underway(p, r, n, m + 1), NEW c
    PROVE  Underway(p, PollFrame(r, n, c), n, m)
  <1> DEFINE s == Collect(r.p, FrameEnd(r.p, n), c)
  <1>1. /\ r \in Polls /\ r.p \in Good /\ r.p \in Ports
        /\ r.ok => Polled(r.p)
        /\ r.ok \in BOOLEAN
    BY DEF Underway, Polls, Good
  <1>2. CASE ~r.ok \/ r.p.fifo = <<>>
    <2>1. PollFrame(r, n, c) = r
      BY <1>2, PollOver
    <2> QED
      BY <1>1, <1>2, <2>1 DEF Underway
  <1>3. CASE r.ok /\ r.p.fifo # <<>>
    <2>1. PollFrame(r, n, c) = s
      BY <1>3 DEF PollFrame
    <2>2. PollFrame(r, n, c) \in Polls
      BY <1>1, PollFrameType
    <2>3. /\ Rated(s.p) /\ Heeds(r.p, s)
          /\ s.ok /\ s.p.state = "STARTUP" => r.p.state = "STARTUP"
          /\ s.ok => \/ s.p.fifo = <<>>
                     \/ Len(Buffer(s.p)) < Len(Buffer(r.p))
      BY <1>1, <1>3, CollectRated DEF Underway
    <2> HIDE DEF s
    <2>4. s \in Polls /\ s.p \in Ports
      BY <2>1, <2>2 DEF Polls, Good
    <2>5. Len(Buffer(s.p)) \in Nat /\ Len(Buffer(r.p)) \in Nat
      BY <1>1, <2>4, BufferTypes
    <2>6. Len(Buffer(r.p)) <= m + 1
      BY <1>3 DEF Underway
    <2>7. s.ok => s.p.fifo = <<>> \/ Len(Buffer(s.p)) <= m
      BY <2>3, <2>5, <2>6
    <2>8. Heeds(p, s)
      <3> SUFFICES ASSUME p.state = "STARTUP", ~First(p)
                   PROVE  \/ s.p.state = "ERROR"
                          \/ /\ s.p.state = "STARTUP"
                             /\ s.ok => Buffer(s.p) = Buffer(p)
        BY DEF Heeds
      <3>1. r.p.state = "STARTUP" /\ Buffer(r.p) = Buffer(p)
        BY <1>1, <1>3 DEF Underway, Heeds, Polled
      <3>2. ~First(r.p)
        BY <3>1 DEF First
      <3> QED
        BY <2>3, <3>1, <3>2 DEF Heeds
    <2>9. s.ok /\ s.p.state = "STARTUP" => n = 2
      BY <1>3, <2>3 DEF Underway
    <2> QED
      BY <2>1, <2>3, <2>4, <2>7, <2>8, <2>9 DEF Underway
  <1> QED
    BY <1>1, <1>2, <1>3

\* The poll of a rated port collects everything it can, and leaves a rated port
\* (poll_rx).
LEMMA PollRxRated ==
    ASSUME ~Type0, NEW p \in Good, Rated(p), NEW c
    PROVE  LET s == PollRx(p, c)
           IN  /\ Rated(s.p) /\ Heeds(p, s)
               /\ s.ok /\ Polled(s.p) => s.p.fifo = <<>>
  <1> DEFINE n == Len(ExpectedReply(p))
             r0 == [ok |-> TRUE, p |-> p]
             r1 == PollFrame(r0, n, c)
             r2 == PollFrame(r1, n, c)
             r3 == PollFrame(r2, n, c)
             r4 == PollFrame(r3, n, c)
             x == Error(r4.p)
             e == [x EXCEPT !.rx = <<>>]
  <1>1. PollRx(p, c) = IF ~Polled(p) THEN r0
                       ELSE IF r4.ok /\ c.fail = "recv_byte"
                       THEN [ok |-> FALSE, p |-> e]
                       ELSE r4
    BY DEF PollRx
  <1>2. r0.ok /\ r0.p = p /\ Heeds(p, r0)
    BY DEF Heeds
  <1>3. CASE ~Polled(p)
    BY <1>1, <1>2, <1>3
  <1>4. CASE Polled(p)
    <2>1. p \in Ports /\ Loaded(p) /\ Unserved(p)
      BY <1>4 DEF Good, Rated, Polled
    <2>2. n \in 1..2 /\ (p.state = "STARTUP" => n = 2)
      <3>1. p.state = "OPERATE" => ~p.rx_od_expected
        BY <2>1 DEF Loaded, Operating
      <3> QED
        BY <3>1 DEF ExpectedReply, TypedReply
    <2> HIDE DEF n
    <2>3. Len(Buffer(p)) <= 4
      <3>1. Len(Buffer(p)) \in Nat /\ Owing(p) \in 0..2 /\ Room(p) \in 2..4
        BY <2>1, BufferTypes, OwingTypes DEF Room
      <3>2. Len(Buffer(p)) + Owing(p) <= Room(p)
        BY <2>1 DEF Loaded
      <3> QED
        BY <3>1, <3>2
    <2>4. r0 \in Polls
      BY <1>4 DEF Polls
    <2> HIDE DEF r0
    <2>5. Underway(p, r0, n, 3 + 1)
      BY <1>2, <2>2, <2>3, <2>4 DEF Underway
    <2>6. Underway(p, r1, n, 2 + 1)
      <3>1. Underway(p, r1, n, 3)
        BY <2>2, <2>5, PollFrameRated
      <3> QED
        BY <3>1
    <2> HIDE DEF r1
    <2>7. Underway(p, r2, n, 1 + 1)
      <3>1. Underway(p, r2, n, 2)
        BY <2>2, <2>6, PollFrameRated
      <3> QED
        BY <3>1
    <2> HIDE DEF r2
    <2>8. Underway(p, r3, n, 0 + 1)
      <3>1. Underway(p, r3, n, 1)
        BY <2>2, <2>7, PollFrameRated
      <3> QED
        BY <3>1
    <2> HIDE DEF r3
    <2>9. Underway(p, r4, n, 0)
      BY <2>2, <2>8, PollFrameRated
    <2> HIDE DEF r4
    <2>10. r4.p \in Ports /\ Rated(r4.p) /\ Heeds(p, r4) /\ r4 \in Polls
      BY <2>9 DEF Underway, Polls, Good
    <2>11. r4.ok => r4.p.fifo = <<>>
      <3>1. /\ Len(Buffer(r4.p)) = Len(r4.p.rx) + Len(r4.p.fifo)
            /\ Len(r4.p.rx) \in Nat /\ Len(r4.p.fifo) \in Nat
            /\ r4.p.fifo # <<>> => Len(r4.p.fifo) > 0
        BY <2>10, BufferTypes
      <3>2. r4.ok => r4.p.fifo = <<>> \/ Len(Buffer(r4.p)) <= 0
        BY <2>9 DEF Underway
      <3> SUFFICES ASSUME r4.ok, r4.p.fifo # <<>> PROVE FALSE
        OBVIOUS
      <3>3. Len(r4.p.fifo) > 0 /\ Len(Buffer(r4.p)) <= 0
        BY <3>1, <3>2
      <3>4. \A a, b \in Nat : b > 0 => ~(a + b <= 0)
        OBVIOUS
      <3> QED
        BY <3>1, <3>3, <3>4
    <2>12. e.state = "ERROR" /\ SameService(r4.p, e) /\ e.owed = r4.p.owed
      BY <2>10 DEF Error, Ports, SameService
    <2> HIDE DEF e
    <2>13. Rated(e) /\ Heeds(p, [ok |-> FALSE, p |-> e])
      BY <2>10, <2>12, StaysUnserved DEF Rated, Heeds
    <2> QED
      BY <1>1, <1>4, <2>10, <2>11, <2>13
  <1> QED
    BY <1>3, <1>4

-----------------------------------------------------------------------------
(* Sending, and timeouts.                                                  *)

\* A rated port stays rated, and does not take up communication.
Keeps(p, q) == Rated(q) /\ (p.state = "STARTUP" => ~Com(q))

\* ERROR asks nothing of the receive path.
LEMMA ErrorRated ==
    ASSUME NEW p, NEW q, Unserved(q), q.state = "ERROR"
    PROVE  Keeps(p, q)
BY DEF Keeps, Rated, Com

\* A frame that calls for one of the replies (send_full).
LEMMA SendFullRated ==
    ASSUME MaxOwed = 1, NEW p \in Good, Unserved(p), NEW kind \in Kinds,
           NEW read \in BOOLEAN, NEW reply \in Replies, NEW c
    PROVE  LET q == SendFull(p, kind, read, reply, c)
           IN  /\ q \in Good /\ Unserved(q) /\ SameService(p, q)
               /\ q.rx = p.rx /\ q.fifo = p.fifo
               /\ q.baudrate_index = p.baudrate_index
               /\ q.rx_retry_count = p.rx_retry_count
               /\ \/ q.state = "ERROR"
                  \/ /\ q.state = p.state /\ q.step = p.step
                     /\ q.rx_od_expected = read /\ q.tx = kind
                     /\ q.owed # <<>> /\ q.owed[1] = reply
  <1> DEFINE o == Owe(p.owed, reply)
             s == [p EXCEPT !.rx_od_expected = read, !.tx = kind, !.owed = o]
             e == Error(p)
             q == SendFull(p, kind, read, reply, c)
  <1>1. q = IF c.fail = "send" THEN e ELSE s
    BY DEF SendFull
  <1>2. p \in Ports /\ reply \in Shapes
    BY DEF Good, Replies, Shapes
  <1>3. q \in Good
    BY <1>2, SendFullKept DEF KeptOrFailed
  <1>4. Len(o) = 1 /\ o[1] = reply
    <2>1. p.owed \in Seq(Shapes) /\ (p.owed = <<>> \/ Len(p.owed) = 1)
      BY <1>2 DEF Ports, Unserved, Owes
    <2> QED
      BY <1>2, <2>1, OweOne
  <1>5. o # <<>>
    BY <1>4, EmptySeq
  <1> HIDE DEF o
  <1>6. /\ SameService(p, e) /\ e.rx = p.rx /\ e.fifo = p.fifo
        /\ e.owed = p.owed /\ e.state = "ERROR"
        /\ e.baudrate_index = p.baudrate_index
        /\ e.rx_retry_count = p.rx_retry_count
    BY <1>2 DEF Error, Ports, SameService
  <1>7. /\ SameService(p, s) /\ s.rx = p.rx /\ s.fifo = p.fifo
        /\ s.owed = o /\ s.state = p.state /\ s.step = p.step
        /\ s.rx_od_expected = read /\ s.tx = kind
        /\ s.baudrate_index = p.baudrate_index
        /\ s.rx_retry_count = p.rx_retry_count
    BY <1>2 DEF Ports, SameService
  <1> HIDE DEF e, s, q
  <1>8. Unserved(e)
    BY <1>6, StaysUnserved
  <1>9. Unserved(s)
    BY <1>4, <1>7 DEF Unserved, SameService, EventActive, Owes
  <1> QED
    BY <1>1, <1>3, <1>4, <1>5, <1>6, <1>7, <1>8, <1>9 DEF q

\* The wake-up request leaves the receive path and the scan alone.
LEMMA StartupWakeScan ==
    ASSUME NEW p \in Ports, NEW c
    PROVE  LET q == StartupWake(p, c)
           IN  /\ q.owed \in {p.owed, <<>>}
               /\ q.baudrate_index = p.baudrate_index
  <1> DEFINE m == IF p.step = "INACTIVE" THEN SetMode(p, "SDCI", c) ELSE p
             x == [m EXCEPT !.step = "WAKE"]
             w == WakeUp(x, c)
             s == [w EXCEPT !.step = "SEND_TYPE0"]
             a == ArmSendGate(s, WakeDelay, Timed)
  <1>1. StartupWake(p, c) = IF Failed(m) THEN m ELSE IF Failed(w) THEN w ELSE a
    BY DEF StartupWake
  <1>2. m \in Ports /\ m.owed = p.owed /\ m.baudrate_index = p.baudrate_index
    <2>1. m \in {p, Error(p), [p EXCEPT !.phy_mode = "SDCI"]}
      BY DEF SetMode
    <2>2. Error(p) \in Ports /\ [p EXCEPT !.phy_mode = "SDCI"] \in Ports
      BY Literals, ZenonT(40) DEF Ports, Error
    <2>3. /\ Error(p).owed = p.owed
          /\ Error(p).baudrate_index = p.baudrate_index
          /\ [p EXCEPT !.phy_mode = "SDCI"].owed = p.owed
          /\ [p EXCEPT !.phy_mode = "SDCI"].baudrate_index = p.baudrate_index
      BY DEF Ports, Error
    <2> HIDE DEF m
    <2> QED
      BY <2>1, <2>2, <2>3
  <1> HIDE DEF m
  <1>3. x \in Ports /\ x.owed = p.owed /\ x.baudrate_index = p.baudrate_index
    <2>1. x \in Ports
      BY <1>2, Literals, ZenonT(40) DEF Ports
    <2> QED
      BY <1>2, <2>1 DEF Ports
  <1> HIDE DEF x
  <1>4. /\ w \in Ports /\ w.owed \in {p.owed, <<>>}
        /\ w.baudrate_index = p.baudrate_index
    <2> DEFINE d == [x EXCEPT !.tx = "wake", !.owed = <<>>]
    <2>1. w \in {Error(x), d}
      BY DEF WakeUp
    <2>2. Error(x) \in Ports /\ d \in Ports
      BY <1>3, Literals, EmptySeq, ZenonT(40) DEF Ports, Error
    <2>3. /\ Error(x).owed = p.owed /\ d.owed = <<>>
          /\ Error(x).baudrate_index = p.baudrate_index
          /\ d.baudrate_index = p.baudrate_index
      BY <1>3 DEF Ports, Error
    <2> HIDE DEF w, d
    <2> QED
      BY <2>1, <2>2, <2>3
  <1> HIDE DEF w
  <1>5. s \in Ports /\ s.owed = w.owed /\ s.baudrate_index = w.baudrate_index
    <2>1. s \in Ports
      BY <1>4, Literals, ZenonT(40) DEF Ports
    <2> QED
      BY <1>4, <2>1 DEF Ports
  <1> HIDE DEF s
  <1>6. a.owed = w.owed /\ a.baudrate_index = w.baudrate_index
    BY <1>5 DEF ArmSendGate, Ports
  <1> HIDE DEF a
  <1> QED
    BY <1>1, <1>2, <1>4, <1>6

\* The wake-up request (process_at).
LEMMA StartupWakeRated ==
    ASSUME NEW p \in Good, Rated(p), p.state = "STARTUP",
           p.step \in WakingSteps, NEW c
    PROVE  Keeps(p, StartupWake(p, c))
  <1> DEFINE q == StartupWake(p, c)
  <1>1. /\ SameService(p, q) /\ q.rx = p.rx /\ q.fifo = p.fifo
        /\ \/ q.state = "ERROR" /\ q.tx = p.tx
           \/ /\ q.state = "STARTUP" /\ q.step = "SEND_TYPE0"
              /\ q.owed = <<>> /\ q.tx = "wake"
    BY StartupWakeFields DEF Good
  <1>2. q.owed \in {p.owed, <<>>} /\ q.baudrate_index = p.baudrate_index
    BY StartupWakeScan DEF Good
  <1> HIDE DEF q
  <1>3. Unserved(q) /\ Unserved(p) /\ Loaded(p)
    BY <1>1, <1>2, StaysUnserved DEF Rated
  <1>4. CASE q.state = "ERROR"
    <2>1. Keeps(p, q)
      BY <1>3, <1>4, ErrorRated
    <2> QED
      BY <2>1 DEF q
  <1>5. CASE /\ q.state = "STARTUP" /\ q.step = "SEND_TYPE0"
             /\ q.owed = <<>>
    <2>1. Buffer(q) = Buffer(p) /\ ScanRate(q) = ScanRate(p) /\ Owing(q) = 0
      BY <1>1, <1>2, <1>5 DEF Buffer, ScanRate, Owing
    <2>2. ~Com(q) /\ ~Com(p) /\ ~Operating(q) /\ Room(q) = 2 /\ Room(p) = 2
      BY <1>5 DEF Com, Operating, Room, WakingSteps
    <2>3. Tuned(q)
      BY <1>3, <2>1, <2>2 DEF Loaded, Tuned
    <2>4. Len(Buffer(q)) + Owing(q) <= Room(q)
      <3>1. Len(Buffer(p)) \in Nat /\ Owing(p) \in 0..2
        BY <1>3, BufferTypes, OwingTypes DEF Good
      <3>2. Len(Buffer(p)) + Owing(p) <= 2
        BY <1>3, <2>2 DEF Loaded
      <3> QED
        BY <2>1, <2>2, <3>1, <3>2
    <2>5. Len(q.rx) <= 1
      BY <1>1, <1>3 DEF Loaded
    <2>6. Keeps(p, q)
      BY <1>3, <2>2, <2>3, <2>4, <2>5 DEF Keeps, Rated, Loaded
    <2> QED
      BY <2>6 DEF q
  <1> QED
    BY <1>1, <1>4, <1>5

\* The test message (process_at).
LEMMA StartupTestRated ==
    ASSUME MaxOwed = 1, NEW p \in Good, Rated(p), p.state = "STARTUP",
           p.step = "SEND_TYPE0", NEW c
    PROVE  Keeps(p, StartupTest(p, c))
  <1> DEFINE reply == <<"od", "cks">>
             read == TRUE
             s == SendFull(p, "test", read, reply, c)
             x == [s EXCEPT !.step = "AWAIT_RESPONSE"]
             a == ArmTestDeadline(x)
  <1>1. StartupTest(p, c) = IF Failed(s) THEN s ELSE a
    BY DEF StartupTest
  <1>2. Unserved(p) /\ Loaded(p) /\ reply \in Replies /\ read \in BOOLEAN
    BY DEF Rated, Replies
  <1> HIDE DEF reply, read
  <1>3. /\ s \in Good /\ Unserved(s)
        /\ s.rx = p.rx /\ s.fifo = p.fifo
        /\ s.baudrate_index = p.baudrate_index
        /\ s.state = "ERROR" \/ s.state = "STARTUP"
    BY <1>2, Literals, SendFullRated
  <1> HIDE DEF s
  <1>4. CASE s.state = "ERROR"
    BY <1>1, <1>3, <1>4, ErrorRated DEF Failed
  <1>5. CASE s.state = "STARTUP"
    <2>1. s \in Ports /\ x \in Ports
      BY <1>3, Literals, ZenonT(40) DEF Good, Ports
    <2>2. /\ SameService(s, x) /\ x.rx = s.rx /\ x.fifo = s.fifo
          /\ x.owed = s.owed /\ x.baudrate_index = s.baudrate_index
          /\ x.state = s.state /\ x.step = "AWAIT_RESPONSE"
      BY <2>1 DEF Ports, SameService
    <2> HIDE DEF x
    <2>3. /\ SameService(s, a) /\ a.rx = s.rx /\ a.fifo = s.fifo
          /\ a.owed = s.owed /\ a.baudrate_index = s.baudrate_index
          /\ a.state = s.state /\ a.step = "AWAIT_RESPONSE"
      BY <2>1, <2>2 DEF ArmTestDeadline, Ports, SameService
    <2> HIDE DEF a
    <2>4. Unserved(a)
      BY <1>3, <2>3, StaysUnserved
    <2>5. Buffer(a) = Buffer(p) /\ ScanRate(a) = ScanRate(p)
      BY <1>3, <2>3 DEF Buffer, ScanRate
    <2>6. ~Com(a) /\ ~Com(p) /\ ~Operating(a) /\ Room(a) = 4 /\ Room(p) = 2
      BY <1>5, <2>3 DEF Com, Operating, Room
    <2>7. Tuned(a)
      BY <1>2, <2>5, <2>6 DEF Loaded, Tuned
    <2>8. Len(Buffer(a)) + Owing(a) <= Room(a)
      <3>1. Len(Buffer(p)) \in Nat /\ Owing(p) \in 0..2 /\ Owing(a) \in 0..2
        BY <1>2, <2>4, BufferTypes, OwingTypes DEF Good
      <3>2. Len(Buffer(p)) + Owing(p) <= 2
        BY <1>2, <2>6 DEF Loaded
      <3> QED
        BY <2>5, <2>6, <3>1, <3>2
    <2>9. Len(a.rx) <= 1
      BY <1>2, <1>3, <2>3 DEF Loaded
    <2>10. Keeps(p, a)
      BY <2>4, <2>6, <2>7, <2>8, <2>9 DEF Keeps, Rated, Loaded
    <2> QED
      BY <1>1, <1>5, <2>10 DEF Failed
  <1> QED
    BY <1>3, <1>4, <1>5

\* A port that talks, has collected what was there, and asks for process data
\* or an acknowledgement.
LEMMA ComSendRated ==
    ASSUME NEW p \in Good, Rated(p), Com(p), p.fifo = <<>>,
           NEW q \in Ports, Unserved(q), Com(q), q.rx = p.rx, q.fifo = <<>>,
           q.baudrate_index = p.baudrate_index,
           q.rx_retry_count = p.rx_retry_count,
           ~TestOwed(q), ~q.rx_od_expected
    PROVE  Keeps(p, q)
  <1>1. Loaded(p) /\ Unserved(p) /\ p \in Ports
    BY DEF Rated, Com, Good
  <1>2. Buffer(p) = p.rx /\ Buffer(q) = p.rx /\ Len(p.rx) \in Nat
    BY <1>1, BufferTypes
  <1>3. ScanRate(q) = ScanRate(p)
    BY DEF ScanRate
  <1>4. Tuned(q)
    BY <1>1, <1>2, <1>3 DEF Loaded, Tuned
  <1>5. Len(p.rx) <= 1 /\ Owing(q) \in 0..2 /\ Room(q) = 3
    BY <1>1, OwingTypes DEF Loaded, Room
  <1>6. Len(Buffer(q)) + Owing(q) <= Room(q)
    BY <1>2, <1>5
  <1> QED
    BY <1>4, <1>5, <1>6 DEF Keeps, Rated, Loaded, Com

\* The DeviceOperate write (send_operate).
LEMMA SendOperateRated ==
    ASSUME MaxOwed = 1, NEW p \in Good, Rated(p), p.state = "PREOPERATE",
           p.fifo = <<>>, NEW c
    PROVE  Keeps(p, SendOperate(p, c))
  <1> DEFINE reply == <<"cks">>
             read == FALSE
             s == SendFull(p, "operate", read, reply, c)
             x == [s EXCEPT !.step = "AWAIT_OPERATE_ACK"]
  <1>1. SendOperate(p, c) = IF Failed(s) THEN s ELSE x
    BY DEF SendOperate
  <1>2. Unserved(p) /\ reply \in Replies /\ read \in BOOLEAN /\ read = FALSE
    BY DEF Rated, Replies
  <1>3. reply # <<"od", "cks">>
    OBVIOUS
  <1> HIDE DEF reply, read
  <1>4. /\ s \in Good /\ Unserved(s)
        /\ s.rx = p.rx /\ s.fifo = p.fifo
        /\ s.baudrate_index = p.baudrate_index
        /\ s.rx_retry_count = p.rx_retry_count
        /\ \/ s.state = "ERROR"
           \/ /\ s.state = p.state /\ s.rx_od_expected = read
              /\ s.owed # <<>> /\ s.owed[1] = reply
    BY <1>2, Literals, SendFullRated
  <1> HIDE DEF s
  <1>5. CASE s.state = "ERROR"
    BY <1>1, <1>4, <1>5, ErrorRated DEF Failed
  <1>6. CASE s.state # "ERROR"
    <2>1. s \in Ports /\ x \in Ports
      BY <1>4, Literals, ZenonT(40) DEF Good, Ports
    <2>2. /\ SameService(s, x) /\ x.rx = s.rx /\ x.fifo = s.fifo
          /\ x.owed = s.owed /\ x.baudrate_index = s.baudrate_index
          /\ x.state = s.state /\ x.rx_od_expected = s.rx_od_expected
          /\ x.rx_retry_count = s.rx_retry_count
      BY <2>1 DEF Ports, SameService
    <2> HIDE DEF x
    <2>3. Unserved(x)
      BY <1>4, <2>2, StaysUnserved
    <2>4. ~TestOwed(x) /\ ~x.rx_od_expected
      BY <1>2, <1>3, <1>4, <1>6, <2>2 DEF TestOwed
    <2>5. Com(p) /\ Com(x)
      BY <1>4, <1>6, <2>2 DEF Com
    <2>6. Keeps(p, x)
      BY <1>4, <2>1, <2>2, <2>3, <2>4, <2>5, ComSendRated
    <2> QED
      BY <1>1, <1>6, <2>6 DEF Failed
  <1> QED
    BY <1>5, <1>6

\* A cyclic request (process_at).
LEMMA OperateRated ==
    ASSUME ~Type0, MaxOwed = 1, NEW p \in Good, Rated(p), p.state = "OPERATE",
           p.fifo = <<>>, NEW c
    PROVE  Keeps(p, Operate(p, c))
  <1> DEFINE reply == <<"pd", "cks">>
             read == FALSE
             s == SendFull(p, "cyclic", read, reply, c)
  <1>1. Operate(p, c) = s
    <2>1. ~EventActive(p) /\ ~IsduSending(p)
      BY DEF Rated, Unserved, IsduSending
    <2> QED
      BY <2>1 DEF Operate, TypedReply
  <1>2. Unserved(p) /\ reply \in Replies /\ read \in BOOLEAN /\ read = FALSE
    BY DEF Rated, Replies
  <1>3. reply # <<"od", "cks">>
    OBVIOUS
  <1> HIDE DEF reply, read
  <1>4. /\ s \in Good /\ Unserved(s)
        /\ s.rx = p.rx /\ s.fifo = p.fifo
        /\ s.baudrate_index = p.baudrate_index
        /\ s.rx_retry_count = p.rx_retry_count
        /\ \/ s.state = "ERROR"
           \/ /\ s.state = p.state /\ s.rx_od_expected = read
              /\ s.owed # <<>> /\ s.owed[1] = reply
    BY <1>2, Literals, SendFullRated
  <1> HIDE DEF s
  <1>5. CASE s.state = "ERROR"
    BY <1>1, <1>4, <1>5, ErrorRated
  <1>6. CASE s.state # "ERROR"
    <2>1. ~TestOwed(s) /\ ~s.rx_od_expected
      BY <1>2, <1>3, <1>4, <1>6 DEF TestOwed
    <2>2. Com(p) /\ Com(s) /\ s \in Ports
      BY <1>4, <1>6 DEF Com, Good
    <2>3. Keeps(p, s)
      BY <1>4, <2>1, <2>2, ComSendRated
    <2> QED
      BY <1>1, <2>3
  <1> QED
    BY <1>5, <1>6

\* The watch on the deadline of a cycle concerns the timers alone.
LEMMA CycleTimerRated ==
    ASSUME NEW p, NEW s \in Ports, Keeps(p, s)
    PROVE  Keeps(p, StartCycleTimer(s))
  <1> DEFINE x == StartCycleTimer(s)
  <1>1. /\ SameWire(s, x) /\ SameService(s, x) /\ x.state = s.state
        /\ x.step = s.step /\ x.rx_retry_count = s.rx_retry_count
    BY CycleTimerFields
  <1>2. x.baudrate_index = s.baudrate_index
    BY DEF StartCycleTimer, Ports
  <1> HIDE DEF x
  <1>3. Rated(x)
    BY <1>1, <1>2, SameRated DEF Keeps, SameWire
  <1>4. Keeps(p, x)
    BY <1>1, <1>3 DEF Keeps, Com
  <1> QED
    BY <1>4 DEF x

\* A tick that carries CYCLE_DUE, after its poll (tick_common).
LEMMA CycleTickRated ==
    ASSUME ProcessDataOnly, NEW p \in Good, Rated(p),
           Polled(p) => p.fifo = <<>>, NEW c
    PROVE  Keeps(p, CycleTick(p, c))
  <1> DEFINE s == ProcessAt(p, c)
             q == StartCycleTimer(s)
  <1>1. Keeps(p, p)
    BY DEF Keeps, Com
  <1>2. Keeps(p, s)
    <2>2. CASE p.state = "STARTUP"
      <3>1. /\ p.step \in WakingSteps => Keeps(p, StartupWake(p, c))
            /\ p.step = "SEND_TYPE0" => Keeps(p, StartupTest(p, c))
        BY <2>2, StartupWakeRated, StartupTestRated DEF ProcessDataOnly
      <3> QED
        BY <1>1, <2>2, <3>1 DEF ProcessAt
    <2>3. CASE p.state = "PREOPERATE"
      <3>1. ~EventActive(p) /\ ~IsduSending(p) /\ ~Validate
        BY DEF Rated, Unserved, IsduSending, ProcessDataOnly
      <3>2. s \in {p, SendOperate(p, c)}
        BY <2>3, <3>1 DEF ProcessAt, Preoperate
      <3>3. Keeps(p, SendOperate(p, c))
        BY <2>3, SendOperateRated DEF Polled, ProcessDataOnly
      <3> QED
        BY <1>1, <3>2, <3>3
    <2>4. CASE p.state = "OPERATE"
      <3>1. s \in {p, Operate(p, c)}
        BY <2>4 DEF ProcessAt
      <3>2. Keeps(p, Operate(p, c))
        BY <2>4, OperateRated DEF Polled, ProcessDataOnly
      <3> QED
        BY <1>1, <3>1, <3>2
    <2>5. CASE p.state \notin {"STARTUP", "PREOPERATE", "OPERATE"}
      BY <1>1, <2>5 DEF ProcessAt
    <2> QED
      BY <2>2, <2>3, <2>4, <2>5
  <1>3. s \in Ports
    BY ProcessAtGood DEF Good
  <1> HIDE DEF s
  <1>4. Keeps(p, q)
    BY <1>2, <1>3, CycleTimerRated
  <1>5. CycleTick(p, c) \in {p, s, q}
    BY DEF CycleTick, s
  <1> QED
    BY <1>1, <1>2, <1>4, <1>5

\* A timeout drops what waited, and leaves a rated port (on_timeout_at).
LEMMA OnTimeoutAtRated ==
    ASSUME NEW p \in Good, Rated(p), NEW x \in Good, x.owed = p.owed,
           x.rx_od_expected = p.rx_od_expected, x.state = p.state,
           x.step = p.step, x.rx_retry_count = p.rx_retry_count,
           SameService(p, x), NEW c
    PROVE  Keeps(p, OnTimeoutAt(x, c))
  <1> DEFINE s == FlushRx(x, c)
             n == s.rx_retry_count + 1
             t == [s EXCEPT !.rx_retry_count = n]
  <1>1. /\ s.rx = <<>> /\ s.owed = p.owed
        /\ c.fail # "flush_rx" => s.fifo = <<>>
        /\ s.rx_od_expected = p.rx_od_expected
        /\ SameControl(x, s) /\ SameService(x, s)
    BY FlushRxFields DEF Good
  <1>2. s \in Good /\ s \in Ports
    BY FlushRxKept, KeptTrans DEF Good
  <1>3. OnTimeoutAt(x, c)
           = IF c.fail = "flush_rx" THEN Error(s)
             ELSE IF s.state = "OPERATE"
             THEN IF MoreRetries(s) THEN t ELSE RestartEstablish(s, Timed, c)
             ELSE IF s.state = "STARTUP" /\ s.step # "INACTIVE"
             THEN EstablishAttemptFailed(s, c)
             ELSE s
    BY DEF OnTimeoutAt
  <1> HIDE DEF s
  <1>4. /\ s.state = p.state /\ s.step = p.step
        /\ s.rx_retry_count = p.rx_retry_count /\ SameService(p, s)
    BY <1>1, SameTrans DEF SameControl
  <1>5. Unserved(p) /\ Unserved(s)
    BY <1>1, <1>4, StaysUnserved DEF Rated
  <1>6. p.state # "ERROR" => Loaded(p)
    BY DEF Rated
  <1>7. CASE c.fail = "flush_rx"
    <2> DEFINE e == Error(s)
    <2>1. e.state = "ERROR" /\ Idle(s, e)
      BY <1>2, PhyIdle DEF Error, Ports
    <2> HIDE DEF e
    <2>2. Unserved(e)
      BY <1>5, <2>1, StaysUnserved DEF Idle
    <2> QED
      BY <1>3, <1>7, <2>1, <2>2, ErrorRated DEF e
  <1>8. CASE c.fail # "flush_rx" /\ s.state = "OPERATE" /\ MoreRetries(s)
    <2>1. OnTimeoutAt(x, c) = t
      BY <1>3, <1>8
    <2>2. n \in 0..RxRetryLimit
      BY <1>2, <1>8 DEF MoreRetries, RxRetryLimit, Ports
    <2>3. t \in Ports
      BY <1>2, <2>2, PutCounters DEF Kept, Good
    <2>4. /\ t.state = "OPERATE" /\ t.rx_od_expected = s.rx_od_expected
          /\ t.owed = s.owed /\ t.fifo = s.fifo /\ t.rx = s.rx
          /\ SameService(s, t)
      BY <1>2, <1>8 DEF Ports, SameService
    <2> HIDE DEF t
    <2>5. Unserved(t) /\ (TestOwed(t) => TestOwed(p))
      BY <1>1, <1>5, <2>4, StaysUnserved DEF TestOwed
    <2>6. ~TestOwed(p)
      BY <1>4, <1>6, <1>8 DEF Loaded, Belated, Com
    <2>7. Operating(t) => ~t.rx_od_expected
      BY <1>1, <1>4, <1>6, <1>8, <2>4 DEF Loaded, Operating
    <2>8. Rated(t)
      BY <1>1, <1>8, <2>3, <2>4, <2>5, <2>6, <2>7, EmptiedRated
    <2> QED
      BY <1>4, <1>8, <2>1, <2>8 DEF Keeps
  <1>9. ASSUME c.fail # "flush_rx", NEW q \in Good, OnTimeoutAt(x, c) = q,
               Idle(s, q), q.state \in {"ERROR", "STARTUP"}
        PROVE  Keeps(p, OnTimeoutAt(x, c))
    <2>1. Unserved(q) /\ q.rx = <<>> /\ q.fifo = <<>>
      BY <1>1, <1>5, <1>9, StaysUnserved DEF Idle
    <2>2. ~Com(q) /\ ~Operating(q) /\ q \in Ports
      BY <1>9 DEF Com, Operating, Good
    <2>3. Rated(q)
      BY <2>1, <2>2, EmptiedRated
    <2> QED
      BY <1>9, <2>2, <2>3 DEF Keeps
  <1>10. CASE c.fail # "flush_rx" /\ s.state = "OPERATE" /\ ~MoreRetries(s)
    <2> DEFINE q == RestartEstablish(s, Timed, c)
    <2>1. OnTimeoutAt(x, c) = q
      BY <1>3, <1>10
    <2>2. /\ Idle(s, q) /\ q.state \in {"ERROR", "STARTUP"}
      BY <1>2, RestartEstablishGated
    <2>3. q \in Good
      BY <1>2, <1>10, RestartEstablishGood
    <2> HIDE DEF q
    <2> QED
      BY <1>9, <1>10, <2>1, <2>2, <2>3
  <1>11. CASE /\ c.fail # "flush_rx" /\ s.state = "STARTUP"
              /\ s.step # "INACTIVE"
    <2> DEFINE q == EstablishAttemptFailed(s, c)
    <2>1. OnTimeoutAt(x, c) = q
      BY <1>3, <1>11
    <2>2. /\ Idle(s, q) /\ q.state \in {"ERROR", "STARTUP"}
      BY <1>2, <1>11, EstablishAttemptFailedGated
    <2>3. q \in Good
      BY <1>2, <1>11, EstablishAttemptFailedGood
    <2> HIDE DEF q
    <2> QED
      BY <1>9, <1>11, <2>1, <2>2, <2>3
  <1>12. CASE /\ c.fail # "flush_rx" /\ s.state # "OPERATE"
              /\ ~(s.state = "STARTUP" /\ s.step # "INACTIVE")
    <2>1. OnTimeoutAt(x, c) = s
      BY <1>3, <1>12
    <2>2. CASE s.state = "ERROR"
      BY <1>5, <2>1, <2>2, ErrorRated
    <2>3. CASE s.state # "ERROR"
      <3>1. Loaded(p)
        BY <1>4, <1>6, <2>3
      <3>2. TestOwed(s) => TestOwed(p)
        BY <1>1 DEF TestOwed
      <3>3. Com(s) /\ TestOwed(s) => Belated(s)
        BY <1>1, <1>4, <1>12, <3>1, <3>2 DEF Loaded, Belated, Com
      <3>4. Operating(s) => ~s.rx_od_expected
        BY <1>1, <1>4, <3>1 DEF Loaded, Operating
      <3>5. Rated(s)
        BY <1>1, <1>2, <1>5, <1>12, <3>3, <3>4, EmptiedRated
      <3> QED
        BY <1>4, <2>1, <3>5 DEF Keeps, Com
    <2> QED
      BY <2>2, <2>3
  <1> QED
    BY <1>7, <1>8, <1>10, <1>11, <1>12

\* A tick that carries RESPONSE_TIMEOUT, after its poll (tick_common).
LEMMA TimeoutTickRated ==
    ASSUME NEW p \in Good, Rated(p), NEW c
    PROVE  Keeps(p, TimeoutTick(p, c))
  <1> DEFINE q == IF p.awaiting_response THEN FlushRx(p, c) ELSE p
             x == [q EXCEPT !.awaiting_response = FALSE]
  <1>1. \/ TimeoutTick(p, c) = p
        \/ TimeoutTick(p, c) = OnTimeoutAt(x, c)
    BY DEF TimeoutTick
  <1>2. Keeps(p, p)
    BY DEF Keeps, Com
  <1>3. /\ q \in Good /\ q.owed = p.owed
        /\ q.rx_od_expected = p.rx_od_expected
        /\ SameControl(p, q) /\ SameService(p, q)
    <2>1. p \in Ports /\ FlushRx(p, c) \in Good
      BY FlushRxKept, KeptTrans DEF Good
    <2>2. SameControl(p, p) /\ SameService(p, p)
      BY DEF SameControl, SameService
    <2> QED
      BY <2>1, <2>2, FlushRxFields
  <1> HIDE DEF q
  <1>4. x \in Good
    BY <1>3, PutFlags, KeptTrans
  <1>5. /\ x.owed = q.owed /\ x.rx_od_expected = q.rx_od_expected
        /\ x.state = q.state /\ x.step = q.step
        /\ x.rx_retry_count = q.rx_retry_count /\ SameService(q, x)
    BY <1>3 DEF Good, Ports, SameService
  <1> HIDE DEF x
  <1>6. /\ x.owed = p.owed /\ x.rx_od_expected = p.rx_od_expected
        /\ x.state = p.state /\ x.step = p.step
        /\ x.rx_retry_count = p.rx_retry_count /\ SameService(p, x)
    BY <1>3, <1>5, SameTrans DEF SameControl
  <1>7. Keeps(p, OnTimeoutAt(x, c))
    BY <1>4, <1>6, OnTimeoutAtRated
  <1> QED
    BY <1>1, <1>2, <1>7

-----------------------------------------------------------------------------
(* The whole tick, and the steps between ticks.                            *)

\* A tick of a rated port, whatever it carries: the port takes up communication
\* only with the first octet received (tick_common).
LEMMA TickRated ==
    ASSUME ProcessDataOnly, NEW p \in Good, Rated(p), NEW event, NEW c
    PROVE  LET q == TickCommon(p, event, c)
           IN  Rated(q) /\ (p.state = "STARTUP" /\ Com(q) => First(p))
  <1> DEFINE z == [p EXCEPT !.tx = "none"]
             r == PollRx(z, c)
             s == r.p
             q == TickCommon(p, event, c)
  <1>1. q = IF ~r.ok THEN s
            ELSE IF event = "CYCLE_DUE" THEN CycleTick(s, c)
            ELSE IF event = "RESPONSE_TIMEOUT" THEN TimeoutTick(s, c)
            ELSE s
    BY DEF TickCommon
  <1>2. /\ z \in Good /\ z.rx = p.rx /\ z.fifo = p.fifo /\ z.owed = p.owed
        /\ z.rx_od_expected = p.rx_od_expected
        /\ SameService(p, z) /\ SameControl(p, z)
    BY TickStarts
  <1>3. z.baudrate_index = p.baudrate_index /\ p \in Ports
    BY DEF Good, Ports
  <1> HIDE DEF z
  <1>4. Rated(z) /\ Buffer(z) = Buffer(p) /\ z.state = p.state
    BY <1>2, <1>3, SameRated DEF SameControl, Buffer
  <1>5. ~Type0
    BY DEF ProcessDataOnly
  <1>6. /\ Rated(s) /\ Heeds(z, r)
        /\ r.ok /\ Polled(s) => s.fifo = <<>>
        /\ s \in Good
    BY <1>2, <1>4, <1>5, PollRxRated, PollRxGood
  <1> HIDE DEF r, q
  <1>7. ~First(p) /\ p.state = "STARTUP" =>
           s.state = "ERROR" \/ s.state = "STARTUP"
    BY <1>4, <1>6 DEF Heeds, First
  <1>8. r.ok => Keeps(s, CycleTick(s, c))
    BY <1>6, CycleTickRated
  <1>9. Keeps(s, TimeoutTick(s, c)) /\ Keeps(s, s)
    BY <1>6, TimeoutTickRated DEF Keeps, Com
  <1>10. Keeps(s, q)
    BY <1>1, <1>8, <1>9
  <1>11. s.state = "ERROR" => q.state = "ERROR"
    <2> SUFFICES ASSUME s.state = "ERROR" PROVE q.state = "ERROR"
      OBVIOUS
    <2>1. s \in Ports
      BY <1>6 DEF Good
    <2>2. CycleTick(s, c).state = "ERROR"
      <3>1. ProcessAt(s, c) = s
        BY DEF ProcessAt
      <3>2. StartCycleTimer(s).state = "ERROR"
        BY <2>1, CycleTimerFields
      <3> QED
        BY <3>1, <3>2 DEF CycleTick
    <2>3. TimeoutTick(s, c).state = "ERROR"
      <3> DEFINE f == IF s.awaiting_response THEN FlushRx(s, c) ELSE s
                 x == [f EXCEPT !.awaiting_response = FALSE]
                 g == FlushRx(x, c)
      <3>1. \/ TimeoutTick(s, c) = s
            \/ TimeoutTick(s, c) = OnTimeoutAt(x, c)
        BY DEF TimeoutTick
      <3>2. f \in Good /\ f.state = "ERROR"
        <4>1. FlushRx(s, c) \in Good /\ FlushRx(s, c).state = s.state
          BY <1>6, FlushRxKept, KeptTrans DEF Kept, SameLink
        <4> QED
          BY <1>6, <4>1
      <3> HIDE DEF f
      <3>3. x \in Good /\ x.state = "ERROR"
        BY <3>2, PutFlags DEF Kept, SameLink
      <3> HIDE DEF x
      <3>4. g \in Good /\ g.state = "ERROR"
        BY <3>3, FlushRxKept, KeptTrans DEF Kept, SameLink
      <3>5. OnTimeoutAt(x, c) \in {Error(g), g}
        BY <3>4 DEF OnTimeoutAt
      <3> HIDE DEF g
      <3>6. Error(g).state = "ERROR"
        BY <3>4 DEF Error, Good, Ports
      <3> QED
        BY <3>1, <3>4, <3>5, <3>6
    <2> QED
      BY <1>1, <2>2, <2>3
  <1>12. p.state = "STARTUP" /\ Com(q) => First(p)
    BY <1>7, <1>10, <1>11 DEF Keeps, Com
  <1> QED
    BY <1>10, <1>12 DEF Keeps, q

-----------------------------------------------------------------------------
(* The line, the application and the first call.                           *)

\* What may arrive for a reply that is owed: no more octets than it has, and
\* On-request Data of the connected device only at the head of the answer to a
\* test message.
Answering(p, g) ==
    /\ g \in Seq(Octets) /\ Len(g) <= Len(p.owed[1])
    /\ \A i \in 1..Len(g) :
          /\ g[i] # "idle"
          /\ g[i] \in DevIds => g[i] = dev /\ i = 1 /\ TestOwed(p)

\* Octets that arrive come from a device at the rate of the port.
LEMMA ReceivedRated ==
    ASSUME port \in Good, Rated(port), CanAnswer, NEW g, Answering(port, g),
           Received(g)
    PROVE  Rated(port')
  <1> DEFINE f == port.fifo \o g
             o == Tail(port.owed)
             q == [port EXCEPT !.fifo = f, !.owed = o, !.tx = "none"]
  <1>1. port' = q
    BY Zenon DEF Received
  <1>2. /\ port \in Ports /\ port.owed \in Seq(Shapes) /\ port.owed # <<>>
        /\ port.rx \in Seq(Octets) /\ port.fifo \in Seq(Octets)
        /\ g \in Seq(Octets)
    BY DEF Good, Ports, CanAnswer, Answering
  <1>3. o = <<>>
    <2>1. Len(port.owed) = 1
      BY <1>2 DEF Rated, Unserved, Owes
    <2>2. Len(o) = 0 /\ o \in Seq(Shapes)
      BY <1>2, <2>1, HeadTailProperties
    <2> QED
      BY <2>2, EmptySeq
  <1>4. f \in Seq(Octets)
    BY <1>2, ConcatProperties
  <1>5. port.rx \o f = Buffer(port) \o g
    <2>1. \A r, s \in Seq(Octets) : (r \o s) \o g = r \o (s \o g)
      BY <1>2, ConcatAssociative
    <2>2. (port.rx \o port.fifo) \o g = port.rx \o (port.fifo \o g)
      BY <1>2, <2>1
    <2> QED
      BY <2>2 DEF Buffer
  <1> HIDE DEF f, o
  <1>6. /\ q.fifo = f /\ q.owed = <<>> /\ q.rx = port.rx
        /\ q.state = port.state /\ q.step = port.step
        /\ q.baudrate_index = port.baudrate_index
        /\ q.rx_retry_count = port.rx_retry_count
        /\ q.rx_od_expected = port.rx_od_expected
        /\ SameService(port, q)
    BY <1>2, <1>3 DEF Ports, SameService
  <1> HIDE DEF q
  <1>7. Unserved(q) /\ ~TestOwed(q) /\ Owing(q) = 0
    BY <1>6, StaysUnserved DEF Rated, TestOwed, Owing
  <1>8. ASSUME port.state # "ERROR" PROVE Loaded(q)
    <2>1. Loaded(port)
      BY <1>8 DEF Rated
    <2> DEFINE b == Buffer(port)
               w == Buffer(q)
               m == Len(b)
               n == Len(g)
    <2>2. b \in Seq(Octets) /\ m \in Nat /\ n \in Nat
      BY <1>2, BufferTypes, LenProperties
    <2>3. /\ Len(w) = m + n
          /\ \A i \in 1..(m + n) : w[i] = IF i <= m THEN b[i] ELSE g[i - m]
      <3>1. w = b \o g
        BY <1>5, <1>6 DEF Buffer
      <3> HIDE DEF b, w
      <3> QED
        BY <1>2, <2>2, <3>1, ConcatProperties
    <2>4. DevRate[dev] = ScanRate(q)
      BY <1>6, <1>8 DEF Good, Agrees, CanAnswer, ScanRate
    <2>5. /\ ScanRate(q) = ScanRate(port) /\ (Com(q) <=> Com(port))
          /\ Room(q) = Room(port) /\ (Operating(q) <=> Operating(port))
      BY <1>6 DEF ScanRate, Com, Room, Operating
    <2>6. Com(port) /\ TestOwed(port) => m = 0 /\ port.rx_retry_count = 0
      BY <1>2, <2>1, BufferTypes DEF Loaded, Belated
    <2>7. Tuned(q)
      <3>1. \A i \in 1..m :
               /\ b[i] # "idle"
               /\ b[i] \in DevIds =>
                     /\ DevRate[b[i]] = ScanRate(port)
                     /\ Com(port) => i + port.rx_retry_count <= RxRetryLimit
        BY <2>1 DEF Loaded, Tuned
      <3>2. \A i \in 1..n :
               /\ g[i] # "idle"
               /\ g[i] \in DevIds => g[i] = dev /\ i = 1 /\ TestOwed(port)
        BY DEF Answering
      <3> HIDE DEF b, w, m, n
      <3> SUFFICES ASSUME NEW i \in 1..(m + n)
                   PROVE  /\ w[i] # "idle"
                          /\ w[i] \in DevIds =>
                                /\ DevRate[w[i]] = ScanRate(q)
                                /\ Com(q) => i + q.rx_retry_count <= RxRetryLimit
        BY <2>3 DEF Tuned, w
      <3>3. CASE i <= m
        <4>1. i \in 1..m /\ w[i] = b[i]
          BY <2>2, <2>3, <3>3
        <4> QED
          BY <1>6, <2>5, <3>1, <4>1
      <3>4. CASE ~(i <= m)
        <4>1. i - m \in 1..n /\ w[i] = g[i - m]
          BY <2>2, <2>3, <3>4
        <4>2. /\ w[i] # "idle"
              /\ w[i] \in DevIds => w[i] = dev /\ i = m + 1 /\ TestOwed(port)
          BY <2>2, <3>2, <4>1
        <4>3. w[i] \in DevIds /\ Com(q) => i + q.rx_retry_count <= RxRetryLimit
          <5>1. w[i] \in DevIds /\ Com(q) => i = 1 /\ q.rx_retry_count = 0
            BY <1>6, <2>2, <2>5, <2>6, <4>2
          <5> QED
            BY <5>1 DEF RxRetryLimit
        <4> QED
          BY <2>4, <4>2, <4>3
      <3> QED
        BY <3>3, <3>4
    <2>8. Len(w) + Owing(q) <= Room(q)
      <3>1. Owing(port) = Len(port.owed[1]) /\ Owing(port) \in 0..2
        BY <1>2, OwingTypes DEF Owing, Rated
      <3>2. n <= Owing(port)
        BY <3>1 DEF Answering
      <3>3. m + Owing(port) <= Room(port) /\ Room(port) \in Nat
        BY <2>1 DEF Loaded, Room
      <3> HIDE DEF m, n, w
      <3> QED
        BY <1>7, <2>2, <2>3, <2>5, <3>1, <3>2, <3>3
    <2> QED
      BY <1>6, <1>7, <2>1, <2>5, <2>7, <2>8 DEF Loaded
  <1> QED
    BY <1>1, <1>6, <1>7, <1>8 DEF Rated

\* What the connected device answers with.
LEMMA FilledAnswering ==
    ASSUME NEW p, NEW cks \in Cks, dev \in DevIds, p.owed # <<>>,
           p.owed[1] \in Replies, p.owed[1] \in Shapes
    PROVE  /\ Answering(p, Filled(p.owed[1], cks))
           /\ Len(Filled(p.owed[1], cks)) = Len(p.owed[1])
  <1> DEFINE shape == p.owed[1]
             g == Filled(shape, cks)
  <1>1. /\ g \in Seq(Octets) /\ Len(g) = Len(shape)
    BY FilledFrames
  <1>2. /\ Len(shape) \in 1..2
        /\ \A i \in 1..Len(shape) :
              /\ shape[i] \in {"od", "pd", "cks"}
              /\ shape[i] = "od" => i = 1 /\ shape = <<"od", "cks">>
    BY DEF Replies
  <1>3. \A i \in 1..Len(shape) :
           g[i] = IF shape[i] = "od" THEN dev
                  ELSE IF shape[i] = "cks" THEN cks ELSE shape[i]
    BY DEF Filled
  <1>4. /\ cks \notin DevIds /\ "pd" \notin DevIds /\ dev # "idle"
        /\ cks # "idle"
    BY EnvironmentAssumption DEF Cks
  <1> HIDE DEF g
  <1>5. \A i \in 1..Len(g) :
           /\ g[i] # "idle"
           /\ g[i] \in DevIds => g[i] = dev /\ i = 1 /\ TestOwed(p)
    BY <1>1, <1>2, <1>3, <1>4 DEF TestOwed
  <1> HIDE DEF shape
  <1>6. Len(g) <= Len(shape)
    BY <1>1, <1>2
  <1> QED
    BY <1>1, <1>5, <1>6 DEF Answering, g, shape

\* Whole, garbled or truncated, an answer is what the invariant allows.
LEMMA AnswersRated ==
    ASSUME port \in Good, dev \in DevIds \cup {"absent"}, Rated(port),
           \/ \E cks \in CksOctets : Answer(cks)
           \/ AnswerGarbled \/ AnswerTruncated
    PROVE  Rated(port')
  <1>1. /\ CanAnswer /\ port.owed # <<>> /\ dev \in DevIds
        /\ port.owed \in Seq(Shapes)
    BY DEF Answer, AnswerGarbled, AnswerTruncated, CanAnswer, Good, Ports
  <1> DEFINE shape == port.owed[1]
             whole == Filled(shape, "cks")
             short == SubSeq(whole, 1, Len(whole) - 1)
             bad == [i \in 1..Len(shape) |-> "bad"]
  <1>2. /\ shape = Head(port.owed) /\ shape \in Shapes /\ shape \in Replies
    BY <1>1, HeadTailProperties DEF Rated, Unserved, Owes
  <1>3. CksOctets \subseteq Cks /\ "cks" \in Cks
    BY EnvironmentAssumption DEF Cks
  <1>4. \/ \E cks \in CksOctets : Received(Filled(shape, cks))
        \/ Received(bad) \/ Received(short)
    BY <1>2, Zenon DEF Answer, AnswerGarbled, AnswerTruncated
  <1>5. \A cks \in Cks : /\ Answering(port, Filled(shape, cks))
                         /\ Len(Filled(shape, cks)) = Len(shape)
    BY <1>1, <1>2, FilledAnswering
  <1>6. Len(shape) \in 1..2
    BY <1>2 DEF Replies
  <1>7. Answering(port, whole) /\ Len(whole) = Len(shape)
    BY <1>3, <1>5
  <1> HIDE DEF whole
  <1>8. Answering(port, short)
    <2> DEFINE n == Len(whole) - 1
    <2>1. n \in 0..1 /\ n + 1 = Len(whole) /\ whole \in Seq(Octets)
      BY <1>6, <1>7 DEF Answering
    <2>2. \A i \in 1..n : i \in 1..Len(whole) /\ whole[i] \in Octets
      BY <2>1, ElementOfSeq
    <2>3. /\ short \in Seq(Octets) /\ Len(short) = n
          /\ \A i \in 1..n : short[i] = whole[i]
      <3> HIDE DEF n
      <3>1. /\ SubSeq(whole, 1, n) \in Seq(Octets)
            /\ Len(SubSeq(whole, 1, n)) = IF 1 <= n THEN n - 1 + 1 ELSE 0
            /\ \A i \in 1..(n - 1 + 1) : SubSeq(whole, 1, n)[i] = whole[1 + i - 1]
        BY <2>1, <2>2, SubSeqProperties
      <3>2. Len(SubSeq(whole, 1, n)) = n /\ n - 1 + 1 = n
        BY <2>1, <3>1
      <3>3. \A i \in 1..n : 1 + i - 1 = i
        OBVIOUS
      <3>4. \A i \in 1..n : SubSeq(whole, 1, n)[i] = whole[i]
        BY <3>1, <3>2, <3>3
      <3> QED
        BY <3>1, <3>2, <3>4 DEF n
    <2> HIDE DEF short
    <2>4. Len(short) <= Len(shape)
      BY <1>6, <1>7, <2>1, <2>3
    <2> QED
      BY <1>7, <2>2, <2>3, <2>4 DEF Answering
  <1>9. Answering(port, bad)
    <2>1. "bad" \in Octets /\ "bad" \notin DevIds
      BY EnvironmentAssumption DEF Octets
    <2>2. bad \in [1..Len(shape) -> Octets]
      BY <2>1
    <2>3. bad \in Seq(Octets) /\ Len(bad) = Len(shape)
      BY <1>6, <2>2, SeqDef, LenProperties
    <2>4. \A i \in 1..Len(bad) : bad[i] = "bad"
      BY <2>3
    <2> HIDE DEF bad
    <2>5. Len(bad) <= Len(shape)
      BY <1>6, <2>3
    <2> QED
      BY <2>1, <2>3, <2>4, <2>5 DEF Answering
  <1> HIDE DEF short, bad, shape
  <1>10. ASSUME NEW cks \in CksOctets, Received(Filled(shape, cks))
         PROVE  Rated(port')
    BY <1>1, <1>3, <1>5, <1>10, ReceivedRated
  <1> QED
    BY <1>1, <1>4, <1>8, <1>9, <1>10, ReceivedRated

\* A port just initialised has nothing in its receive path, or failed.
Initial(p) ==
    /\ p.isdu_phase = "none" /\ p.isdu_pending = "none" /\ p.event = "none"
    /\ Owes(p, Replies)

LEMMA PortInitRated ==
    ASSUME NEW phy, phy.phy_mode \in Modes, phy.phy_rate \in 0..LastRate,
           phy.fifo \in Seq(Octets), phy.owed \in Seq(Shapes),
           Owes(phy, Replies), NEW c
    PROVE  Rated(PortInit(phy, c))
  <1> DEFINE n == NewPort(phy)
             f == FlushRx(n, c)
             b == SetBaudrate(f, c)
             m == SetMode(b, "SDCI", c)
             q == PortInit(phy, c)
  <1>1. q = IF c.fail = "init" THEN Error(n)
            ELSE IF c.fail = "flush_rx" THEN Error(f)
            ELSE IF Failed(b) THEN b ELSE m
    BY DEF PortInit
  <1>2. Fresh(q, c) /\ q \in Ports
    BY PortInitFresh, PortInitGood DEF Good
  <1> HIDE DEF q
  <1>3. n \in Ports
    BY NewPortType
  <1>4. Initial(n) /\ n.rx = <<>>
    BY DEF NewPort, Initial, Owes
  <1> HIDE DEF n
  <1>5. /\ f \in Ports /\ Initial(f) /\ f.rx = <<>>
        /\ c.fail # "flush_rx" => f.fifo = <<>>
    <2>1. /\ Initial(f) /\ f.rx = <<>>
          /\ c.fail # "flush_rx" => f.fifo = <<>>
      BY <1>3, <1>4 DEF FlushRx, Ports, Initial, Owes
    <2> QED
      BY <1>3, <2>1, FlushRxLink
  <1> HIDE DEF f
  <1>6. b \in Ports /\ Initial(b) /\ b.rx = <<>> /\ b.fifo = f.fifo
    <2>1. Initial(b) /\ b.rx = <<>> /\ b.fifo = f.fifo
      BY <1>5 DEF SetBaudrate, Error, Ports, Initial, Owes
    <2> QED
      BY <1>5, <2>1, SetBaudrateLink
  <1> HIDE DEF b
  <1>7. /\ Initial(m) /\ m.rx = <<>> /\ m.fifo = b.fifo
        /\ Initial(Error(n)) /\ Initial(Error(f))
        /\ Error(n).state = "ERROR" /\ Error(f).state = "ERROR"
    BY <1>3, <1>4, <1>5, <1>6 DEF SetMode, Error, Ports, Initial, Owes
  <1> HIDE DEF m
  <1>8. Unserved(q)
    BY <1>1, <1>6, <1>7 DEF Initial, Unserved, EventActive
  <1>9. q.state = "ERROR" \/ (q.state = "STARTUP" /\ q.step = "WAKE")
    BY <1>2 DEF Fresh
  <1>10. ASSUME q.state # "ERROR" PROVE Rated(q)
    <2>1. q \in {b, m} /\ c.fail # "flush_rx"
      BY <1>1, <1>7, <1>10
    <2>2. q \in Ports /\ q.rx = <<>> /\ q.fifo = <<>>
      BY <1>2, <1>5, <1>6, <1>7, <2>1
    <2>3. ~Com(q) /\ ~Operating(q)
      BY <1>9, <1>10 DEF Com, Operating
    <2> QED
      BY <1>8, <2>2, <2>3, EmptiedRated
  <1> QED
    BY <1>8, <1>10 DEF Rated, q

-----------------------------------------------------------------------------
(* The invariant and the theorem.                                          *)

\* At power-on nothing has been asked and nothing has been heard.
LEMMA InitRated == ASSUME Init PROVE Rated(port)
  <1>1. PICK c \in Choices : port = PortInit(PowerOnPhy, c)
    BY DEF Init
  <1>2. /\ PowerOnPhy.phy_mode \in Modes
        /\ PowerOnPhy.phy_rate \in 0..LastRate
        /\ PowerOnPhy.fifo \in Seq(Octets) /\ PowerOnPhy.owed \in Seq(Shapes)
        /\ PowerOnPhy.owed = <<>>
    BY EnvironmentAssumption, EmptySeq DEF PowerOnPhy, Modes, LastRate
  <1>3. Owes(PowerOnPhy, Replies)
    BY <1>2 DEF Owes
  <1> QED
    BY <1>1, <1>2, <1>3, PortInitRated

\* Every step keeps the invariant, and only a tick that finds On-request Data
\* at the head of the receive path takes a port from STARTUP to communication.
LEMMA NextRated ==
    ASSUME ProcessDataOnly, EInv, Rated(port), Next
    PROVE  /\ Rated(port')
           /\ port.state = "STARTUP" /\ Com(port') =>
                 First(port) /\ port'.baudrate_index = port.baudrate_index
  <1> DEFINE Goal ==
               /\ Rated(port')
               /\ port.state = "STARTUP" /\ Com(port') =>
                     First(port) /\ port'.baudrate_index = port.baudrate_index
  <1>1. /\ port \in Good /\ port \in Ports /\ Ready(port)
        /\ dev \in DevIds \cup {"absent"}
    BY DEF EInv, Inv, Good
  <1>2. ASSUME NEW e \in {"NONE", "CYCLE_DUE", "RESPONSE_TIMEOUT"},
               NEW c \in Choices, port' = TickCommon(port, e, c)
        PROVE  Goal
    <2> DEFINE q == TickCommon(port, e, c)
    <2>1. Rated(q) /\ (port.state = "STARTUP" /\ Com(q) => First(port))
      BY <1>1, TickRated
    <2>2. Moves(port, q, c)
      BY <1>1, TickCommonMoves
    <2> HIDE DEF q
    <2>3. port.state = "STARTUP" /\ Com(q)
             => q.baudrate_index = port.baudrate_index
      BY <2>2 DEF Moves, Rests, Talks, Answers, Loses, Fails, Wakes, Tests,
                  Slows, Retries, Pauses, Com
    <2> QED
      BY <1>2, <2>1, <2>3 DEF q
  <1>3. ASSUME NEW c \in Choices, TickAt(c) PROVE Goal
    <2>1. PICK e \in {"CYCLE_DUE", "RESPONSE_TIMEOUT"} :
             port' = TickCommon(port, e, c)
      BY <1>3 DEF TickAt
    <2> QED
      BY <1>2, <2>1
  <1>4. ASSUME NEW c \in Choices,
               NEW e \in {"NONE", "CYCLE_DUE", "RESPONSE_TIMEOUT"},
               TickEvent(e, c)
        PROVE  Goal
    BY <1>2, <1>4 DEF TickEvent
  <1>5. ASSUME Rated(port'), port'.state = port.state PROVE Goal
    BY <1>5 DEF Com
  <1>6. ASSUME NEW c \in Choices, Restart(c) PROVE Goal
    <2>1. /\ port.phy_mode \in Modes /\ port.phy_rate \in 0..LastRate
          /\ port.fifo \in Seq(Octets) /\ port.owed \in Seq(Shapes)
      BY <1>1 DEF Ports
    <2>2. Owes(port, Replies)
      BY DEF Rated, Unserved
    <2>3. Rated(port')
      BY <1>6, <2>1, <2>2, PortInitRated DEF Restart
    <2>4. ~Com(port')
      BY <1>1, <1>6, RestartFresh DEF Fresh, Com
    <2> QED
      BY <2>3, <2>4
  <1>7. ASSUME Elapse PROVE Goal
    <2> DEFINE a == Less(port.deadline)
               b == Less(port.send_gate)
               l == Less(port.cycle_left)
               q == [port EXCEPT !.deadline = a, !.send_gate = b,
                                 !.cycle_left = l, !.tx = "none"]
    <2>1. port' = q
      BY <1>7, Zenon DEF Elapse
    <2> HIDE DEF a, b, l
    <2>2. /\ q.rx = port.rx /\ q.fifo = port.fifo /\ q.owed = port.owed
          /\ q.state = port.state /\ q.step = port.step
          /\ q.baudrate_index = port.baudrate_index
          /\ q.rx_retry_count = port.rx_retry_count
          /\ q.rx_od_expected = port.rx_od_expected
          /\ SameService(port, q)
      BY <1>1 DEF Ports, SameService
    <2> HIDE DEF q
    <2>3. Rated(q)
      BY <1>1, <2>2, SameRated
    <2> QED
      BY <1>5, <2>1, <2>2, <2>3
  <1>8. ASSUME NEW d \in Pluggable, Plug(d) PROVE Goal
    <2> DEFINE q == [port EXCEPT !.owed = <<>>, !.tx = "none"]
    <2>1. port' = q
      BY <1>8, Zenon DEF Plug
    <2>2. /\ q.rx = port.rx /\ q.fifo = port.fifo /\ q.owed = <<>>
          /\ q.state = port.state /\ q.step = port.step
          /\ q.baudrate_index = port.baudrate_index
          /\ q.rx_retry_count = port.rx_retry_count
          /\ q.rx_od_expected = port.rx_od_expected
          /\ SameService(port, q)
      BY <1>1 DEF Ports, SameService
    <2> HIDE DEF q
    <2>3. Rated(q)
      BY <1>1, <2>2, SameRated
    <2> QED
      BY <1>5, <2>1, <2>2, <2>3
  <1>9. ASSUME \/ \E cks \in CksOctets : Answer(cks)
               \/ AnswerGarbled \/ AnswerTruncated
        PROVE  Goal
    <2>1. Rated(port')
      BY <1>1, <1>9, AnswersRated
    <2>2. PICK g : Received(g)
      BY <1>9 DEF Answer, AnswerGarbled, AnswerTruncated
    <2>3. port'.state = port.state
      BY <1>1, <2>2, ReceivedRests DEF Rests
    <2> QED
      BY <1>5, <2>1, <2>3
  <1>10. /\ ~StartIsdu /\ ~CollectIsdu /\ ~CollectEvent
         /\ \A phase : ~StartEvent(phase)
    BY DEF ProcessDataOnly, StartIsdu, CollectIsdu, StartEvent, CollectEvent,
           Serviceable
  <1> HIDE DEF Goal
  <1>11. Goal
    <2>1. CASE \E c \in Choices : TickAt(c) \/ Restart(c)
      BY <1>3, <1>6, <2>1
    <2>2. CASE \E c \in Choices, e \in {"NONE", "CYCLE_DUE", "RESPONSE_TIMEOUT"} :
                  TickEvent(e, c)
      BY <1>4, <2>2
    <2>3. CASE \E d \in Pluggable : Plug(d)
      BY <1>8, <2>3
    <2>4. /\ ~(\E phase \in {"read", "read_ack"} : StartEvent(phase))
          /\ ~StartIsdu /\ ~CollectIsdu /\ ~CollectEvent
      BY <1>10
    <2> QED
      BY <1>7, <1>9, <2>1, <2>2, <2>3, <2>4 DEF Next
  <1> QED
    BY <1>11 DEF Goal

\* The answer that takes a port from STARTUP to communication carries
\* On-request Data of a device that talks at the rate the PHY is set to: the
\* receive path is emptied before a rate or an attempt is given up (flush_rx in
\* on_timeout_at and tick_common), and what a late answer leaves behind is used
\* up before the third checksum error restarts the scan (restart_establish).
THEOREM SettlesOnItsRate ==
    ASSUME ProcessDataOnly
    PROVE  Spec => AnsweredAtItsRate
  <1> DEFINE RInv == EInv /\ Rated(port)
             Found == Established =>
                \E i \in 1..Len(port.rx \o port.fifo) :
                    LET o == (port.rx \o port.fifo)[i]
                    IN  o \in DevIds /\ DevRate[o] = port'.phy_rate
  <1>1. Init => RInv
    BY EInvHolds, InitRated
  <1>2. RInv /\ [Next]_vars => RInv'
    <2>1. SUFFICES ASSUME EInv, Rated(port), [Next]_vars PROVE RInv'
      OBVIOUS
    <2>2. EInv'
      BY <2>1, EInvHolds
    <2>3. CASE UNCHANGED vars
      BY <2>1, <2>2, <2>3 DEF vars
    <2>4. CASE Next
      BY <2>1, <2>2, <2>4, NextRated
    <2> QED
      BY <2>1, <2>3, <2>4
  <1>3. RInv /\ [Next]_vars => [Found]_vars
    <2>1. SUFFICES ASSUME EInv, Rated(port), Next, Established PROVE Found
      OBVIOUS
    <2>2. /\ port.state = "STARTUP" /\ Com(port') /\ port'.state # "ERROR"
      BY <2>1 DEF Established, Com
    <2>3. First(port) /\ port'.baudrate_index = port.baudrate_index
      BY <2>1, <2>2, NextRated
    <2>4. EInv'
      BY <2>1, EInvHolds
    <2>5. port'.phy_rate = ScanRate(port)
      BY <2>2, <2>3, <2>4 DEF EInv, Inv, Good, Agrees, ScanRate
    <2>6. Tuned(port) /\ Len(Buffer(port)) \in Nat
      BY <2>1, <2>2, BufferTypes DEF Rated, Loaded, EInv, Inv, Good
    <2>7. 1 \in 1..Len(Buffer(port)) /\ Buffer(port)[1] \in OdOctets
      BY <2>3, <2>6 DEF First
    <2>8. Buffer(port)[1] \in DevIds /\ DevRate[Buffer(port)[1]] = port'.phy_rate
      BY <2>5, <2>6, <2>7 DEF Tuned, OdOctets
    <2> QED
      BY <2>7, <2>8 DEF Buffer
  <1> HIDE DEF RInv
  <1> QED
    BY <1>1, <1>2, <1>3, PTL DEF Spec, AnsweredAtItsRate

=============================================================================
