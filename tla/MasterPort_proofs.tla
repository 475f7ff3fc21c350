------------------------- MODULE MasterPort_proofs --------------------------
(***************************************************************************)
(* Proofs about MasterPort, for every value of its constants: the types of  *)
(* the port are never left, and the PHY always agrees with the port.        *)
(*                                                                          *)
(* The inductive invariant is port \in Good: the port has its type and, out *)
(* of ERROR, the PHY has the rate and the mode the port believes in.  There *)
(* is one lemma per operator of MasterPort; each says that the operator     *)
(* takes a good port, in the states it is called in, to a good port.        *)
(***************************************************************************)
EXTENDS MasterPort, SequenceTheorems, TLAPS

\* PhyAgrees, of any port record.
Agrees(p) ==
    p.state # "ERROR" =>
        /\ p.phy_rate = ScanRate(p)
        /\ p.phy_mode = "INACTIVE"
              <=> p.state = "STARTUP" /\ p.step = "INACTIVE"

Good == {p \in Ports : Agrees(p)}

\* The two records say the same of the state, the step and the PHY settings.
SameLink(p, q) ==
    /\ q.state = p.state /\ q.step = p.step
    /\ q.baudrate_index = p.baudrate_index
    /\ q.phy_mode = p.phy_mode /\ q.phy_rate = p.phy_rate

\* What a call that leaves the link of p alone may return, and what a call
\* that may fail on the way may return.
Kept(p) == {q \in Good : SameLink(p, q)}
KeptOrFailed(p) == {q \in Good : SameLink(p, q) \/ Failed(q)}

\* The states in which the PHY is in SDCI mode.
Linked(p) ==
    \/ p.state \in {"PREOPERATE", "OPERATE"}
    \/ p.state = "STARTUP" /\ p.step # "INACTIVE"

\* What a poll hands on: the port, and whether it goes on collecting.
Polls == {r \in [ok : BOOLEAN, p : Good] : r.ok => Polled(r.p)}

-----------------------------------------------------------------------------
(* Literals, rates and sequences.                                          *)

\* The values the code assigns to the fields of the port have the fields' types.
LEMMA Literals ==
    /\ "STARTUP" \in States /\ "PREOPERATE" \in States
    /\ "OPERATE" \in States /\ "ERROR" \in States
    /\ "WAKE" \in Steps /\ "SEND_TYPE0" \in Steps
    /\ "AWAIT_RESPONSE" \in Steps /\ "AWAIT_OPERATE_ACK" \in Steps
    /\ "INACTIVE" \in Steps
    /\ "none" \in Kinds /\ "wake" \in Kinds /\ "test" \in Kinds
    /\ "operate" \in Kinds /\ "cyclic" \in Kinds /\ "isdu" \in Kinds
    /\ "event" \in Kinds
    /\ "INACTIVE" \in Modes /\ "SDCI" \in Modes
    /\ 0 \in 0..LastRate /\ 0 \in 0..RxRetryLimit /\ 0 \in 0..255
BY DEF States, Steps, Kinds, Modes, LastRate, RxRetryLimit

\* Every reply the master may be owed is a shape of the line.
LEMMA ReplyTypes ==
    /\ \A read \in BOOLEAN :
          TypedReply(read) \in Shapes /\ Type0Reply(read) \in Shapes
    /\ <<"cks">> \in Shapes /\ <<"od", "cks">> \in Shapes
BY DEF TypedReply, Type0Reply, Shapes

\* The rate the port believes in is a rate of the scan (startup_baudrate).
LEMMA ScanRateType ==
    ASSUME NEW p \in Ports
    PROVE  ScanRate(p) \in 0..LastRate
BY EnvironmentAssumption DEF Ports, ScanRate, LastRate

\* A request appended to, or replacing the last of, the owed replies leaves a
\* sequence of reply shapes (Owe, the model of the line behind send).
LEMMA OweType ==
    ASSUME NEW owed \in Seq(Shapes), NEW reply \in Shapes
    PROVE  Owe(owed, reply) \in Seq(Shapes)
  <1>1. CASE Len(owed) < MaxOwed
    BY <1>1, AppendProperties DEF Owe
  <1>2. CASE ~(Len(owed) < MaxOwed)
    <2>1. MaxOwed \in 1..Len(owed)
      BY <1>2, LimitAssumption, LenProperties
    <2>2. [owed EXCEPT ![MaxOwed] = reply] \in Seq(Shapes)
      BY <2>1, ExceptSeq, Zenon
    <2> QED
      BY <1>2, <2>2 DEF Owe
  <1> QED
    BY <1>1, <1>2

-----------------------------------------------------------------------------
(* Assignments.                                                            *)

\* A step that leaves the link alone keeps a good port good.
LEMMA SameLinkGood ==
    ASSUME NEW p \in Good, NEW q \in Ports, SameLink(p, q)
    PROVE  q \in Kept(p)
BY DEF Good, Agrees, ScanRate, SameLink, Kept

\* Calls that leave the link alone compose.
LEMMA KeptTrans ==
    /\ \A p \in Good : p \in Kept(p) /\ Kept(p) \subseteq KeptOrFailed(p)
    /\ \A p \in Good : \A q \in Kept(p) :
          /\ q \in Good
          /\ Kept(q) \subseteq Kept(p)
          /\ KeptOrFailed(q) \subseteq KeptOrFailed(p)
    /\ \A p \in Good : \A q \in KeptOrFailed(p) : q \in Good
BY DEF Kept, KeptOrFailed, SameLink

\* Assigning the retry counters leaves the link alone.
LEMMA PutCounters ==
    ASSUME NEW p \in Good
    PROVE  /\ \A v \in 0..255 : [p EXCEPT !.wake_attempts = v] \in Kept(p)
           /\ \A v \in 0..RxRetryLimit : [p EXCEPT !.rx_retry_count = v] \in Kept(p)
  <1>0. p \in Ports
    BY DEF Good
  <1>1. ASSUME NEW v \in 0..255
        PROVE  [p EXCEPT !.wake_attempts = v] \in Kept(p)
    <2>1. [p EXCEPT !.wake_attempts = v] \in Ports
      BY <1>0, ZenonT(40) DEF Ports
    <2>2. SameLink(p, [p EXCEPT !.wake_attempts = v])
      BY <1>0 DEF Ports, SameLink
    <2> QED
      BY <2>1, <2>2, SameLinkGood
  <1>2. ASSUME NEW v \in 0..RxRetryLimit
        PROVE  [p EXCEPT !.rx_retry_count = v] \in Kept(p)
    <2>1. [p EXCEPT !.rx_retry_count = v] \in Ports
      BY <1>0, ZenonT(40) DEF Ports
    <2>2. SameLink(p, [p EXCEPT !.rx_retry_count = v])
      BY <1>0 DEF Ports, SameLink
    <2> QED
      BY <2>1, <2>2, SameLinkGood
  <1> QED
    BY <1>1, <1>2

\* Assigning the timers leaves the link alone.
LEMMA PutTimers ==
    ASSUME NEW p \in Good
    PROVE  /\ \A v \in Nat : [p EXCEPT !.deadline = v] \in Kept(p)
           /\ \A v \in Nat : [p EXCEPT !.send_gate = v] \in Kept(p)
           /\ \A v \in Nat : [p EXCEPT !.cycle_left = v] \in Kept(p)
  <1>0. p \in Ports
    BY DEF Good
  <1>1. ASSUME NEW v \in Nat
        PROVE  [p EXCEPT !.deadline = v] \in Kept(p)
    <2>1. [p EXCEPT !.deadline = v] \in Ports
      BY <1>0, ZenonT(40) DEF Ports
    <2>2. SameLink(p, [p EXCEPT !.deadline = v])
      BY <1>0 DEF Ports, SameLink
    <2> QED
      BY <2>1, <2>2, SameLinkGood
  <1>2. ASSUME NEW v \in Nat
        PROVE  [p EXCEPT !.send_gate = v] \in Kept(p)
    <2>1. [p EXCEPT !.send_gate = v] \in Ports
      BY <1>0, ZenonT(40) DEF Ports
    <2>2. SameLink(p, [p EXCEPT !.send_gate = v])
      BY <1>0 DEF Ports, SameLink
    <2> QED
      BY <2>1, <2>2, SameLinkGood
  <1>3. ASSUME NEW v \in Nat
        PROVE  [p EXCEPT !.cycle_left = v] \in Kept(p)
    <2>1. [p EXCEPT !.cycle_left = v] \in Ports
      BY <1>0, ZenonT(40) DEF Ports
    <2>2. SameLink(p, [p EXCEPT !.cycle_left = v])
      BY <1>0 DEF Ports, SameLink
    <2> QED
      BY <2>1, <2>2, SameLinkGood
  <1> QED
    BY <1>1, <1>2, <1>3

\* Assigning the flags leaves the link alone.
LEMMA PutFlags ==
    ASSUME NEW p \in Good
    PROVE  /\ \A v \in BOOLEAN : [p EXCEPT !.awaiting_response = v] \in Kept(p)
           /\ \A v \in BOOLEAN : [p EXCEPT !.cycle_timer_valid = v] \in Kept(p)
           /\ \A v \in BOOLEAN : [p EXCEPT !.rx_od_expected = v] \in Kept(p)
           /\ \A v \in BOOLEAN : [p EXCEPT !.pd_valid = v] \in Kept(p)
           /\ \A v \in BOOLEAN : [p EXCEPT !.event_pending = v] \in Kept(p)
           /\ \A v \in BOOLEAN : [p EXCEPT !.event_od_expected = v] \in Kept(p)
  <1>0. p \in Ports
    BY DEF Good
  <1>1. ASSUME NEW v \in BOOLEAN
        PROVE  [p EXCEPT !.awaiting_response = v] \in Kept(p)
    <2>1. [p EXCEPT !.awaiting_response = v] \in Ports
      BY <1>0, ZenonT(40) DEF Ports
    <2>2. SameLink(p, [p EXCEPT !.awaiting_response = v])
      BY <1>0 DEF Ports, SameLink
    <2> QED
      BY <2>1, <2>2, SameLinkGood
  <1>2. ASSUME NEW v \in BOOLEAN
        PROVE  [p EXCEPT !.cycle_timer_valid = v] \in Kept(p)
    <2>1. [p EXCEPT !.cycle_timer_valid = v] \in Ports
      BY <1>0, ZenonT(40) DEF Ports
    <2>2. SameLink(p, [p EXCEPT !.cycle_timer_valid = v])
      BY <1>0 DEF Ports, SameLink
    <2> QED
      BY <2>1, <2>2, SameLinkGood
  <1>3. ASSUME NEW v \in BOOLEAN
        PROVE  [p EXCEPT !.rx_od_expected = v] \in Kept(p)
    <2>1. [p EXCEPT !.rx_od_expected = v] \in Ports
      BY <1>0, ZenonT(40) DEF Ports
    <2>2. SameLink(p, [p EXCEPT !.rx_od_expected = v])
      BY <1>0 DEF Ports, SameLink
    <2> QED
      BY <2>1, <2>2, SameLinkGood
  <1>4. ASSUME NEW v \in BOOLEAN
        PROVE  [p EXCEPT !.pd_valid = v] \in Kept(p)
    <2>1. [p EXCEPT !.pd_valid = v] \in Ports
      BY <1>0, ZenonT(40) DEF Ports
    <2>2. SameLink(p, [p EXCEPT !.pd_valid = v])
      BY <1>0 DEF Ports, SameLink
    <2> QED
      BY <2>1, <2>2, SameLinkGood
  <1>5. ASSUME NEW v \in BOOLEAN
        PROVE  [p EXCEPT !.event_pending = v] \in Kept(p)
    <2>1. [p EXCEPT !.event_pending = v] \in Ports
      BY <1>0, ZenonT(40) DEF Ports
    <2>2. SameLink(p, [p EXCEPT !.event_pending = v])
      BY <1>0 DEF Ports, SameLink
    <2> QED
      BY <2>1, <2>2, SameLinkGood
  <1>6. ASSUME NEW v \in BOOLEAN
        PROVE  [p EXCEPT !.event_od_expected = v] \in Kept(p)
    <2>1. [p EXCEPT !.event_od_expected = v] \in Ports
      BY <1>0 DEF Ports
    <2>2. SameLink(p, [p EXCEPT !.event_od_expected = v])
      BY <1>0 DEF Ports, SameLink
    <2> QED
      BY <2>1, <2>2, SameLinkGood
  <1> QED
    BY <1>1, <1>2, <1>3, <1>4, <1>5, <1>6

\* Assigning the fields of the acyclic services leaves the link alone.
LEMMA PutService ==
    ASSUME NEW p \in Good
    PROVE  /\ \A v \in {"none", "app", "info"} : [p EXCEPT !.isdu_op = v] \in Kept(p)
           /\ \A v \in {"none", "request", "wait", "done"} :
                 [p EXCEPT !.isdu_phase = v] \in Kept(p)
           /\ \A v \in {"none", "idle", "abort"} :
                 [p EXCEPT !.isdu_pending = v] \in Kept(p)
           /\ \A v \in DevIds \cup {"none", "error"} :
                 [p EXCEPT !.isdu_result = v] \in Kept(p)
           /\ \A v \in {"none", "read", "read_ack", "write", "done"} :
                 [p EXCEPT !.event = v] \in Kept(p)
           /\ \A v \in DevIds \cup {"none"} :
                 [p EXCEPT !.device_info = v] \in Kept(p)
  <1>0. p \in Ports
    BY DEF Good
  <1>1. ASSUME NEW v \in {"none", "app", "info"}
        PROVE  [p EXCEPT !.isdu_op = v] \in Kept(p)
    <2>1. [p EXCEPT !.isdu_op = v] \in Ports
      BY <1>0, ZenonT(40) DEF Ports
    <2>2. SameLink(p, [p EXCEPT !.isdu_op = v])
      BY <1>0 DEF Ports, SameLink
    <2> QED
      BY <2>1, <2>2, SameLinkGood
  <1>2. ASSUME NEW v \in {"none", "request", "wait", "done"}
        PROVE  [p EXCEPT !.isdu_phase = v] \in Kept(p)
    <2>1. [p EXCEPT !.isdu_phase = v] \in Ports
      BY <1>0, ZenonT(40) DEF Ports
    <2>2. SameLink(p, [p EXCEPT !.isdu_phase = v])
      BY <1>0 DEF Ports, SameLink
    <2> QED
      BY <2>1, <2>2, SameLinkGood
  <1>3. ASSUME NEW v \in {"none", "idle", "abort"}
        PROVE  [p EXCEPT !.isdu_pending = v] \in Kept(p)
    <2>1. [p EXCEPT !.isdu_pending = v] \in Ports
      BY <1>0, ZenonT(40) DEF Ports
    <2>2. SameLink(p, [p EXCEPT !.isdu_pending = v])
      BY <1>0 DEF Ports, SameLink
    <2> QED
      BY <2>1, <2>2, SameLinkGood
  <1>4. ASSUME NEW v \in DevIds \cup {"none", "error"}
        PROVE  [p EXCEPT !.isdu_result = v] \in Kept(p)
    <2>1. [p EXCEPT !.isdu_result = v] \in Ports
      BY <1>0, ZenonT(40) DEF Ports
    <2>2. SameLink(p, [p EXCEPT !.isdu_result = v])
      BY <1>0 DEF Ports, SameLink
    <2> QED
      BY <2>1, <2>2, SameLinkGood
  <1>5. ASSUME NEW v \in {"none", "read", "read_ack", "write", "done"}
        PROVE  [p EXCEPT !.event = v] \in Kept(p)
    <2>1. [p EXCEPT !.event = v] \in Ports
      BY <1>0, ZenonT(40) DEF Ports
    <2>2. SameLink(p, [p EXCEPT !.event = v])
      BY <1>0 DEF Ports, SameLink
    <2> QED
      BY <2>1, <2>2, SameLinkGood
  <1>6. ASSUME NEW v \in DevIds \cup {"none"}
        PROVE  [p EXCEPT !.device_info = v] \in Kept(p)
    <2>1. [p EXCEPT !.device_info = v] \in Ports
      BY <1>0, ZenonT(40) DEF Ports
    <2>2. SameLink(p, [p EXCEPT !.device_info = v])
      BY <1>0 DEF Ports, SameLink
    <2> QED
      BY <2>1, <2>2, SameLinkGood
  <1> QED
    BY <1>1, <1>2, <1>3, <1>4, <1>5, <1>6

\* Assigning the receive path and the line leaves the link alone.
LEMMA PutWire ==
    ASSUME NEW p \in Good
    PROVE  /\ \A v \in Seq(Octets) : [p EXCEPT !.rx = v] \in Kept(p)
           /\ \A v \in Seq(Octets) : [p EXCEPT !.fifo = v] \in Kept(p)
           /\ \A v \in Kinds : [p EXCEPT !.tx = v] \in Kept(p)
           /\ \A v \in Seq(Shapes) : [p EXCEPT !.owed = v] \in Kept(p)
  <1>0. p \in Ports
    BY DEF Good
  <1>1. ASSUME NEW v \in Seq(Octets)
        PROVE  [p EXCEPT !.rx = v] \in Kept(p)
    <2>1. [p EXCEPT !.rx = v] \in Ports
      BY <1>0, ZenonT(40) DEF Ports
    <2>2. SameLink(p, [p EXCEPT !.rx = v])
      BY <1>0 DEF Ports, SameLink
    <2> QED
      BY <2>1, <2>2, SameLinkGood
  <1>2. ASSUME NEW v \in Seq(Octets)
        PROVE  [p EXCEPT !.fifo = v] \in Kept(p)
    <2>1. [p EXCEPT !.fifo = v] \in Ports
      BY <1>0, ZenonT(40) DEF Ports
    <2>2. SameLink(p, [p EXCEPT !.fifo = v])
      BY <1>0 DEF Ports, SameLink
    <2> QED
      BY <2>1, <2>2, SameLinkGood
  <1>3. ASSUME NEW v \in Kinds
        PROVE  [p EXCEPT !.tx = v] \in Kept(p)
    <2>1. [p EXCEPT !.tx = v] \in Ports
      BY <1>0, ZenonT(40) DEF Ports
    <2>2. SameLink(p, [p EXCEPT !.tx = v])
      BY <1>0 DEF Ports, SameLink
    <2> QED
      BY <2>1, <2>2, SameLinkGood
  <1>4. ASSUME NEW v \in Seq(Shapes)
        PROVE  [p EXCEPT !.owed = v] \in Kept(p)
    <2>1. [p EXCEPT !.owed = v] \in Ports
      BY <1>0, ZenonT(40) DEF Ports
    <2>2. SameLink(p, [p EXCEPT !.owed = v])
      BY <1>0 DEF Ports, SameLink
    <2> QED
      BY <2>1, <2>2, SameLinkGood
  <1> QED
    BY <1>1, <1>2, <1>3, <1>4

\* Assigning the state, the step, the scan index or the mode changes that one
\* part of the link.
LEMMA PutLink ==
    ASSUME NEW p \in Ports
    PROVE  /\ \A v \in States : LET q == [p EXCEPT !.state = v]
                               IN  /\ q \in Ports /\ q.state = v
                                   /\ q.step = p.step
                                   /\ q.baudrate_index = p.baudrate_index
                                   /\ q.phy_mode = p.phy_mode
                                   /\ q.phy_rate = p.phy_rate
           /\ \A v \in Steps : LET q == [p EXCEPT !.step = v]
                              IN  /\ q \in Ports /\ q.step = v
                                  /\ q.state = p.state
                                  /\ q.baudrate_index = p.baudrate_index
                                  /\ q.phy_mode = p.phy_mode
                                  /\ q.phy_rate = p.phy_rate
           /\ \A v \in 0..LastRate :
                 LET q == [p EXCEPT !.baudrate_index = v]
                 IN  /\ q \in Ports /\ q.baudrate_index = v
                     /\ q.state = p.state /\ q.step = p.step
                     /\ q.phy_mode = p.phy_mode
           /\ \A v \in Modes :
                 LET q == [p EXCEPT !.phy_mode = v]
                 IN  /\ q \in Ports /\ q.phy_mode = v
                     /\ q.state = p.state /\ q.step = p.step
                     /\ q.baudrate_index = p.baudrate_index
                     /\ q.phy_rate = p.phy_rate
  <1>1. ASSUME NEW v \in States
        PROVE  LET q == [p EXCEPT !.state = v]
               IN  /\ q \in Ports /\ q.state = v
                   /\ q.step = p.step
                   /\ q.baudrate_index = p.baudrate_index
                   /\ q.phy_mode = p.phy_mode
                   /\ q.phy_rate = p.phy_rate
    <2>1. [p EXCEPT !.state = v] \in Ports
      BY ZenonT(40) DEF Ports
    <2> QED
      BY <2>1 DEF Ports
  <1>2. ASSUME NEW v \in Steps
        PROVE  LET q == [p EXCEPT !.step = v]
               IN  /\ q \in Ports /\ q.step = v
                   /\ q.state = p.state
                   /\ q.baudrate_index = p.baudrate_index
                   /\ q.phy_mode = p.phy_mode
                   /\ q.phy_rate = p.phy_rate
    <2>1. [p EXCEPT !.step = v] \in Ports
      BY ZenonT(40) DEF Ports
    <2> QED
      BY <2>1 DEF Ports
  <1>3. ASSUME NEW v \in 0..LastRate
        PROVE  LET q == [p EXCEPT !.baudrate_index = v]
               IN  /\ q \in Ports /\ q.baudrate_index = v
                   /\ q.state = p.state
                   /\ q.step = p.step
                   /\ q.phy_mode = p.phy_mode
    <2>1. [p EXCEPT !.baudrate_index = v] \in Ports
      BY ZenonT(40) DEF Ports
    <2> QED
      BY <2>1 DEF Ports
  <1>4. ASSUME NEW v \in Modes
        PROVE  LET q == [p EXCEPT !.phy_mode = v]
               IN  /\ q \in Ports /\ q.phy_mode = v
                   /\ q.state = p.state
                   /\ q.step = p.step
                   /\ q.baudrate_index = p.baudrate_index
                   /\ q.phy_rate = p.phy_rate
    <2>1. [p EXCEPT !.phy_mode = v] \in Ports
      BY ZenonT(40) DEF Ports
    <2> QED
      BY <2>1 DEF Ports
  <1> QED
    BY <1>1, <1>2, <1>3, <1>4

\* A new step other than the pause, out of the pause, keeps a good port good.
LEMMA MoveStep ==
    ASSUME NEW p \in Good, NEW s \in Steps, s # "INACTIVE",
           p.state = "STARTUP" => p.step # "INACTIVE"
    PROVE  LET q == [p EXCEPT !.step = s]
           IN  q \in Good /\ q.state = p.state /\ q.step = s
  <1> DEFINE q == [p EXCEPT !.step = s]
  <1>1. p \in Ports
    BY DEF Good
  <1>2. /\ q \in Ports /\ q.step = s /\ q.state = p.state
        /\ q.baudrate_index = p.baudrate_index
        /\ q.phy_mode = p.phy_mode /\ q.phy_rate = p.phy_rate
    BY <1>1, PutLink
  <1> HIDE DEF q
  <1>3. q \in Good
    BY <1>2 DEF Good, Agrees, ScanRate
  <1> QED
    BY <1>2, <1>3 DEF q

\* A linked port may move to any state with communication.
LEMMA MoveState ==
    ASSUME NEW p \in Good, Linked(p), NEW s \in {"PREOPERATE", "OPERATE"}
    PROVE  LET q == [p EXCEPT !.state = s]
           IN  q \in Good /\ q.state = s
  <1> DEFINE q == [p EXCEPT !.state = s]
  <1>1. p \in Ports
    BY DEF Good
  <1>2. s \in States
    BY Literals
  <1>3. /\ q \in Ports /\ q.state = s
        /\ q.baudrate_index = p.baudrate_index
        /\ q.phy_mode = p.phy_mode /\ q.phy_rate = p.phy_rate
    BY <1>1, <1>2, PutLink
  <1> HIDE DEF q
  <1>4. q \in Good
    BY <1>3 DEF Good, Agrees, ScanRate, Linked
  <1> QED
    BY <1>3, <1>4 DEF q

-----------------------------------------------------------------------------
(* The PHY helpers.                                                        *)

\* A port in ERROR promises nothing of the PHY.
LEMMA ErrorGood ==
    ASSUME NEW p \in Ports
    PROVE  Error(p) \in Good /\ Failed(Error(p))
  <1>1. Error(p) \in Ports /\ Error(p).state = "ERROR"
    BY PutLink, Literals DEF Error
  <1> QED
    BY <1>1 DEF Good, Agrees, Failed

\* Whatever a call returns in ERROR is what a failing call may return.
LEMMA ErrorKept ==
    ASSUME NEW p \in Good, NEW q \in Good
    PROVE  Error(q) \in KeptOrFailed(p)
BY ErrorGood DEF KeptOrFailed, Good

\* flush_rx leaves the link alone, whether or not it fails.
LEMMA FlushRxLink ==
    ASSUME NEW p \in Ports, NEW c
    PROVE  FlushRx(p, c) \in Ports /\ SameLink(p, FlushRx(p, c))
  <1> DEFINE fifo == IF c.fail = "flush_rx" THEN p.fifo ELSE <<>>
             q == [p EXCEPT !.rx = <<>>, !.fifo = fifo]
  <1>1. fifo \in Seq(Octets) /\ <<>> \in Seq(Octets)
    BY EmptySeq DEF Ports
  <1>2. FlushRx(p, c) = q
    BY DEF FlushRx
  <1> HIDE DEF fifo
  <1>3. q \in Ports
    BY <1>1, ZenonT(40) DEF Ports
  <1>4. SameLink(p, q)
    BY DEF Ports, SameLink
  <1> QED
    BY <1>2, <1>3, <1>4

\* The same of a good port: it stays good (flush_rx).
LEMMA FlushRxKept ==
    ASSUME NEW p \in Good, NEW c
    PROVE  FlushRx(p, c) \in Kept(p)
BY FlushRxLink, SameLinkGood DEF Good

\* After a successful set_baudrate the PHY has the rate of the port, whatever
\* it had before; state, step and mode are left alone.
LEMMA SetBaudrateLink ==
    ASSUME NEW p \in Ports, NEW c
    PROVE  LET q == SetBaudrate(p, c)
           IN  /\ q \in Ports
               /\ \/ q \in Good /\ Failed(q)
                  \/ /\ q.state = p.state /\ q.step = p.step
                     /\ q.phy_mode = p.phy_mode
                     /\ q.phy_rate = ScanRate(q)
  <1>1. CASE c.fail = "set_baudrate"
    BY <1>1, ErrorGood DEF SetBaudrate, Good
  <1>2. CASE c.fail # "set_baudrate"
    <2> DEFINE rate == ScanRate(p)
               owed == IF p.phy_rate = rate THEN p.owed ELSE <<>>
               q == [p EXCEPT !.phy_rate = rate, !.owed = owed]
    <2>1. owed \in Seq(Shapes) /\ rate \in 0..LastRate
      BY ScanRateType, EmptySeq DEF Ports
    <2>2. SetBaudrate(p, c) = q
      BY <1>2 DEF SetBaudrate
    <2> HIDE DEF owed, rate
    <2>3. q \in Ports
      BY <2>1, ZenonT(40) DEF Ports
    <2>4. /\ q.state = p.state /\ q.step = p.step /\ q.phy_mode = p.phy_mode
          /\ q.baudrate_index = p.baudrate_index /\ q.phy_rate = rate
      BY DEF Ports
    <2> HIDE DEF q
    <2>5. ScanRate(q) = rate
      BY <2>4 DEF ScanRate, rate
    <2> QED
      BY <2>2, <2>3, <2>4, <2>5
  <1> QED
    BY <1>1, <1>2

\* Sending leaves the link alone, or fails.
LEMMA SendFullKept ==
    ASSUME NEW p \in Good, NEW kind \in Kinds, NEW read \in BOOLEAN,
           NEW reply \in Shapes, NEW c
    PROVE  SendFull(p, kind, read, reply, c) \in KeptOrFailed(p)
  <1>1. CASE c.fail = "send"
    BY <1>1, ErrorKept DEF SendFull
  <1>2. CASE c.fail # "send"
    <2> DEFINE owed == Owe(p.owed, reply)
               r == [p EXCEPT !.rx_od_expected = read]
               t == [r EXCEPT !.tx = kind]
               q == [t EXCEPT !.owed = owed]
    <2>1. owed \in Seq(Shapes)
      BY OweType DEF Good, Ports
    <2>2. SendFull(p, kind, read, reply, c) = q
      <3>1. t.owed = p.owed
        BY DEF Good, Ports
      <3> QED
        BY <1>2, <3>1 DEF SendFull
    <2> HIDE DEF owed
    <2>3. r \in Kept(p)
      BY PutFlags
    <2> HIDE DEF r
    <2>4. t \in Kept(r)
      BY <2>3, PutWire, KeptTrans
    <2> HIDE DEF t
    <2>5. r \in Good /\ t \in Good
      BY <2>3, <2>4, KeptTrans
    <2>6. q \in Kept(t)
      BY <2>1, <2>5, PutWire
    <2> HIDE DEF q
    <2> QED
      BY <2>2, <2>3, <2>4, <2>5, <2>6, KeptTrans
  <1> QED
    BY <1>1, <1>2

\* Arming the send gate touches nothing else.
LEMMA ArmSendGateKept ==
    ASSUME NEW p \in Good, NEW delay \in Nat, NEW timed
    PROVE  ArmSendGate(p, delay, timed) \in Kept(p)
BY PutTimers, KeptTrans DEF ArmSendGate

-----------------------------------------------------------------------------
(* Establishing and losing communication.                                  *)

\* Setting the PHY to another rate of the scan (establish_attempt_failed,
\* reset_rate_scan) leaves a linked port linked, or fails.
LEMMA ScanStep ==
    ASSUME NEW p \in Good, p.state = "STARTUP", p.step # "INACTIVE",
           NEW i \in 0..LastRate, NEW c
    PROVE  LET q == SetBaudrate([p EXCEPT !.baudrate_index = i], c)
           IN  /\ q \in Good
               /\ Failed(q) \/ (q.state = "STARTUP" /\ q.step = p.step)
  <1> DEFINE z == [p EXCEPT !.baudrate_index = i]
             q == SetBaudrate(z, c)
  <1>1. /\ z \in Ports /\ z.state = p.state /\ z.step = p.step
        /\ z.phy_mode = p.phy_mode
    BY PutLink DEF Good
  <1> HIDE DEF z
  <1>2. /\ q \in Ports
        /\ \/ q \in Good /\ Failed(q)
           \/ /\ q.state = z.state /\ q.step = z.step
              /\ q.phy_mode = z.phy_mode /\ q.phy_rate = ScanRate(q)
    BY <1>1, SetBaudrateLink
  <1>3. p.phy_mode # "INACTIVE"
    BY DEF Good, Agrees
  <1> HIDE DEF q
  <1>4. q \in Good /\ (Failed(q) \/ (q.state = "STARTUP" /\ q.step = p.step))
    BY <1>1, <1>2, <1>3 DEF Good, Agrees
  <1> QED
    BY <1>4 DEF q, z

\* The scan goes back to its first rate together with the PHY (reset_rate_scan).
LEMMA ResetRateScanGood ==
    ASSUME NEW p \in Good, p.state = "STARTUP", p.step # "INACTIVE", NEW c
    PROVE  LET q == ResetRateScan(p, c)
           IN  /\ q \in Good
               /\ Failed(q) \/ (q.state = "STARTUP" /\ q.step = p.step)
BY ScanStep, Literals DEF ResetRateScan

\* COMLOST ends in STARTUP with the PHY still in SDCI mode (restart_establish).
LEMMA RestartEstablishGood ==
    ASSUME NEW p \in Good, p.state \in {"PREOPERATE", "OPERATE"},
           NEW timed, NEW c
    PROVE  RestartEstablish(p, timed, c) \in Good
  <1> DEFINE v == [p EXCEPT !.state = "STARTUP"]
             w == [v EXCEPT !.step = "WAKE"]
             x == [w EXCEPT !.wake_attempts = 0]
             y == [x EXCEPT !.rx_retry_count = 0]
             z == [y EXCEPT !.awaiting_response = FALSE]
             q == ResetRateScan(z, c)
  <1>1. /\ v \in Ports /\ v.state = "STARTUP"
        /\ v.baudrate_index = p.baudrate_index
        /\ v.phy_mode = p.phy_mode /\ v.phy_rate = p.phy_rate
    BY Literals, PutLink DEF Good
  <1> HIDE DEF v
  <1>2. /\ w \in Ports /\ w.state = "STARTUP" /\ w.step = "WAKE"
        /\ w.baudrate_index = p.baudrate_index
        /\ w.phy_mode = p.phy_mode /\ w.phy_rate = p.phy_rate
    BY <1>1, Literals, PutLink
  <1> HIDE DEF w
  <1>3. w \in Good
    BY <1>2 DEF Good, Agrees, ScanRate
  <1>4. x \in Kept(w)
    BY <1>3, Literals, PutCounters
  <1> HIDE DEF x
  <1>5. y \in Kept(x)
    BY <1>3, <1>4, Literals, PutCounters, KeptTrans
  <1> HIDE DEF y
  <1>6. z \in Kept(y)
    BY <1>3, <1>4, <1>5, PutFlags, KeptTrans
  <1> HIDE DEF z
  <1>7. z \in Kept(w)
    BY <1>3, <1>4, <1>5, <1>6, KeptTrans
  <1>8. z \in Good /\ z.state = "STARTUP" /\ z.step = "WAKE"
    BY <1>2, <1>7 DEF Kept, SameLink
  <1>9. q \in Good
    BY <1>8, ResetRateScanGood
  <1>10. RestartEstablish(p, timed, c)
            = IF Failed(q) THEN q ELSE ArmSendGate(q, TDwu, timed)
    BY DEF RestartEstablish, z, y, x, w, v
  <1>11. TDwu \in Nat
    BY TimesAssumption
  <1> HIDE DEF q
  <1> QED
    BY <1>9, <1>10, <1>11, ArmSendGateKept, KeptTrans

\* The next rate of the scan (establish_attempt_failed, Figure 36 T16, T17).
LEMMA NextRateGood ==
    ASSUME NEW p \in Good, p.state = "STARTUP", p.step # "INACTIVE",
           MoreRates(p), NEW c
    PROVE  NextRate(p, c) \in Good
  <1> DEFINE i == p.baudrate_index + 1
             q == SetBaudrate([p EXCEPT !.baudrate_index = i], c)
             s == [q EXCEPT !.step = "SEND_TYPE0"]
  <1>1. i \in 0..LastRate
    BY DEF Good, Ports, MoreRates, LastRate
  <1>2. NextRate(p, c) = IF Failed(q) THEN q ELSE ArmSendGate(s, TDmt, Timed)
    BY DEF NextRate
  <1> HIDE DEF i
  <1>3. q \in Good /\ (Failed(q) \/ (q.state = "STARTUP" /\ q.step = p.step))
    BY <1>1, ScanStep
  <1> HIDE DEF q
  <1>4. CASE Failed(q)
    BY <1>2, <1>3, <1>4
  <1>5. CASE ~Failed(q)
    <2>1. s \in Good
      BY <1>3, <1>5, Literals, MoveStep
    <2> HIDE DEF s
    <2>2. TDmt \in Nat
      BY TimesAssumption
    <2> QED
      BY <1>2, <1>5, <2>1, <2>2, ArmSendGateKept, KeptTrans
  <1> QED
    BY <1>4, <1>5

\* The PHY goes inactive together with the step (establish_attempt_failed).
LEMMA GiveUpSequenceGood ==
    ASSUME NEW p \in Good, p.state = "STARTUP", NEW c
    PROVE  GiveUpSequence(p, c) \in Good
  <1> DEFINE z == [p EXCEPT !.wake_attempts = 0]
             m == [z EXCEPT !.phy_mode = "INACTIVE"]
             s == [m EXCEPT !.step = "INACTIVE"]
  <1>1. z \in Kept(p)
    BY Literals, PutCounters
  <1> HIDE DEF z
  <1>2. z \in Ports /\ z \in Good /\ z.state = "STARTUP"
    BY <1>1 DEF Kept, Good, SameLink
  <1>3. CASE c.fail = "set_mode"
    <2>1. SetMode(z, "INACTIVE", c) = Error(z)
      BY <1>3 DEF SetMode
    <2> QED
      BY <1>2, <2>1, ErrorGood DEF GiveUpSequence, z
  <1>4. CASE c.fail # "set_mode"
    <2>1. /\ m \in Ports /\ m.phy_mode = "INACTIVE" /\ m.state = "STARTUP"
          /\ m.baudrate_index = z.baudrate_index /\ m.phy_rate = z.phy_rate
      BY <1>2, Literals, PutLink
    <2>2. SetMode(z, "INACTIVE", c) = m /\ ~Failed(m)
      BY <1>4, <2>1 DEF SetMode, Failed
    <2> HIDE DEF m
    <2>3. /\ s \in Ports /\ s.step = "INACTIVE" /\ s.state = "STARTUP"
          /\ s.phy_mode = "INACTIVE"
          /\ s.baudrate_index = z.baudrate_index /\ s.phy_rate = z.phy_rate
      BY <2>1, Literals, PutLink
    <2>4. GiveUpSequence(p, c) = ArmSendGate(s, TSd, Timed)
      BY <2>2 DEF GiveUpSequence, z
    <2> HIDE DEF s
    <2>5. s \in Good
      BY <1>2, <2>3 DEF Good, Agrees, ScanRate
    <2>6. TSd \in Nat
      BY TimesAssumption
    <2> QED
      BY <2>4, <2>5, <2>6, ArmSendGateKept, KeptTrans
  <1> QED
    BY <1>3, <1>4

\* A failed attempt moves on to the next rate, wake-up or pause.
LEMMA EstablishAttemptFailedGood ==
    ASSUME NEW p \in Good, p.state = "STARTUP", p.step # "INACTIVE", NEW c
    PROVE  EstablishAttemptFailed(p, c) \in Good
  <1> DEFINE a == [p EXCEPT !.awaiting_response = FALSE]
             n == (a.wake_attempts + 1) % 256
             z == [a EXCEPT !.wake_attempts = n]
             q == ResetRateScan(z, c)
             s == [q EXCEPT !.step = "WAKE"]
  <1>1. EstablishAttemptFailed(p, c)
           = IF MoreRates(a) THEN NextRate(a, c)
             ELSE IF Failed(q) THEN q
             ELSE IF MoreWakeUps(q) THEN ArmSendGate(s, TDwu, Timed)
             ELSE GiveUpSequence(q, c)
    BY DEF EstablishAttemptFailed
  <1>2. a \in Kept(p)
    BY PutFlags
  <1> HIDE DEF a
  <1>3. a \in Good /\ a.state = "STARTUP" /\ a.step # "INACTIVE"
    BY <1>2 DEF Kept, SameLink
  <1>4. n \in 0..255
    <2>1. a.wake_attempts \in 0..255
      BY <1>3 DEF Good, Ports
    <2> QED
      BY <2>1
  <1> HIDE DEF n
  <1>5. z \in Kept(a)
    BY <1>3, <1>4, PutCounters
  <1> HIDE DEF z
  <1>6. z \in Good /\ z.state = "STARTUP" /\ z.step # "INACTIVE"
    BY <1>3, <1>5 DEF Kept, SameLink
  <1>7. q \in Good /\ (Failed(q) \/ (q.state = "STARTUP" /\ q.step = z.step))
    BY <1>6, ResetRateScanGood
  <1> HIDE DEF q
  <1>8. CASE MoreRates(a)
    BY <1>1, <1>3, <1>8, NextRateGood
  <1>9. CASE ~MoreRates(a) /\ ~Failed(q) /\ MoreWakeUps(q)
    <2>1. s \in Good
      BY <1>6, <1>7, <1>9, Literals, MoveStep
    <2> HIDE DEF s
    <2>2. TDwu \in Nat
      BY TimesAssumption
    <2> QED
      BY <1>1, <1>9, <2>1, <2>2, ArmSendGateKept, KeptTrans
  <1>10. CASE ~MoreRates(a) /\ ~Failed(q) /\ ~MoreWakeUps(q)
    BY <1>1, <1>7, <1>10, GiveUpSequenceGood
  <1> QED
    BY <1>1, <1>7, <1>8, <1>9, <1>10

\* A timeout retries, restarts the wake-up procedure or moves it on.
LEMMA OnTimeoutAtGood ==
    ASSUME NEW p \in Good, NEW c
    PROVE  OnTimeoutAt(p, c) \in Good
  <1> DEFINE q == FlushRx(p, c)
             n == q.rx_retry_count + 1
             t == [q EXCEPT !.rx_retry_count = n]
  <1>1. OnTimeoutAt(p, c)
           = IF c.fail = "flush_rx" THEN Error(q)
             ELSE IF q.state = "OPERATE"
             THEN IF MoreRetries(q) THEN t ELSE RestartEstablish(q, Timed, c)
             ELSE IF q.state = "STARTUP" /\ q.step # "INACTIVE"
             THEN EstablishAttemptFailed(q, c)
             ELSE q
    BY DEF OnTimeoutAt
  <1>2. q \in Good /\ q \in Ports
    BY FlushRxKept, KeptTrans DEF Good
  <1> HIDE DEF q
  <1>3. CASE MoreRetries(q)
    <2>1. n \in 0..RxRetryLimit
      BY <1>2, <1>3 DEF MoreRetries, Ports, RxRetryLimit
    <2> HIDE DEF n
    <2>2. t \in Good
      BY <1>2, <2>1, PutCounters, KeptTrans
    <2> HIDE DEF t
    <2> QED
      BY <1>1, <1>2, <1>3, <2>2, ErrorGood, EstablishAttemptFailedGood
  <1>4. CASE ~MoreRetries(q)
    BY <1>1, <1>2, <1>4, ErrorGood, EstablishAttemptFailedGood,
       RestartEstablishGood
  <1> QED
    BY <1>3, <1>4

-----------------------------------------------------------------------------
(* Receiving.                                                              *)

\* An OD octet moves the ISDU service on and leaves the link alone.
LEMMA IsduOnOdKept ==
    ASSUME NEW p \in Good, NEW od \in OdOctets, NEW c
    PROVE  IsduOnOd(p, od, c) \in Kept(p)
  <1> DEFINE r == [p EXCEPT !.isdu_phase = "done"]
             pend == CASE c.svc = "abort" -> "abort"
                       [] c.svc = "seg" -> r.isdu_pending
                       [] OTHER -> "idle"
             s == [r EXCEPT !.isdu_pending = pend]
             res == IF c.svc = "ok" THEN od ELSE "error"
             t == [s EXCEPT !.isdu_result = res]
  <1>1. CASE p.isdu_phase # "wait" \/ od = "idle" \/ c.svc = "more"
    BY <1>1, KeptTrans DEF IsduOnOd
  <1>2. CASE ~(p.isdu_phase # "wait" \/ od = "idle" \/ c.svc = "more")
    <2>1. IsduOnOd(p, od, c) = t
      <3>1. r.isdu_pending = p.isdu_pending
        BY DEF Good, Ports
      <3> QED
        BY <1>2, <3>1 DEF IsduOnOd
    <2>2. r \in Kept(p)
      BY PutService
    <2> HIDE DEF r
    <2>3. r \in Good
      BY <2>2, KeptTrans
    <2>4. pend \in {"none", "idle", "abort"}
      <3>1. r.isdu_pending \in {"none", "idle", "abort"}
        BY <2>3 DEF Good, Ports
      <3> QED
        BY <3>1
    <2> HIDE DEF pend
    <2>5. s \in Kept(r)
      BY <2>3, <2>4, PutService
    <2> HIDE DEF s
    <2>6. s \in Good /\ s \in Kept(p)
      BY <2>2, <2>3, <2>5, KeptTrans
    <2>7. res \in DevIds \cup {"none", "error"}
      BY <1>2 DEF OdOctets
    <2> HIDE DEF res
    <2>8. t \in Kept(s)
      BY <2>6, <2>7, PutService
    <2> HIDE DEF t
    <2> QED
      BY <2>1, <2>6, <2>8, KeptTrans
  <1> QED
    BY <1>1, <1>2

\* Only the service that is active consumes the OD octet (route_od).
LEMMA RouteOdKept ==
    ASSUME NEW p \in Good, NEW od \in OdOctets, NEW c
    PROVE  RouteOd(p, od, c) \in Kept(p)
  <1> DEFINE q == [p EXCEPT !.event_od_expected = FALSE]
             e == IF q.event = "read_ack" THEN "write" ELSE "done"
             r == [q EXCEPT !.event = e]
  <1>1. EventOnOd(q, c) = IF c.svc = "more" THEN q ELSE r
    BY DEF EventOnOd
  <1>2. q \in Kept(p)
    BY PutFlags
  <1>3. RouteOd(p, od, c) \in {EventOnOd(q, c), p, IsduOnOd(p, od, c)}
    BY DEF RouteOd
  <1> HIDE DEF q
  <1>4. e \in {"none", "read", "read_ack", "write", "done"}
    OBVIOUS
  <1> HIDE DEF e
  <1>5. r \in Kept(q)
    BY <1>2, <1>4, KeptTrans, PutService
  <1> HIDE DEF r
  <1>6. EventOnOd(q, c) \in Kept(p)
    BY <1>1, <1>2, <1>5, KeptTrans
  <1> QED
    BY <1>3, <1>6, IsduOnOdKept, KeptTrans

\* A reply taken resets the retry counter and the wait (on_rx).
LEMMA ReplyTakenKept ==
    ASSUME NEW p \in Good
    PROVE  ReplyTaken(p) \in Kept(p)
  <1> DEFINE q == [p EXCEPT !.rx_retry_count = 0]
             r == [q EXCEPT !.awaiting_response = FALSE]
  <1>1. ReplyTaken(p) = r
    BY DEF ReplyTaken
  <1>2. q \in Kept(p)
    BY Literals, PutCounters
  <1> HIDE DEF q
  <1>3. r \in Kept(q)
    BY <1>2, KeptTrans, PutFlags
  <1> HIDE DEF r
  <1> QED
    BY <1>1, <1>2, <1>3, KeptTrans

\* A bad checksum costs a retry or the connection (on_rx).
LEMMA ChecksumErrorGood ==
    ASSUME NEW p \in Good, p.state \in {"PREOPERATE", "OPERATE"}, NEW c
    PROVE  ChecksumError(p, c) \in Good
  <1> DEFINE n == p.rx_retry_count + 1
             t == [p EXCEPT !.rx_retry_count = n]
  <1>1. CASE MoreRetries(p)
    <2>1. n \in 0..RxRetryLimit
      BY <1>1 DEF MoreRetries, Good, Ports, RxRetryLimit
    <2>2. ChecksumError(p, c) = t
      BY <1>1 DEF ChecksumError
    <2> HIDE DEF n
    <2> QED
      BY <2>1, <2>2, PutCounters, KeptTrans
  <1>2. CASE ~MoreRetries(p)
    BY <1>2, RestartEstablishGood DEF ChecksumError
  <1> QED
    BY <1>1, <1>2

\* The answer to a test message takes the port to PREOPERATE (on_rx).
LEMMA OnRxStartupGood ==
    ASSUME NEW p \in Good, p.state = "STARTUP", p.step = "AWAIT_RESPONSE"
    PROVE  OnRxStartup(p) \in Good /\ OnRxStartup(p).state = "PREOPERATE"
  <1> DEFINE r == ReplyTaken(p)
             s == [r EXCEPT !.wake_attempts = 0]
             t == [s EXCEPT !.state = "PREOPERATE"]
  <1>1. OnRxStartup(p) = t
    BY DEF OnRxStartup
  <1>2. r \in Kept(p)
    BY ReplyTakenKept
  <1> HIDE DEF r
  <1>3. s \in Kept(r)
    BY <1>2, Literals, KeptTrans, PutCounters
  <1> HIDE DEF s
  <1>4. s \in Kept(p)
    BY <1>2, <1>3, KeptTrans
  <1>5. s \in Good /\ Linked(s)
    BY <1>4 DEF Kept, SameLink, Linked
  <1>6. t \in Good /\ t.state = "PREOPERATE"
    BY <1>5, MoveState
  <1> QED
    BY <1>1, <1>6

\* The acknowledged DeviceOperate takes the port to OPERATE (on_rx).
LEMMA OnRxOperateAckGood ==
    ASSUME NEW p \in Good, p.state = "PREOPERATE", NEW f
    PROVE  OnRxOperateAck(p, f) \in Good /\ OnRxOperateAck(p, f).state = "OPERATE"
  <1> DEFINE r == ReplyTaken(p)
             b == (f[1] = "cks_event")
             s == [r EXCEPT !.event_pending = b]
             t == [s EXCEPT !.state = "OPERATE"]
  <1>1. OnRxOperateAck(p, f) = t
    BY DEF OnRxOperateAck
  <1>2. r \in Kept(p)
    BY ReplyTakenKept
  <1> HIDE DEF r
  <1>3. b \in BOOLEAN
    OBVIOUS
  <1> HIDE DEF b
  <1>4. s \in Kept(r)
    BY <1>2, <1>3, KeptTrans, PutFlags
  <1> HIDE DEF s
  <1>5. s \in Kept(p)
    BY <1>2, <1>4, KeptTrans
  <1>6. s \in Good /\ Linked(s)
    BY <1>5 DEF Kept, SameLink, Linked
  <1>7. t \in Good /\ t.state = "OPERATE"
    BY <1>6, MoveState
  <1> QED
    BY <1>1, <1>7

\* A cyclic reply leaves the link alone (on_rx).
LEMMA OnRxTypedKept ==
    ASSUME NEW p \in Good, NEW f, NEW c,
           p.rx_od_expected => f[1] \in OdOctets
    PROVE  OnRxTyped(p, f, c) \in Kept(p)
  <1> DEFINE r == ReplyTaken(p)
             b == (f[Len(f)] = "cks_event")
             s == [r EXCEPT !.event_pending = b]
             d == (s.pd_valid \/ f[Len(f)] # "cks_invalid")
             q == [s EXCEPT !.pd_valid = d]
             x == (q.event_od_expected /\ ~EventReading(q))
             z == [q EXCEPT !.event_od_expected = x]
  <1>1. r \in Kept(p)
    BY ReplyTakenKept
  <1>2. OnRxTyped(p, f, c)
           = IF p.rx_od_expected THEN RouteOd(q, f[1], c) ELSE z
    <2>1. s.pd_valid = r.pd_valid
      BY <1>1 DEF Kept, Good, Ports
    <2> QED
      BY <2>1 DEF OnRxTyped
  <1> HIDE DEF r
  <1>3. b \in BOOLEAN /\ d \in BOOLEAN /\ x \in BOOLEAN
    OBVIOUS
  <1> HIDE DEF b
  <1>4. s \in Kept(r)
    BY <1>1, <1>3, KeptTrans, PutFlags
  <1> HIDE DEF s, d
  <1>5. s \in Kept(p) /\ s \in Good
    BY <1>1, <1>4, KeptTrans
  <1>6. q \in Kept(s)
    BY <1>3, <1>5, PutFlags
  <1> HIDE DEF q, x
  <1>7. q \in Kept(p) /\ q \in Good
    BY <1>5, <1>6, KeptTrans
  <1>8. z \in Kept(q)
    BY <1>3, <1>7, PutFlags
  <1> HIDE DEF z
  <1>9. p.rx_od_expected => RouteOd(q, f[1], c) \in Kept(q)
    BY <1>7, RouteOdKept
  <1> QED
    BY <1>2, <1>7, <1>8, <1>9, KeptTrans

\* The first octet of an accepted reply that carries OD is an OD octet.
LEMMA FirstOctet ==
    ASSUME NEW p, NEW f, Accepts(p, f),
           ExpectedReply(p) \in {<<"od", "cks">>, <<"od", "pd", "cks">>}
    PROVE  f[1] \in OdOctets
  <1> DEFINE shape == ExpectedReply(p)
  <1>1. Intact(shape, f)
    BY DEF Accepts
  <1>2. shape[1] = "od" /\ Len(shape) \in {2, 3}
    OBVIOUS
  <1> HIDE DEF shape
  <1>3. 1 \in 1..Len(f)
    BY <1>1, <1>2 DEF Intact
  <1> QED
    BY <1>1, <1>2, <1>3 DEF Intact

\* A frame handed to on_rx leaves a good port; one it accepts leaves a port
\* that goes on polling.
LEMMA OnRxGood ==
    ASSUME NEW p \in Good, Polled(p), NEW f, NEW c
    PROVE  /\ OnRx(p, f, c) \in Good
           /\ Accepts(p, f) => Polled(OnRx(p, f, c))
  <1>1. CASE Accepts(p, f) /\ p.state = "STARTUP"
    <2>1. p.step = "AWAIT_RESPONSE"
      BY <1>1 DEF Accepts
    <2>2. OnRx(p, f, c) = OnRxStartup(p)
      BY <1>1 DEF OnRx
    <2> QED
      BY <1>1, <2>1, <2>2, OnRxStartupGood DEF Polled
  <1>2. CASE Accepts(p, f) /\ p.state = "OPERATE" /\ ~Type0
    <2>1. OnRx(p, f, c) = OnRxTyped(p, f, c)
      BY <1>2 DEF OnRx
    <2>2. p.rx_od_expected => f[1] \in OdOctets
      BY <1>2, FirstOctet DEF ExpectedReply, TypedReply
    <2> QED
      BY <1>2, <2>1, <2>2, OnRxTypedKept DEF Kept, SameLink, Polled
  <1>3. CASE /\ Accepts(p, f)
             /\ p.state = "PREOPERATE" /\ p.step = "AWAIT_OPERATE_ACK"
    <2>1. OnRx(p, f, c) = OnRxOperateAck(p, f)
      BY <1>3 DEF OnRx
    <2> QED
      BY <1>3, <2>1, OnRxOperateAckGood DEF Polled
  <1>4. CASE /\ Accepts(p, f)
             /\ \/ p.state = "OPERATE" /\ Type0
                \/ p.state = "PREOPERATE" /\ p.step # "AWAIT_OPERATE_ACK"
    <2> DEFINE r == ReplyTaken(p)
               q == RouteOd(r, f[1], c)
    <2>1. OnRx(p, f, c) = q
      BY <1>4 DEF OnRx
    <2>2. f[1] \in OdOctets
      BY <1>4, FirstOctet DEF ExpectedReply
    <2>3. r \in Kept(p)
      BY ReplyTakenKept
    <2> HIDE DEF r
    <2>4. q \in Kept(r)
      BY <2>2, <2>3, RouteOdKept, KeptTrans
    <2>5. q \in Kept(p)
      BY <2>3, <2>4, KeptTrans
    <2> HIDE DEF q
    <2> QED
      BY <1>4, <2>1, <2>5 DEF Kept, SameLink, Polled
  <1>5. CASE ~Accepts(p, f)
    <2>1. CASE p.state = "STARTUP" \/ Len(f) # Len(ExpectedReply(p))
      BY <1>5, <2>1 DEF OnRx
    <2>2. CASE ~(p.state = "STARTUP" \/ Len(f) # Len(ExpectedReply(p)))
      <3>1. p.state \in {"PREOPERATE", "OPERATE"}
        BY <2>2 DEF Polled
      <3>2. OnRx(p, f, c) = ChecksumError(p, c)
        BY <1>5, <2>2 DEF OnRx
      <3> QED
        BY <1>5, <3>1, <3>2, ChecksumErrorGood
    <2> QED
      BY <2>1, <2>2
  <1> QED
    BY <1>1, <1>2, <1>3, <1>4, <1>5 DEF Polled

\* Taking a frame out of the received octets leaves the link alone.
LEMMA ConsumedKept ==
    ASSUME NEW p \in Good, NEW k \in Nat
    PROVE  Consumed(p, k) \in Kept(p)
  <1> DEFINE buf == p.rx \o p.fifo
             rest == SubSeq(buf, k + 1, Len(buf))
             x == [p EXCEPT !.rx = <<>>]
             q == [x EXCEPT !.fifo = rest]
  <1>1. Consumed(p, k) = q
    BY DEF Consumed
  <1>2. p.rx \in Seq(Octets) /\ p.fifo \in Seq(Octets)
    BY DEF Good, Ports
  <1>3. buf \in Seq(Octets)
    BY <1>2, ConcatProperties
  <1> HIDE DEF buf
  <1>4. Len(buf) \in Nat /\ \A i \in 1..Len(buf) : buf[i] \in Octets
    BY <1>3, LenProperties, ElementOfSeq
  <1>5. \A i \in (k + 1)..Len(buf) : buf[i] \in Octets
    BY <1>4
  <1>6. rest \in Seq(Octets)
    BY <1>4, <1>5, SubSeqProperties
  <1> HIDE DEF rest
  <1>7. x \in Kept(p)
    BY PutWire, EmptySeq
  <1> HIDE DEF x
  <1>8. q \in Kept(x)
    BY <1>6, <1>7, PutWire, KeptTrans
  <1> HIDE DEF q
  <1> QED
    BY <1>1, <1>7, <1>8, KeptTrans

\* A complete frame goes through on_rx.
LEMMA PolledFrameType ==
    ASSUME NEW p \in Good, Polled(p), NEW frame, NEW c
    PROVE  PolledFrame(p, frame, c) \in Polls
  <1> DEFINE o == OnRx(p, frame, c)
             a == Accepts(p, frame)
  <1>1. o \in Good /\ (a => Polled(o))
    BY OnRxGood
  <1>2. a \in BOOLEAN
    BY DEF Accepts
  <1>3. PolledFrame(p, frame, c) = [ok |-> a, p |-> o]
    BY DEF PolledFrame
  <1> HIDE DEF o, a
  <1> QED
    BY <1>1, <1>2, <1>3 DEF Polls

\* Octets short of a frame are kept for the next poll.
LEMMA CollectType ==
    ASSUME NEW p \in Good, Polled(p), NEW k \in Nat, NEW c
    PROVE  Collect(p, k, c) \in Polls
  <1> DEFINE buf == p.rx \o p.fifo
             y == [p EXCEPT !.rx = buf]
             z == [y EXCEPT !.fifo = <<>>]
             r == PolledFrame(Consumed(p, k), SubSeq(buf, 1, k), c)
  <1>1. Collect(p, k, c) = IF Len(buf) < k THEN [ok |-> TRUE, p |-> z] ELSE r
    BY DEF Collect
  <1>2. buf \in Seq(Octets)
    BY ConcatProperties DEF Good, Ports
  <1> HIDE DEF buf
  <1>3. y \in Kept(p)
    BY <1>2, PutWire
  <1> HIDE DEF y
  <1>4. z \in Kept(y)
    BY <1>3, PutWire, EmptySeq, KeptTrans
  <1> HIDE DEF z
  <1>5. z \in Good /\ Polled(z)
    BY <1>3, <1>4 DEF Kept, SameLink, Polled
  <1>6. Consumed(p, k) \in Good /\ Polled(Consumed(p, k))
    BY ConsumedKept DEF Kept, SameLink, Polled
  <1>7. r \in Polls
    BY <1>6, PolledFrameType
  <1> HIDE DEF r
  <1> QED
    BY <1>1, <1>5, <1>7 DEF Polls

\* Collecting one frame.
LEMMA PollFrameType ==
    ASSUME NEW r \in Polls, NEW n \in Nat, NEW c
    PROVE  PollFrame(r, n, c) \in Polls
  <1> DEFINE k == FrameEnd(r.p, n)
  <1>1. r.p \in Good
    BY DEF Polls
  <1>2. k \in Nat
    BY <1>1, LenProperties DEF Good, Ports, FrameEnd
  <1>3. r.ok => Polled(r.p)
    BY DEF Polls
  <1>4. PollFrame(r, n, c)
           = IF ~r.ok \/ r.p.fifo = <<>> THEN r ELSE Collect(r.p, k, c)
    BY DEF PollFrame
  <1> HIDE DEF k
  <1> QED
    BY <1>1, <1>2, <1>3, <1>4, CollectType

\* poll_rx leaves a good port.
LEMMA PollRxGood ==
    ASSUME NEW p \in Good, NEW c
    PROVE  PollRx(p, c).p \in Good
  <1> DEFINE n == Len(ExpectedReply(p))
             r0 == [ok |-> TRUE, p |-> p]
             r1 == PollFrame(r0, n, c)
             r2 == PollFrame(r1, n, c)
             r3 == PollFrame(r2, n, c)
             r4 == PollFrame(r3, n, c)
             e == [Error(r4.p) EXCEPT !.rx = <<>>]
  <1>1. PollRx(p, c) = IF ~Polled(p) THEN r0
                       ELSE IF r4.ok /\ c.fail = "recv_byte"
                       THEN [ok |-> FALSE, p |-> e]
                       ELSE r4
    BY DEF PollRx
  <1>2. n \in Nat
    BY DEF ExpectedReply, TypedReply
  <1> HIDE DEF n
  <1>3. CASE ~Polled(p)
    BY <1>1, <1>3
  <1>4. CASE Polled(p)
    <2>1. r0 \in Polls
      BY <1>4 DEF Polls
    <2> HIDE DEF r0
    <2>2. r1 \in Polls
      BY <1>2, <2>1, PollFrameType
    <2> HIDE DEF r1
    <2>3. r2 \in Polls
      BY <1>2, <2>2, PollFrameType
    <2> HIDE DEF r2
    <2>4. r3 \in Polls
      BY <1>2, <2>3, PollFrameType
    <2> HIDE DEF r3
    <2>5. r4 \in Polls
      BY <1>2, <2>4, PollFrameType
    <2> HIDE DEF r4
    <2>6. r4.p \in Good
      BY <2>5 DEF Polls
    <2>7. e \in Good
      BY <2>6, ErrorGood, PutWire, EmptySeq, KeptTrans DEF Good
    <2> HIDE DEF e
    <2> QED
      BY <1>1, <1>4, <2>6, <2>7
  <1> QED
    BY <1>3, <1>4

-----------------------------------------------------------------------------
(* Sending.                                                                *)

\* One M-sequence of the event memory (send_event).
LEMMA SendEventKept ==
    ASSUME NEW p \in Good, NEW c
    PROVE  SendEvent(p, c) \in KeptOrFailed(p)
  <1> DEFINE read == EventReading(p)
             reply == IF Type0 THEN Type0Reply(read) ELSE TypedReply(read)
             q == SendFull(p, "event", read, reply, c)
             b == q.event_od_expected \/ ~Failed(q)
             x == [q EXCEPT !.event_od_expected = b]
             y == [q EXCEPT !.event = "done"]
             z == [y EXCEPT !.event_od_expected = FALSE]
  <1>1. SendEvent(p, c) = IF read THEN x ELSE z
    BY DEF SendEvent
  <1>2. read \in BOOLEAN
    BY DEF EventReading
  <1> HIDE DEF read
  <1>3. reply \in Shapes
    BY <1>2, ReplyTypes
  <1> HIDE DEF reply
  <1>4. q \in KeptOrFailed(p)
    BY <1>2, <1>3, Literals, SendFullKept
  <1>5. b \in BOOLEAN
    OBVIOUS
  <1> HIDE DEF q, b
  <1>6. q \in Good
    BY <1>4 DEF KeptOrFailed
  <1>7. x \in Kept(q)
    BY <1>5, <1>6, PutFlags
  <1>8. y \in Kept(q)
    BY <1>6, PutService
  <1> HIDE DEF x, y
  <1>9. z \in Kept(y)
    BY <1>6, <1>8, PutFlags, KeptTrans
  <1> HIDE DEF z
  <1>10. z \in Kept(q)
    BY <1>6, <1>8, <1>9, KeptTrans
  <1> QED
    BY <1>1, <1>4, <1>7, <1>10 DEF Kept, KeptOrFailed, SameLink, Failed

\* One M-sequence of the ISDU channel (send_isdu).
LEMMA SendIsduKept ==
    ASSUME NEW p \in Good, NEW c
    PROVE  SendIsdu(p, c) \in KeptOrFailed(p)
  <1> DEFINE read == p.isdu_pending # "none" \/ p.isdu_phase # "request"
             reply == IF p.state = "OPERATE" /\ ~Type0 THEN TypedReply(read)
                      ELSE Type0Reply(read)
             x == [p EXCEPT !.isdu_pending = "none"]
             y == [p EXCEPT !.isdu_phase = "wait"]
             q == IF p.isdu_pending # "none" THEN x
                  ELSE IF p.isdu_phase = "request" /\ c.svc # "more" THEN y
                  ELSE p
  <1>1. SendIsdu(p, c) = SendFull(q, "isdu", read, reply, c)
    BY DEF SendIsdu
  <1>2. read \in BOOLEAN
    OBVIOUS
  <1> HIDE DEF read
  <1>3. reply \in Shapes
    BY <1>2, ReplyTypes
  <1> HIDE DEF reply
  <1>4. x \in Kept(p) /\ y \in Kept(p)
    BY PutService
  <1> HIDE DEF x, y
  <1>5. q \in Kept(p)
    BY <1>4, KeptTrans
  <1> HIDE DEF q
  <1>6. SendFull(q, "isdu", read, reply, c) \in KeptOrFailed(q)
    BY <1>2, <1>3, <1>5, Literals, SendFullKept, KeptTrans
  <1> QED
    BY <1>1, <1>5, <1>6, KeptTrans

\* Starting and concluding an ISDU service.
LEMMA IsduStartKept ==
    ASSUME NEW p \in Good, NEW op \in {"app", "info"}
    PROVE  IsduStart(p, op) \in Kept(p)
  <1> DEFINE x == [p EXCEPT !.isdu_op = op]
             y == [x EXCEPT !.isdu_phase = "request"]
             z == [y EXCEPT !.isdu_pending = "none"]
             t == [z EXCEPT !.isdu_result = "none"]
  <1>1. IsduStart(p, op) = t
    BY DEF IsduStart
  <1>2. x \in Kept(p)
    BY PutService
  <1> HIDE DEF x
  <1>3. y \in Kept(x)
    BY <1>2, PutService, KeptTrans
  <1> HIDE DEF y
  <1>4. y \in Kept(p)
    BY <1>2, <1>3, KeptTrans
  <1>5. z \in Kept(y)
    BY <1>4, PutService, KeptTrans
  <1> HIDE DEF z
  <1>6. z \in Kept(p)
    BY <1>4, <1>5, KeptTrans
  <1>7. t \in Kept(z)
    BY <1>6, PutService, KeptTrans
  <1> HIDE DEF t
  <1> QED
    BY <1>1, <1>6, <1>7, KeptTrans

\* Collecting the result of an ISDU service (isdu_finish_read, _write).
LEMMA IsduFinishKept ==
    ASSUME NEW p \in Good
    PROVE  IsduFinish(p) \in Kept(p)
  <1> DEFINE x == [p EXCEPT !.isdu_op = "none"]
             y == [x EXCEPT !.isdu_phase = "none"]
             b == IF y.isdu_pending = "abort" THEN y.isdu_pending ELSE "none"
             z == [y EXCEPT !.isdu_pending = b]
             t == [z EXCEPT !.isdu_result = "none"]
  <1>1. IsduFinish(p) = t
    <2>1. y.isdu_pending = p.isdu_pending
      BY DEF Good, Ports
    <2> QED
      BY <2>1 DEF IsduFinish
  <1>2. x \in Kept(p)
    BY PutService
  <1> HIDE DEF x
  <1>3. y \in Kept(x)
    BY <1>2, PutService, KeptTrans
  <1> HIDE DEF y
  <1>4. y \in Kept(p)
    BY <1>2, <1>3, KeptTrans
  <1>5. b \in {"none", "idle", "abort"}
    OBVIOUS
  <1> HIDE DEF b
  <1>6. z \in Kept(y)
    BY <1>4, <1>5, PutService, KeptTrans
  <1> HIDE DEF z
  <1>7. z \in Kept(p)
    BY <1>4, <1>6, KeptTrans
  <1>8. t \in Kept(z)
    BY <1>7, PutService, KeptTrans
  <1> HIDE DEF t
  <1> QED
    BY <1>1, <1>7, <1>8, KeptTrans

\* Reading the identity before OPERATE (read_device_info).
LEMMA ReadDeviceInfoKept ==
    ASSUME NEW p \in Good
    PROVE  ReadDeviceInfo(p) \in KeptOrFailed(p)
  <1> DEFINE f == IsduFinish(p)
             d == [f EXCEPT !.device_info = p.isdu_result]
  <1>1. f \in Kept(p)
    BY IsduFinishKept
  <1>2. CASE p.isdu_op = "none"
    BY <1>2, IsduStartKept, KeptTrans DEF ReadDeviceInfo
  <1>3. CASE p.isdu_op = "info" /\ p.isdu_phase # "done"
    BY <1>3, KeptTrans DEF ReadDeviceInfo
  <1>4. CASE /\ p.isdu_op = "info" /\ p.isdu_phase = "done"
             /\ p.isdu_result \in DevIds
    <2>1. ReadDeviceInfo(p) = d
      BY <1>4 DEF ReadDeviceInfo
    <2> HIDE DEF f
    <2>2. d \in Kept(f)
      BY <1>1, <1>4, PutService, KeptTrans
    <2> HIDE DEF d
    <2> QED
      BY <1>1, <2>1, <2>2, KeptTrans
  <1>5. CASE /\ p.isdu_op = "info" /\ p.isdu_phase = "done"
             /\ p.isdu_result \notin DevIds
    <2>1. ReadDeviceInfo(p) = Error(f)
      BY <1>5 DEF ReadDeviceInfo
    <2> HIDE DEF f
    <2> QED
      BY <1>1, <2>1, ErrorKept, KeptTrans
  <1>6. CASE p.isdu_op \notin {"none", "info"}
    <2>1. ReadDeviceInfo(p) = Error(p)
      BY <1>6 DEF ReadDeviceInfo
    <2> QED
      BY <2>1, ErrorKept
  <1> QED
    BY <1>2, <1>3, <1>4, <1>5, <1>6

\* The DeviceOperate write of PREOPERATE (process_at).
LEMMA SendOperateGood ==
    ASSUME NEW p \in Good, p.state = "PREOPERATE", NEW c
    PROVE  SendOperate(p, c) \in Good
  <1> DEFINE q == SendFull(p, "operate", FALSE, <<"cks">>, c)
             s == [q EXCEPT !.step = "AWAIT_OPERATE_ACK"]
  <1>1. SendOperate(p, c) = IF Failed(q) THEN q ELSE s
    BY DEF SendOperate
  <1>2. q \in KeptOrFailed(p)
    BY ReplyTypes, Literals, SendFullKept
  <1> HIDE DEF q
  <1>3. q \in Good /\ (Failed(q) \/ q.state = "PREOPERATE")
    BY <1>2 DEF KeptOrFailed, SameLink
  <1>4. ~Failed(q) => s \in Good
    BY <1>3, Literals, MoveStep
  <1> HIDE DEF s
  <1> QED
    BY <1>1, <1>3, <1>4

-----------------------------------------------------------------------------
(* process_at.                                                             *)

\* What PREOPERATE sends, or the refusal of the device, leaves a good port
\* (process_at).
LEMMA PreoperateGood ==
    ASSUME NEW p \in Good, p.state = "PREOPERATE", NEW c
    PROVE  Preoperate(p, c) \in Good
  <1> DEFINE q == IF Validate /\ p.device_info = "none" THEN ReadDeviceInfo(p)
                  ELSE p
  <1>1. Preoperate(p, c)
           = IF EventActive(p) THEN SendEvent(p, c)
             ELSE IF IsduSending(p) THEN SendIsdu(p, c)
             ELSE IF ~Validate THEN SendOperate(p, c)
             ELSE IF Failed(q) \/ q.device_info = "none" THEN q
             ELSE IF ~ValidIdentity(q) THEN Error(q)
             ELSE SendOperate(q, c)
    BY DEF Preoperate
  <1>2. q \in KeptOrFailed(p)
    BY ReadDeviceInfoKept, KeptTrans
  <1> HIDE DEF q
  <1>3. q \in Good /\ (Failed(q) \/ q.state = "PREOPERATE")
    BY <1>2 DEF KeptOrFailed, SameLink
  <1>4. Error(q) \in Good
    BY <1>3, ErrorGood DEF Good
  <1>5. SendOperate(p, c) \in Good /\ (~Failed(q) => SendOperate(q, c) \in Good)
    BY <1>3, SendOperateGood
  <1>6. SendEvent(p, c) \in Good /\ SendIsdu(p, c) \in Good
    BY SendEventKept, SendIsduKept, KeptTrans
  <1> QED
    BY <1>1, <1>3, <1>4, <1>5, <1>6

\* The M-sequence of a cycle leaves the link alone, or fails (process_at).
LEMMA OperateGood ==
    ASSUME NEW p \in Good, NEW c
    PROVE  Operate(p, c) \in Good
  <1> DEFINE reply == IF Type0 THEN <<"od", "cks">> ELSE TypedReply(FALSE)
             q == SendFull(p, "cyclic", FALSE, reply, c)
  <1>1. Operate(p, c) = IF EventActive(p) THEN SendEvent(p, c)
                        ELSE IF IsduSending(p) THEN SendIsdu(p, c) ELSE q
    BY DEF Operate
  <1>2. reply \in Shapes
    BY ReplyTypes
  <1> HIDE DEF reply
  <1>3. q \in Good
    BY <1>2, Literals, SendFullKept, KeptTrans
  <1> HIDE DEF q
  <1>4. SendEvent(p, c) \in Good /\ SendIsdu(p, c) \in Good
    BY SendEventKept, SendIsduKept, KeptTrans
  <1> QED
    BY <1>1, <1>3, <1>4

\* The wake-up request takes the PHY out of the pause before anything is sent.
LEMMA StartupWakeGood ==
    ASSUME NEW p \in Good, p.state = "STARTUP", p.step \in WakingSteps, NEW c
    PROVE  StartupWake(p, c) \in Good
  <1> DEFINE m == IF p.step = "INACTIVE" THEN SetMode(p, "SDCI", c) ELSE p
             n == [m EXCEPT !.step = "WAKE"]
             q == WakeUp(n, c)
             s == [q EXCEPT !.step = "SEND_TYPE0"]
  <1>1. StartupWake(p, c)
           = IF Failed(m) THEN m
             ELSE IF Failed(q) THEN q
             ELSE ArmSendGate(s, WakeDelay, Timed)
    BY DEF StartupWake
  <1>2. p \in Ports
    BY DEF Good
  <1>3. \/ m \in Good /\ Failed(m)
        \/ /\ m \in Ports /\ m.state = "STARTUP" /\ m.phy_mode # "INACTIVE"
           /\ m.phy_rate = ScanRate(m)
    <2>1. CASE p.step = "INACTIVE" /\ c.fail = "set_mode"
      BY <1>2, <2>1, ErrorGood DEF SetMode
    <2>2. CASE p.step = "INACTIVE" /\ c.fail # "set_mode"
      <3> DEFINE x == [p EXCEPT !.phy_mode = "SDCI"]
      <3>1. m = x
        BY <2>2 DEF SetMode
      <3>2. /\ x \in Ports /\ x.phy_mode = "SDCI" /\ x.state = "STARTUP"
            /\ x.baudrate_index = p.baudrate_index /\ x.phy_rate = p.phy_rate
        BY <1>2, Literals, PutLink
      <3> HIDE DEF x, m
      <3>3. p.phy_rate = ScanRate(p)
        BY DEF Good, Agrees
      <3> QED
        BY <3>1, <3>2, <3>3 DEF ScanRate
    <2>3. CASE p.step # "INACTIVE"
      BY <1>2, <2>3 DEF Good, Agrees
    <2> QED
      BY <2>1, <2>2, <2>3
  <1> HIDE DEF m
  <1>4. CASE m \in Good /\ Failed(m)
    BY <1>1, <1>4
  <1>5. CASE /\ m \in Ports /\ m.state = "STARTUP" /\ m.phy_mode # "INACTIVE"
             /\ m.phy_rate = ScanRate(m)
    <2>1. /\ n \in Ports /\ n.state = "STARTUP" /\ n.step = "WAKE"
          /\ n.phy_mode = m.phy_mode /\ n.phy_rate = m.phy_rate
          /\ n.baudrate_index = m.baudrate_index
      BY <1>5, Literals, PutLink
    <2> HIDE DEF n
    <2>2. n \in Good
      BY <1>5, <2>1 DEF Good, Agrees, ScanRate
    <2>3. q \in KeptOrFailed(n)
      <3>1. CASE c.fail = "wake_up"
        BY <2>2, <3>1, ErrorKept DEF WakeUp
      <3>2. CASE c.fail # "wake_up"
        <4> DEFINE x == [n EXCEPT !.tx = "wake"]
                   y == [x EXCEPT !.owed = <<>>]
        <4>1. q = y
          BY <3>2 DEF WakeUp
        <4>2. x \in Kept(n)
          BY <2>2, Literals, PutWire
        <4> HIDE DEF x
        <4>3. y \in Kept(x)
          BY <2>2, <4>2, PutWire, EmptySeq, KeptTrans
        <4> HIDE DEF y
        <4> QED
          BY <2>2, <4>1, <4>2, <4>3, KeptTrans
      <3> QED
        BY <3>1, <3>2
    <2> HIDE DEF q
    <2>4. q \in Good /\ (Failed(q) \/ (q.state = "STARTUP" /\ q.step = "WAKE"))
      BY <2>1, <2>3 DEF KeptOrFailed, SameLink
    <2>5. ~Failed(q) => s \in Good
      BY <2>4, Literals, MoveStep
    <2> HIDE DEF s
    <2>6. WakeDelay \in Nat
      BY TimesAssumption DEF WakeDelay
    <2>7. ~Failed(m)
      BY <1>5 DEF Failed
    <2> QED
      BY <1>1, <2>4, <2>5, <2>6, <2>7, ArmSendGateKept, KeptTrans
  <1> QED
    BY <1>3, <1>4, <1>5

\* The test message and its deadline.
LEMMA StartupTestGood ==
    ASSUME NEW p \in Good, p.state = "STARTUP", p.step = "SEND_TYPE0", NEW c
    PROVE  StartupTest(p, c) \in Good
  <1> DEFINE q == SendFull(p, "test", TRUE, <<"od", "cks">>, c)
             s == [q EXCEPT !.step = "AWAIT_RESPONSE"]
             x == [s EXCEPT !.deadline = TestTimeout]
             y == [x EXCEPT !.awaiting_response = TRUE]
  <1>1. StartupTest(p, c) = IF Failed(q) THEN q ELSE IF Timed THEN y ELSE s
    BY DEF StartupTest, ArmTestDeadline
  <1>2. q \in KeptOrFailed(p)
    BY ReplyTypes, Literals, SendFullKept
  <1> HIDE DEF q
  <1>3. q \in Good /\ (Failed(q) \/ (q.state = "STARTUP" /\ q.step = p.step))
    BY <1>2 DEF KeptOrFailed, SameLink
  <1>4. CASE Failed(q)
    BY <1>1, <1>3, <1>4
  <1>5. CASE ~Failed(q)
    <2>1. s \in Good
      BY <1>3, <1>5, Literals, MoveStep
    <2> HIDE DEF s
    <2>2. TestTimeout \in Nat
      BY TimesAssumption
    <2>3. x \in Good
      BY <2>1, <2>2, PutTimers, KeptTrans
    <2> HIDE DEF x
    <2>4. y \in Good
      BY <2>3, PutFlags, KeptTrans
    <2> HIDE DEF y
    <2> QED
      BY <1>1, <1>5, <2>1, <2>4
  <1> QED
    BY <1>4, <1>5

\* The whole send side: at most one transmission, and a good port
\* (process_at).
LEMMA ProcessAtGood ==
    ASSUME NEW p \in Good, NEW c
    PROVE  ProcessAt(p, c) \in Good
  <1>1. CASE Timed /\ p.send_gate > 0
    BY <1>1 DEF ProcessAt
  <1>2. CASE ~(Timed /\ p.send_gate > 0)
    <2>1. CASE p.state = "STARTUP" /\ p.step \in WakingSteps
      <3>1. ProcessAt(p, c) = StartupWake(p, c)
        BY <1>2, <2>1 DEF ProcessAt, WakingSteps
      <3> QED
        BY <2>1, <3>1, StartupWakeGood
    <2>2. CASE p.state = "STARTUP" /\ p.step = "SEND_TYPE0"
      <3>1. ProcessAt(p, c) = StartupTest(p, c)
        BY <1>2, <2>2 DEF ProcessAt, WakingSteps
      <3> QED
        BY <2>2, <3>1, StartupTestGood
    <2>3. CASE p.state = "PREOPERATE"
      BY <1>2, <2>3, PreoperateGood DEF ProcessAt
    <2>4. CASE p.state = "OPERATE"
      BY <1>2, <2>4, OperateGood DEF ProcessAt
    <2>5. CASE /\ p.state \notin {"PREOPERATE", "OPERATE"}
               /\ p.state = "STARTUP"
                     => p.step \notin WakingSteps \cup {"SEND_TYPE0"}
      BY <1>2, <2>5 DEF ProcessAt
    <2> QED
      BY <2>1, <2>2, <2>3, <2>4, <2>5
  <1> QED
    BY <1>1, <1>2

-----------------------------------------------------------------------------
(* The tick engine and initialisation.                                     *)

\* A cycle that was sent starts the pacing and the response timers
\* (tick_common).
LEMMA StartCycleTimerGood ==
    ASSUME NEW p \in Good
    PROVE  StartCycleTimer(p) \in Good
  <1> DEFINE w == [p EXCEPT !.cycle_left = MinCycle]
             x == [w EXCEPT !.cycle_timer_valid = TRUE]
             y == [x EXCEPT !.deadline = ResponseTimeout]
             z == [y EXCEPT !.awaiting_response = TRUE]
  <1>1. StartCycleTimer(p) = z
    BY DEF StartCycleTimer
  <1>2. MinCycle \in Nat /\ ResponseTimeout \in Nat
    BY TimesAssumption
  <1>3. w \in Good
    BY <1>2, PutTimers, KeptTrans
  <1> HIDE DEF w
  <1>4. x \in Good
    BY <1>3, PutFlags, KeptTrans
  <1> HIDE DEF x
  <1>5. y \in Good
    BY <1>2, <1>4, PutTimers, KeptTrans
  <1> HIDE DEF y
  <1>6. z \in Good
    BY <1>5, PutFlags, KeptTrans
  <1> QED
    BY <1>1, <1>6

\* A tick that may send leaves a good port (tick_common).
LEMMA CycleTickGood ==
    ASSUME NEW p \in Good, NEW c
    PROVE  CycleTick(p, c) \in Good
BY ProcessAtGood, StartCycleTimerGood DEF CycleTick

\* A tick that reports a response timeout leaves a good port (tick_common).
LEMMA TimeoutTickGood ==
    ASSUME NEW p \in Good, NEW c
    PROVE  TimeoutTick(p, c) \in Good
  <1> DEFINE q == IF p.awaiting_response THEN FlushRx(p, c) ELSE p
             r == [q EXCEPT !.awaiting_response = FALSE]
  <1>1. TimeoutTick(p, c) = IF Timed /\ ~p.awaiting_response THEN p
                            ELSE OnTimeoutAt(r, c)
    BY DEF TimeoutTick
  <1>2. q \in Good
    BY FlushRxKept, KeptTrans
  <1> HIDE DEF q
  <1>3. r \in Good
    BY <1>2, PutFlags, KeptTrans
  <1> HIDE DEF r
  <1> QED
    BY <1>1, <1>3, OnTimeoutAtGood

\* A tick takes a good port to a good port, whatever event it carries.
LEMMA TickCommonGood ==
    ASSUME NEW p \in Good, NEW event, NEW c
    PROVE  TickCommon(p, event, c) \in Good
  <1> DEFINE x == [p EXCEPT !.tx = "none"]
             r == PollRx(x, c)
  <1>1. TickCommon(p, event, c)
           \in {r.p, CycleTick(r.p, c), TimeoutTick(r.p, c)}
    BY DEF TickCommon
  <1>2. x \in Good
    BY Literals, PutWire, KeptTrans
  <1> HIDE DEF x
  <1>3. r.p \in Good
    BY <1>2, PollRxGood
  <1> HIDE DEF r
  <1> QED
    BY <1>1, <1>3, CycleTickGood, TimeoutTickGood

\* The cleared port has its type, whatever the PHY was left in.
LEMMA NewPortType ==
    ASSUME NEW phy, phy.phy_mode \in Modes, phy.phy_rate \in 0..LastRate,
           phy.fifo \in Seq(Octets), phy.owed \in Seq(Shapes)
    PROVE  LET p == NewPort(phy)
           IN  p \in Ports /\ p.state = "STARTUP" /\ p.step = "WAKE"
  <1>1. <<>> \in Seq(Octets)
    BY EmptySeq
  <1>2. NewPort(phy) \in Ports
    BY <1>1, Literals DEF NewPort, Ports
  <1> QED
    BY <1>2 DEF NewPort

\* After init the PHY is where the port believes it is, or the port is in ERROR.
LEMMA PortInitGood ==
    ASSUME NEW phy, phy.phy_mode \in Modes, phy.phy_rate \in 0..LastRate,
           phy.fifo \in Seq(Octets), phy.owed \in Seq(Shapes), NEW c
    PROVE  PortInit(phy, c) \in Good
  <1> DEFINE p == NewPort(phy)
             f == FlushRx(p, c)
             b == SetBaudrate(f, c)
             m == SetMode(b, "SDCI", c)
  <1>1. PortInit(phy, c)
           = IF c.fail = "init" THEN Error(p)
             ELSE IF c.fail = "flush_rx" THEN Error(f)
             ELSE IF Failed(b) THEN b
             ELSE m
    BY DEF PortInit
  <1>2. p \in Ports /\ p.state = "STARTUP" /\ p.step = "WAKE"
    BY NewPortType
  <1> HIDE DEF p
  <1>3. f \in Ports /\ f.state = "STARTUP" /\ f.step = "WAKE"
    BY <1>2, FlushRxLink DEF SameLink
  <1> HIDE DEF f
  <1>4. /\ b \in Ports
        /\ \/ b \in Good /\ Failed(b)
           \/ /\ b.state = "STARTUP" /\ b.step = "WAKE"
              /\ b.phy_rate = ScanRate(b)
    BY <1>3, SetBaudrateLink
  <1> HIDE DEF b
  <1>5. ASSUME ~Failed(b)
        PROVE  m \in Good
    <2>1. CASE c.fail = "set_mode"
      BY <1>4, <2>1, ErrorGood DEF SetMode
    <2>2. CASE c.fail # "set_mode"
      <3> DEFINE x == [b EXCEPT !.phy_mode = "SDCI"]
      <3>1. m = x
        BY <2>2 DEF SetMode
      <3>2. /\ x \in Ports /\ x.phy_mode = "SDCI"
            /\ x.state = b.state /\ x.step = b.step
            /\ x.baudrate_index = b.baudrate_index /\ x.phy_rate = b.phy_rate
        BY <1>4, Literals, PutLink
      <3> HIDE DEF x, m
      <3> QED
        BY <1>4, <1>5, <3>1, <3>2 DEF Good, Agrees, ScanRate
    <2> QED
      BY <2>1, <2>2
  <1> HIDE DEF m
  <1>6. Error(p) \in Good /\ Error(f) \in Good
    BY <1>2, <1>3, ErrorGood
  <1> QED
    BY <1>1, <1>4, <1>5, <1>6 DEF Failed

-----------------------------------------------------------------------------
(* The specification.                                                      *)

\* The inductive invariant: a good port beside an environment of its type.
Inv == port \in Good /\ dev \in DevIds \cup {"absent"} /\ awake \in BOOLEAN

\* The port is good after its first initialisation (init).
LEMMA InitInv == Init => Inv
  <1> SUFFICES ASSUME Init PROVE Inv
    OBVIOUS
  <1>1. PICK c \in Choices : port = PortInit(PowerOnPhy, c)
    BY DEF Init
  <1>2. /\ PowerOnPhy.phy_mode \in Modes
        /\ PowerOnPhy.phy_rate \in 0..LastRate
        /\ PowerOnPhy.fifo \in Seq(Octets) /\ PowerOnPhy.owed \in Seq(Shapes)
    BY EnvironmentAssumption, EmptySeq DEF PowerOnPhy, Modes, LastRate
  <1>3. port \in Good
    BY <1>1, <1>2, PortInitGood
  <1> QED
    BY <1>3 DEF Init, Inv

\* The reply of a connected device consists of octets of the line.
LEMMA FilledType ==
    ASSUME NEW shape \in Shapes, NEW cks \in CksOctets, dev \in DevIds
    PROVE  Filled(shape, cks) \in Seq(Octets)
  <1>1. /\ Len(shape) \in Nat
        /\ \A i \in 1..Len(shape) : shape[i] \in {"od", "idle", "pd", "cks"}
    BY DEF Shapes
  <1>2. dev \in Octets /\ cks \in Octets /\ "idle" \in Octets /\ "pd" \in Octets
    BY EnvironmentAssumption DEF Octets, OdOctets, Cks
  <1>3. \A i \in 1..Len(shape) :
           (CASE shape[i] = "od" -> dev
              [] shape[i] = "cks" -> cks
              [] OTHER -> shape[i]) \in Octets
    BY <1>1, <1>2
  <1>4. Filled(shape, cks) \in [1..Len(shape) -> Octets]
    BY <1>3 DEF Filled
  <1> QED
    BY <1>1, <1>4, SeqDef

\* Replies arriving on the line touch the FIFO and what is owed only.
LEMMA ReceivedInv ==
    ASSUME Inv, NEW octets \in Seq(Octets), port.owed # <<>>, Received(octets)
    PROVE  Inv'
  <1> DEFINE fifo == port.fifo \o octets
             owed == Tail(port.owed)
             x == [port EXCEPT !.fifo = fifo]
             y == [x EXCEPT !.owed = owed]
             z == [y EXCEPT !.tx = "none"]
  <1>1. port \in Good /\ port \in Ports
    BY DEF Inv, Good
  <1>2. fifo \in Seq(Octets)
    <2>1. port.fifo \in Seq(Octets)
      BY <1>1 DEF Ports
    <2> QED
      BY <2>1, ConcatProperties
  <1>3. owed \in Seq(Shapes)
    <2>1. port.owed \in Seq(Shapes)
      BY <1>1 DEF Ports
    <2> QED
      BY <2>1, HeadTailProperties
  <1>4. port' = z
    <2>1. x.owed = port.owed
      BY <1>1 DEF Ports
    <2> QED
      BY <2>1 DEF Received
  <1> HIDE DEF fifo, owed
  <1>5. x \in Good
    BY <1>1, <1>2, PutWire, KeptTrans
  <1> HIDE DEF x
  <1>6. y \in Good
    BY <1>3, <1>5, PutWire, KeptTrans
  <1> HIDE DEF y
  <1>7. z \in Good
    BY <1>6, Literals, PutWire, KeptTrans
  <1> HIDE DEF z
  <1> QED
    BY <1>4, <1>7 DEF Inv, Received

\* A call of the application that leaves the link alone.
LEMMA AppCallInv ==
    ASSUME Inv, NEW p \in Kept(port), port' = [p EXCEPT !.tx = "none"],
           UNCHANGED <<dev, awake>>
    PROVE  Inv'
  <1>1. p \in Good
    BY DEF Kept
  <1>2. [p EXCEPT !.tx = "none"] \in Good
    BY <1>1, Literals, PutWire, KeptTrans
  <1> QED
    BY <1>2 DEF Inv

\* Time passing only brings the timers closer to their end.
LEMMA ElapseInv ==
    ASSUME Inv, Elapse
    PROVE  Inv'
  <1> DEFINE a == Less(port.deadline)
             b == Less(port.send_gate)
             d == Less(port.cycle_left)
             x == [port EXCEPT !.deadline = a]
             y == [x EXCEPT !.send_gate = b]
             z == [y EXCEPT !.cycle_left = d]
  <1>1. port \in Good /\ port \in Ports
    BY DEF Inv, Good
  <1>2. a \in Nat /\ b \in Nat /\ d \in Nat
    <2>1. port.deadline \in Nat /\ port.send_gate \in Nat /\ port.cycle_left \in Nat
      BY <1>1 DEF Ports
    <2> QED
      BY <2>1 DEF Less
  <1>3. port' = [z EXCEPT !.tx = "none"]
    <2>1. x.send_gate = port.send_gate /\ y.cycle_left = port.cycle_left
      BY <1>1 DEF Ports
    <2> QED
      BY <2>1 DEF Elapse
  <1> HIDE DEF a, b, d
  <1>4. x \in Kept(port)
    BY <1>1, <1>2, PutTimers
  <1> HIDE DEF x
  <1>5. y \in Kept(x)
    BY <1>1, <1>2, <1>4, PutTimers, KeptTrans
  <1> HIDE DEF y
  <1>6. y \in Kept(port)
    BY <1>1, <1>4, <1>5, KeptTrans
  <1>7. z \in Kept(y)
    BY <1>1, <1>2, <1>6, PutTimers, KeptTrans
  <1> HIDE DEF z
  <1>8. z \in Kept(port)
    BY <1>1, <1>6, <1>7, KeptTrans
  <1> QED
    BY <1>3, <1>8, AppCallInv DEF Elapse

\* What a connected device sends in answer, intact, garbled or cut short.
LEMMA AnswersInv ==
    ASSUME Inv,
           \/ \E cks \in CksOctets : Answer(cks)
           \/ AnswerGarbled \/ AnswerTruncated
    PROVE  Inv'
  <1>1. CanAnswer /\ port.owed # <<>> /\ dev \in DevIds
    BY DEF Answer, AnswerGarbled, AnswerTruncated, CanAnswer, Inv
  <1> DEFINE shape == Head(port.owed)
  <1>2. shape \in Shapes
    <2>1. port.owed \in Seq(Shapes)
      BY DEF Inv, Good, Ports
    <2> QED
      BY <1>1, <2>1, HeadTailProperties
  <1> HIDE DEF shape
  <1>3. ASSUME NEW cks \in CksOctets, Answer(cks)
        PROVE  Inv'
    <2>1. Received(Filled(shape, cks))
      BY <1>3 DEF Answer, shape
    <2> QED
      BY <1>1, <1>2, <2>1, FilledType, ReceivedInv
  <1>4. CASE AnswerGarbled
    <2> DEFINE octets == [i \in 1..Len(shape) |-> "bad"]
    <2>1. Received(octets)
      BY <1>4 DEF AnswerGarbled, shape
    <2>2. Len(shape) \in Nat
      BY <1>2 DEF Shapes
    <2>3. octets \in [1..Len(shape) -> Octets]
      BY DEF Octets
    <2>4. octets \in Seq(Octets)
      BY <2>2, <2>3, SeqDef
    <2> HIDE DEF octets
    <2> QED
      BY <1>1, <2>1, <2>4, ReceivedInv
  <1>5. CASE AnswerTruncated
    <2> DEFINE octets == [i \in 1..Len(shape) |-> CASE shape[i] = "od" -> dev
                                                    [] shape[i] = "cks" -> "cks"
                                                    [] OTHER -> shape[i]]
               short == SubSeq(octets, 1, Len(octets) - 1)
    <2>1. Received(short)
      BY <1>5 DEF AnswerTruncated, Filled, shape
    <2>2. octets \in Seq(Octets)
      <3>1. /\ Len(shape) \in Nat
            /\ \A i \in 1..Len(shape) : shape[i] \in {"od", "idle", "pd", "cks"}
        BY <1>2 DEF Shapes
      <3>2. /\ dev \in Octets /\ "cks" \in Octets
            /\ "idle" \in Octets /\ "pd" \in Octets
        BY <1>1 DEF Octets, OdOctets, Cks
      <3>3. octets \in [1..Len(shape) -> Octets]
        BY <3>1, <3>2
      <3> QED
        BY <3>1, <3>3, SeqDef
    <2> HIDE DEF octets
    <2>3. /\ Len(octets) \in Nat
          /\ \A i \in 1..(Len(octets) - 1) : octets[i] \in Octets
      BY <2>2, LenProperties, ElementOfSeq
    <2>4. short \in Seq(Octets)
      BY <2>3, SubSeqProperties
    <2> HIDE DEF short
    <2> QED
      BY <1>1, <2>1, <2>4, ReceivedInv
  <1> QED
    BY <1>3, <1>4, <1>5

\* Every step keeps the invariant.
LEMMA NextInv == Inv /\ [Next]_vars => Inv'
  <1> SUFFICES ASSUME Inv, [Next]_vars PROVE Inv'
    OBVIOUS
  <1>1. port \in Good /\ port \in Ports
    BY DEF Inv, Good
  <1>2. ASSUME NEW c \in Choices, TickAt(c)
        PROVE  Inv'
    <2>1. port' \in Good
      BY <1>1, <1>2, TickCommonGood DEF TickAt
    <2> QED
      BY <1>2, <2>1 DEF TickAt, DeviceHears, Inv
  <1>3. ASSUME NEW c \in Choices,
               NEW e \in {"NONE", "CYCLE_DUE", "RESPONSE_TIMEOUT"},
               TickEvent(e, c)
        PROVE  Inv'
    <2>1. port' \in Good
      BY <1>1, <1>3, TickCommonGood DEF TickEvent
    <2> QED
      BY <1>3, <2>1 DEF TickEvent, DeviceHears, Inv
  <1>4. ASSUME NEW c \in Choices, Restart(c)
        PROVE  Inv'
    <2>1. /\ port.phy_mode \in Modes /\ port.phy_rate \in 0..LastRate
          /\ port.fifo \in Seq(Octets) /\ port.owed \in Seq(Shapes)
      BY <1>1 DEF Ports
    <2>2. port' \in Good
      BY <1>4, <2>1, PortInitGood DEF Restart
    <2> QED
      BY <1>4, <2>2 DEF Restart, Inv
  <1>5. CASE StartIsdu
    BY <1>1, <1>5, IsduStartKept, AppCallInv DEF StartIsdu
  <1>6. CASE CollectIsdu
    BY <1>1, <1>6, IsduFinishKept, AppCallInv DEF CollectIsdu
  <1>7. ASSUME NEW phase \in {"read", "read_ack"}, StartEvent(phase)
        PROVE  Inv'
    <2> DEFINE x == [port EXCEPT !.event = phase]
               y == [x EXCEPT !.event_od_expected = FALSE]
    <2>1. port' = [y EXCEPT !.tx = "none"]
      BY <1>7 DEF StartEvent
    <2>2. x \in Kept(port)
      BY <1>1, PutService
    <2> HIDE DEF x
    <2>3. y \in Kept(x)
      BY <1>1, <2>2, PutFlags, KeptTrans
    <2> HIDE DEF y
    <2>4. y \in Kept(port)
      BY <1>1, <2>2, <2>3, KeptTrans
    <2> QED
      BY <1>7, <2>1, <2>4, AppCallInv DEF StartEvent
  <1>8. CASE CollectEvent
    <2> DEFINE x == [port EXCEPT !.event = "none"]
    <2>1. port' = [x EXCEPT !.tx = "none"]
      BY <1>8 DEF CollectEvent
    <2>2. x \in Kept(port)
      BY <1>1, PutService
    <2> HIDE DEF x
    <2> QED
      BY <1>8, <2>1, <2>2, AppCallInv DEF CollectEvent
  <1>9. ASSUME NEW d \in Pluggable, Plug(d)
        PROVE  Inv'
    <2> DEFINE x == [port EXCEPT !.owed = <<>>]
               y == [x EXCEPT !.tx = "none"]
    <2>1. port' = y
      BY <1>9 DEF Plug
    <2>2. x \in Good
      BY <1>1, EmptySeq, PutWire, KeptTrans
    <2> HIDE DEF x
    <2>3. y \in Good
      BY <2>2, Literals, PutWire, KeptTrans
    <2> HIDE DEF y
    <2> QED
      BY <1>9, <2>1, <2>3, EnvironmentAssumption DEF Plug, Inv
  <1>10. CASE \/ \E cks \in CksOctets : Answer(cks)
              \/ AnswerGarbled \/ AnswerTruncated
    BY <1>10, AnswersInv
  <1>11. CASE Elapse
    BY <1>11, ElapseInv
  <1>12. CASE UNCHANGED vars
    BY <1>12 DEF Inv, vars
  <1> QED
    BY <1>2, <1>3, <1>4, <1>5, <1>6, <1>7, <1>8, <1>9, <1>10, <1>11, <1>12
    DEF Next

\* Good ports are all a run ever reaches.
LEMMA SpecInv == Spec => []Inv
BY InitInv, NextInv, PTL DEF Spec

\* Every field of the port keeps its type through every entry point, however
\* they interleave with the line, the device and failing PHY callbacks: the
\* retry counters never pass their limits, the scan never leaves its rates.
THEOREM TypeCorrect == Spec => []TypeOK
  <1>1. Inv => TypeOK
    BY DEF Inv, Good, TypeOK
  <1> QED
    BY <1>1, SpecInv, PTL

\* Out of ERROR the PHY has the rate the port believes it has, and is inactive
\* exactly while the port pauses (set_baudrate, set_mode and their callers).
THEOREM PhyAgreement == Spec => []PhyAgrees
  <1>1. Inv => PhyAgrees
    BY DEF Inv, Good, Agrees, PhyAgrees
  <1> QED
    BY <1>1, SpecInv, PTL

=============================================================================
