----------------------- MODULE AcyclicServices_proofs -----------------------
(***************************************************************************)
(* The acyclic services, for every device, every set of objects, writes and *)
(* events and every number of losses; that a lost segment shows, and that    *)
(* they implement IsduChannel, for at most one.                              *)
(***************************************************************************)
EXTENDS AcyclicServices, SequenceTheorems, FiniteSetTheorems,
        WellFoundedInduction, TLAPS

-----------------------------------------------------------------------------
(* Induction over the octets of a segment.                                 *)

LEMMA LeastNumber ==
    ASSUME NEW T, T \subseteq Nat, T # {}
    PROVE  \E n \in T : \A k \in T : n <= k
<1>1. PICK n \in T : \A k \in T : ~(<<k, n>> \in OpToRel(<, Nat))
  BY WFMin, NatLessThanWellFounded
<1>2. ASSUME NEW k \in T PROVE n <= k
  <2>1. n \in Nat /\ k \in Nat
    OBVIOUS
  <2>2. <<k, n>> \in OpToRel(<, Nat) <=> k < n
    BY <2>1 DEF OpToRel
  <2>3. ~(k < n)
    BY <1>1, <2>2, Zenon
  <2> QED
    BY <2>1, <2>3
<1> QED
  BY <1>2

\* good holds the positions at which all is well so far.
LEMMA AllAlong ==
    ASSUME NEW n \in Nat, NEW good, 0 \in good,
           \A k \in 1..n : k - 1 \in good => k \in good
    PROVE  \A k \in 0..n : k \in good
<1> DEFINE bad == {k \in 0..n : k \notin good}
<1>1. SUFFICES ASSUME bad # {} PROVE FALSE
  OBVIOUS
<1>2. bad \subseteq Nat
  OBVIOUS
<1>3. PICK k \in bad : \A j \in bad : k <= j
  BY <1>1, <1>2, LeastNumber
<1>4. k \in 1..n /\ k - 1 \in 0..n /\ k - 1 \notin bad
  BY <1>3
<1> QED
  BY <1>4

\* The octets of a segment taken one by one: the states after each of them.
Steps(X, Y) == [X \X Y -> X]
IsWalk(at, step, x, od) ==
    /\ at = [n \in 0..Len(od) |-> at[n]]
    /\ at[0] = x
    /\ \A n \in 1..Len(od) : at[n] = step[<<at[n - 1], od[n]>>]

LEMMA Taken ==
    ASSUME NEW X, NEW Y, NEW step \in Steps(X, Y), NEW x \in X, NEW od \in Seq(Y)
    PROVE  \E at : IsWalk(at, step, x, od) /\ \A n \in 0..Len(od) : at[n] \in X
<1> DEFINE N == Len(od)
           Walk(at, n) == /\ at \in [0..n -> X] /\ at[0] = x
                          /\ \A k \in 1..n : at[k] = step[<<at[k - 1], od[k]>>]
           good == {n \in 0..N : \E at : Walk(at, n)}
<1>1. N \in Nat /\ \A k \in 1..N : od[k] \in Y
  OBVIOUS
<1>s. \A y \in X, o \in Y : step[<<y, o>>] \in X
  BY DEF Steps
<1>2. 0 \in good
  <2>1. Walk([k \in 0..0 |-> x], 0)
    OBVIOUS
  <2>2. 0 \in 0..N
    BY <1>1
  <2> HIDE DEF Walk, N
  <2> QED
    BY <2>1, <2>2
<1>3. ASSUME NEW n \in 1..N, n - 1 \in good PROVE n \in good
  <2>1. PICK at : Walk(at, n - 1)
    BY <1>3
  <2> DEFINE next == step[<<at[n - 1], od[n]>>]
             more == [k \in 0..n |-> IF k = n THEN next ELSE at[k]]
  <2>2. at[n - 1] \in X /\ next \in X
    BY <1>1, <1>s, <2>1
  <2>3. more \in [0..n -> X] /\ more[0] = x
    BY <2>1, <2>2
  <2>4. ASSUME NEW k \in 1..n PROVE more[k] = step[<<more[k - 1], od[k]>>]
    <3>1. CASE k = n
      <4>1. n \in 0..n /\ n - 1 \in 0..n /\ n - 1 # n
        OBVIOUS
      <4>2. more[n] = next /\ more[n - 1] = at[n - 1]
        BY <4>1
      <4> QED
        BY <3>1, <4>2
    <3>2. CASE k # n
      <4>1. k \in 1..(n - 1) /\ k - 1 \in 0..n /\ k - 1 # n
        BY <3>2
      <4>2. at[k] = step[<<at[k - 1], od[k]>>]
        BY <2>1, <4>1
      <4>3. more[k] = at[k] /\ more[k - 1] = at[k - 1]
        BY <3>2, <4>1
      <4> QED
        BY <4>2, <4>3
    <3> QED
      BY <3>1, <3>2
  <2>5. Walk(more, n)
    BY <2>3, <2>4
  <2>6. n \in 0..N
    BY <1>1
  <2> HIDE DEF Walk, N, more
  <2> QED
    BY <2>5, <2>6
<1>4. N \in good
  <2>1. N \in 0..N
    BY <1>1
  <2> HIDE DEF good, N
  <2>2. \A k \in 0..N : k \in good
    BY <1>1, <1>2, <1>3, AllAlong
  <2> QED
    BY <2>1, <2>2
<1>5. PICK at : Walk(at, N)
  BY <1>4
<1> QED
  BY <1>5 DEF IsWalk

-----------------------------------------------------------------------------
(* The event memory of the device.                                         *)

LEMMA Memory ==
    /\ MemoryLen \in Nat /\ MemoryLen = 3 * SlotMax + 1 /\ SlotMax \in 1..6
    /\ EntryLen = 3
BY SlotAssumption DEF MemoryLen, EntryLen

LEMMA SlotBits ==
    /\ \A s \in Slots : SlotBit(s) \in Bits
    /\ \A s, t \in Slots : SlotBit(s) = SlotBit(t) => s = t
<1>1. \A s \in Slots : s \in {1, 2, 3, 4, 5, 6}
  BY SlotAssumption DEF Slots
<1>2. /\ SlotBit(1) = 1 /\ SlotBit(2) = 2 /\ SlotBit(3) = 4
      /\ SlotBit(4) = 8 /\ SlotBit(5) = 16 /\ SlotBit(6) = 32
  BY DEF SlotBit
<1>3. \A s \in {1, 2, 3, 4, 5, 6} : SlotBit(s) \in Bits
  BY <1>2 DEF Bits
<1>4. \A s, t \in {1, 2, 3, 4, 5, 6} : SlotBit(s) = SlotBit(t) => s = t
  BY <1>2
<1> QED
  BY <1>1, <1>3, <1>4

\* What a device may hold.
EventSets == Raisable \cup {NoEvents}

LEMMA EventSetTypes ==
    ASSUME NEW E \in EventSets
    PROVE  /\ DOMAIN E \subseteq Slots
           /\ \A s \in DOMAIN E : E[s] \in Octets \X Octets \X Octets
<1>1. CASE E = NoEvents
  BY <1>1 DEF NoEvents
<1>2. CASE E \in Raisable
  BY <1>2, ServicesAssumption
<1> QED
  BY <1>1, <1>2 DEF EventSets

\* Where the entry of a slot lies.
LEMMA EntryPlaces ==
    ASSUME NEW s \in Slots, NEW k \in 0..2
    PROVE  /\ Base(s) \in Nat
           /\ Base(s) + k \in 0..(MemoryLen - 1) /\ Base(s) + k # 0
           /\ (Base(s) + k - 1) \div EntryLen + 1 = s
           /\ ((Base(s) + k - 1) % EntryLen) + 1 = k + 1
           /\ Base(s) + k <= 3 * s
<1>1. s \in Nat /\ s >= 1 /\ s <= SlotMax
  BY SlotAssumption DEF Slots
<1>2. Base(s) = 3 * (s - 1) + 1
  BY DEF Base, EntryLen
<1>3. (3 * (s - 1) + k) \div 3 = s - 1 /\ (3 * (s - 1) + k) % 3 = k
  BY <1>1
<1> QED
  BY <1>1, <1>2, <1>3, Memory

LEMMA ImageTypes ==
    ASSUME NEW E \in EventSets
    PROVE  /\ MemoryOf(E) \in [0..(MemoryLen - 1) -> Octets]
           /\ MemoryOf(E)[0] = {SlotBit(s) : s \in DOMAIN E}
           /\ \A s \in DOMAIN E, k \in 0..2 :
                 MemoryOf(E)[Base(s) + k] = E[s][k + 1]
           /\ ActiveSlots(MemoryOf(E)) = DOMAIN E
<1>1. DOMAIN E \subseteq Slots
  BY EventSetTypes
<1>2. \A s \in DOMAIN E : \A k \in 1..3 : E[s][k] \in Octets
  BY EventSetTypes
<1> DEFINE value(a) == IF a = 0 THEN {SlotBit(s) : s \in DOMAIN E}
                       ELSE LET slot == (a - 1) \div EntryLen + 1
                            IN  IF slot \in DOMAIN E
                                THEN E[slot][((a - 1) % EntryLen) + 1] ELSE {}
<1>3. MemoryOf(E) = [a \in 0..(MemoryLen - 1) |-> value(a)]
  BY DEF MemoryOf
<1>4. value(0) \in Octets
  BY <1>1, SlotBits DEF Octets
<1>5. ASSUME NEW a \in 0..(MemoryLen - 1), a # 0 PROVE value(a) \in Octets
  <2>1. a \in Nat /\ ((a - 1) % 3) + 1 \in 1..3
    BY <1>5, Memory
  <2>2. ((a - 1) % EntryLen) + 1 \in 1..3
    BY <2>1 DEF EntryLen
  <2>3. {} \in Octets
    BY DEF Octets
  <2> QED
    BY <1>2, <1>5, <2>2, <2>3
<1>6. \A a \in 0..(MemoryLen - 1) : value(a) \in Octets
  BY <1>4, <1>5
<1>7. MemoryOf(E) \in [0..(MemoryLen - 1) -> Octets]
  <2> HIDE DEF value
  <2> QED
    BY <1>3, <1>6
<1>8. MemoryOf(E)[0] = {SlotBit(s) : s \in DOMAIN E}
  BY <1>3, Memory
<1>9. ASSUME NEW s \in DOMAIN E, NEW k \in 0..2
      PROVE  MemoryOf(E)[Base(s) + k] = E[s][k + 1]
  <2>1. s \in Slots
    BY <1>1
  <2> DEFINE a == Base(s) + k
  <2>2. /\ a \in 0..(MemoryLen - 1) /\ a # 0 /\ (a - 1) \div EntryLen + 1 = s
        /\ ((a - 1) % EntryLen) + 1 = k + 1
    BY <2>1, EntryPlaces
  <2> HIDE DEF a
  <2>3. value(a) = E[s][k + 1]
    BY <2>2
  <2> HIDE DEF value
  <2>4. MemoryOf(E)[a] = E[s][k + 1]
    BY <1>3, <2>2, <2>3
  <2> QED
    BY <2>4 DEF a
<1>10. ActiveSlots(MemoryOf(E)) = DOMAIN E
  BY <1>1, <1>8, SlotBits DEF ActiveSlots
<1> QED
  BY <1>7, <1>8, <1>9, <1>10

\* The octets of an image that a readout needs: its StatusCode at least, and the
\* entries of all its active slots.
LEMMA NeededOctets ==
    ASSUME NEW memory
    PROVE  /\ Needed(memory) \in 1..MemoryLen
           /\ \A s \in ActiveSlots(memory) : 3 * s < Needed(memory)
           /\ ActiveSlots(memory) # {} => Needed(memory) > 1
<1> DEFINE A == ActiveSlots(memory)
<1>1. A \subseteq 1..SlotMax
  BY DEF ActiveSlots, Slots
<1> HIDE DEF A
<1>2. CASE A = {}
  BY <1>2, Memory DEF Needed, A
<1>3. CASE A # {}
  <2> DEFINE U == {u \in 0..6 : 6 - u \in A}
  <2>1. U \subseteq Nat
    OBVIOUS
  <2>2. \A s \in A : 6 - s \in U
    BY <1>1, Memory
  <2>3. U # {}
    BY <1>3, <2>2
  <2>4. PICK u \in U : \A v \in U : u <= v
    BY <2>1, <2>3, LeastNumber
  <2>5. 6 - u \in A /\ \A s \in A : 6 - u >= s
    BY <1>1, <2>2, <2>4, Memory
  <2>6. Max(A) \in A /\ \A s \in A : Max(A) >= s
    BY <2>5 DEF Max
  <2>7. Needed(memory) = 3 * Max(A) + 1
    BY <1>3 DEF Needed, EntryLen, A
  <2>8. Max(A) \in 1..SlotMax
    BY <1>1, <2>6
  <2> DEFINE m == Max(A)
  <2> HIDE DEF m
  <2>9. 3 * m + 1 \in 1..MemoryLen /\ 3 * m + 1 > 1
    BY <2>8, Memory DEF m
  <2>10. \A s \in A : 3 * s < 3 * m + 1
    BY <1>1, <2>6, <2>8, Memory DEF m
  <2> QED
    BY <2>7, <2>9, <2>10 DEF m, A
<1> QED
  BY <1>2, <1>3

\* Which they are follows from the StatusCode.
LEMMA NeededFromStatus ==
    ASSUME NEW memory, NEW other, memory[0] = other[0]
    PROVE  /\ Needed(memory) = Needed(other)
           /\ ActiveSlots(memory) = ActiveSlots(other)
BY DEF Needed, ActiveSlots


-----------------------------------------------------------------------------
(* The event service of the port.                                          *)

\* An octet taken by the service: EventOctet, field by field.
LEMMA OctetTaken ==
    ASSUME NEW e \in EventStates(Octets), NEW o \in Octets
    PROVE  LET f == EventOctet(e, o)
           IN  /\ f \in EventStates(Octets)
               /\ f.phase = e.phase /\ f.request = e.request
               /\ f.od_expected = e.od_expected /\ f.status_seen
               /\ f.addr = IF e.addr < MemoryLen THEN e.addr + 1 ELSE e.addr
               /\ f.memory = IF e.addr < MemoryLen
                             THEN [e.memory EXCEPT ![e.addr] = o] ELSE e.memory
               /\ f.needed = IF e.status_seen THEN e.needed ELSE Needed(f.memory)
<1> DEFINE g == IF e.addr < MemoryLen
                THEN [e EXCEPT !.memory[e.addr] = o, !.addr = @ + 1] ELSE e
           f == EventOctet(e, o)
<1>1. /\ e.addr \in 0..MemoryLen /\ e.needed \in 1..MemoryLen
      /\ e.memory \in [0..(MemoryLen - 1) -> Octets]
  BY DEF EventStates
<1>2. /\ g \in EventStates(Octets) /\ g.phase = e.phase /\ g.request = e.request
      /\ g.od_expected = e.od_expected /\ g.status_seen = e.status_seen
      /\ g.addr = IF e.addr < MemoryLen THEN e.addr + 1 ELSE e.addr
      /\ g.memory = IF e.addr < MemoryLen
                    THEN [e.memory EXCEPT ![e.addr] = o] ELSE e.memory
      /\ g.needed = e.needed
  <2>1. CASE e.addr < MemoryLen
    <3>1. e.addr \in 0..(MemoryLen - 1) /\ e.addr + 1 \in 0..MemoryLen
      BY <1>1, <2>1, Memory
    <3>2. [e.memory EXCEPT ![e.addr] = o] \in [0..(MemoryLen - 1) -> Octets]
      BY <1>1, <3>1
    <3> QED
      BY <2>1, <3>1, <3>2 DEF EventStates
  <2>2. CASE ~(e.addr < MemoryLen)
    BY <2>2
  <2> QED
    BY <2>1, <2>2
<1>3. f = IF g.status_seen THEN g
          ELSE [g EXCEPT !.status_seen = TRUE, !.needed = Needed(g.memory)]
  BY DEF EventOctet
<1> HIDE DEF g, f
<1>4. CASE g.status_seen
  BY <1>2, <1>3, <1>4 DEF f
<1>5. CASE ~g.status_seen
  <2>1. Needed(g.memory) \in 1..MemoryLen
    BY NeededOctets
  <2>2. f = [g EXCEPT !.status_seen = TRUE, !.needed = Needed(g.memory)]
    BY <1>3, <1>5
  <2>3. f \in EventStates(Octets)
    BY <1>2, <2>1, <2>2 DEF EventStates
  <2>4. /\ f.phase = g.phase /\ f.request = g.request /\ f.memory = g.memory
        /\ f.od_expected = g.od_expected /\ f.status_seen /\ f.addr = g.addr
        /\ f.needed = Needed(g.memory)
    BY <1>2, <2>2 DEF EventStates
  <2> QED
    BY <1>2, <1>5, <2>3, <2>4 DEF f
<1> QED
  BY <1>4, <1>5

\* What event_on_od makes of the service once all octets are taken.
Concluded(f) ==
    IF ~EventRead(f) THEN f
    ELSE IF f.request = "ack" THEN [f EXCEPT !.phase = "write", !.addr = 0]
    ELSE EventFinish(f)

\* The octets of a reply are taken one by one.
LEMMA EventWalk ==
    ASSUME NEW e \in EventStates(Octets), e.phase = "read", NEW od \in Seq(Octets)
    PROVE  \E at :
              /\ at[0] = e
              /\ \A n \in 1..Len(od) : at[n] = EventOctet(at[n - 1], od[n])
              /\ \A n \in 0..Len(od) : at[n] \in EventStates(Octets)
              /\ EventOnOd(e, od) = Concluded(at[Len(od)])
<1> DEFINE X == EventStates(Octets)
           step == [p \in X \X Octets |-> EventOctet(p[1], p[2])]
           P(at) == at = [n \in 0..Len(od) |->
                            IF n = 0 THEN e ELSE EventOctet(at[n - 1], od[n])]
           walk == CHOOSE at : P(at)
<1>1. \A x \in X, o \in Octets : step[<<x, o>>] = EventOctet(x, o)
  OBVIOUS
<1>2. step \in Steps(X, Octets)
  BY OctetTaken DEF Steps
<1>3. Len(od) \in Nat /\ \A n \in 1..Len(od) : od[n] \in Octets
  OBVIOUS
<1>w. PICK at : IsWalk(at, step, e, od) /\ \A n \in 0..Len(od) : at[n] \in X
  <2> HIDE DEF step, X
  <2>1. e \in X
    BY DEF X
  <2> QED
    BY <1>2, <2>1, Taken
<1>4. /\ at = [n \in 0..Len(od) |-> at[n]]
      /\ \A n \in 0..Len(od) : at[n] \in X
      /\ at[0] = e
      /\ \A n \in 1..Len(od) : at[n] = step[<<at[n - 1], od[n]>>]
  BY <1>w DEF IsWalk
<1> HIDE DEF X, step
<1>5. \A n \in 1..Len(od) : at[n - 1] \in X
  BY <1>3, <1>4
<1>6. \A n \in 1..Len(od) : step[<<at[n - 1], od[n]>>] = EventOctet(at[n - 1], od[n])
  BY <1>1, <1>3, <1>5
<1>7. P(at)
  <2>1. ASSUME NEW n \in 0..Len(od)
        PROVE  at[n] = IF n = 0 THEN e ELSE EventOctet(at[n - 1], od[n])
    <3>1. n = 0 \/ n \in 1..Len(od)
      BY <1>3
    <3> QED
      BY <1>4, <1>6, <3>1
  <2> QED
    BY <1>4, <2>1
<1>8. P(walk)
  <2> HIDE DEF P
  <2> QED
    BY <1>7
<1> HIDE DEF walk
<1>9. walk[0] = e /\ \A n \in 1..Len(od) : walk[n] = EventOctet(walk[n - 1], od[n])
  BY <1>3, <1>8
<1>10. \A n \in 0..Len(od) : walk[n] \in X
  <2> DEFINE good == {n \in 0..Len(od) : walk[n] \in X}
  <2>1. 0 \in good
    BY <1>3, <1>9 DEF X
  <2>2. ASSUME NEW n \in 1..Len(od), n - 1 \in good PROVE n \in good
    <3>1. walk[n] = EventOctet(walk[n - 1], od[n]) /\ n \in 0..Len(od)
      BY <1>3, <1>9
    <3>2. EventOctet(walk[n - 1], od[n]) \in X
      BY <1>3, <2>2, OctetTaken DEF X
    <3> QED
      BY <3>1, <3>2
  <2> HIDE DEF good
  <2>3. \A n \in 0..Len(od) : n \in good
    BY <1>3, <2>1, <2>2, AllAlong
  <2> QED
    BY <2>3 DEF good
<1>11. EventOnOd(e, od) = Concluded(walk[Len(od)])
  BY DEF EventOnOd, Concluded, walk
<1> QED
  BY <1>9, <1>10, <1>11 DEF X


\* A readout in progress: it is not complete, and knows its StatusCode once it
\* has read on.
Reading(e) ==
    /\ e.phase = "read" /\ ~EventRead(e)
    /\ e.status_seen <=> e.addr # 0

\* Whatever the octets are, the readout goes on, or is confirmed, or is complete.
LEMMA ReadoutGoesOn ==
    ASSUME NEW e \in EventStates(Octets), Reading(e), NEW od \in Seq(Octets)
    PROVE  /\ EventOnOd(e, od) \in EventStates(Octets)
           /\ EventOnOd(e, od).phase = "read" => Reading(EventOnOd(e, od))
           /\ ~e.od_expected => ~EventOnOd(e, od).od_expected
           /\ od = <<>> => EventOnOd(e, od) = e
<1>1. e.phase = "read"
  BY DEF Reading
<1>2. PICK at :
          /\ at[0] = e
          /\ \A n \in 1..Len(od) : at[n] = EventOctet(at[n - 1], od[n])
          /\ \A n \in 0..Len(od) : at[n] \in EventStates(Octets)
          /\ EventOnOd(e, od) = Concluded(at[Len(od)])
  BY <1>1, EventWalk
<1>3. Len(od) \in Nat /\ \A n \in 1..Len(od) : od[n] \in Octets
  OBVIOUS
<1> DEFINE Going(f) == /\ f.phase = "read" /\ (f.status_seen <=> f.addr # 0)
                       /\ f.od_expected = e.od_expected
           good == {n \in 0..Len(od) : Going(at[n])}
<1>4. 0 \in good
  BY <1>2, <1>3 DEF Reading
<1>5. ASSUME NEW n \in 1..Len(od), n - 1 \in good PROVE n \in good
  <2> DEFINE x == at[n - 1]
             y == at[n]
  <2>1. /\ y = EventOctet(x, od[n]) /\ n \in 0..Len(od)
        /\ x \in EventStates(Octets) /\ od[n] \in Octets
    BY <1>2, <1>3
  <2>2. Going(x)
    BY <1>5
  <2>3. x.addr \in 0..MemoryLen
    BY <2>1 DEF EventStates
  <2> HIDE DEF x, y
  <2>4. /\ y.phase = x.phase /\ y.status_seen
        /\ y.addr = IF x.addr < MemoryLen THEN x.addr + 1 ELSE x.addr
        /\ y.memory = IF x.addr < MemoryLen
                      THEN [x.memory EXCEPT ![x.addr] = od[n]] ELSE x.memory
    BY <2>1, OctetTaken
  <2>5. y.od_expected = x.od_expected
    BY <2>1, OctetTaken, Zenon
  <2>6. y.addr # 0
    BY <2>3, <2>4, Memory
  <2> QED
    BY <2>1, <2>2, <2>4, <2>5, <2>6 DEF y
<1> HIDE DEF good
<1>6. \A n \in 0..Len(od) : n \in good
  BY <1>3, <1>4, <1>5, AllAlong
<1> DEFINE f == at[Len(od)]
<1>7. Going(f) /\ f \in EventStates(Octets) /\ EventOnOd(e, od) = Concluded(f)
  BY <1>2, <1>3, <1>6 DEF good
<1>8. od = <<>> => f = e
  BY <1>2
<1> HIDE DEF f
<1>9. CASE ~EventRead(f)
  <2>1. Concluded(f) = f
    BY <1>9 DEF Concluded
  <2> QED
    BY <1>7, <1>8, <1>9, <2>1 DEF Reading
<1>10. CASE EventRead(f)
  <2>1. od # <<>>
    BY <1>8, <1>10 DEF Reading
  <2>2. CASE f.request = "ack"
    <3>1. Concluded(f) = [f EXCEPT !.phase = "write", !.addr = 0]
      BY <1>10, <2>2 DEF Concluded
    <3>2. 0 \in 0..MemoryLen
      BY Memory
    <3>3. /\ Concluded(f) \in EventStates(Octets) /\ Concluded(f).phase = "write"
          /\ Concluded(f).od_expected = f.od_expected
      BY <1>7, <3>1, <3>2 DEF EventStates
    <3> QED
      BY <1>7, <2>1, <3>3
  <2>3. CASE f.request # "ack"
    <3>1. Concluded(f) = [f EXCEPT !.phase = "none", !.od_expected = FALSE]
      BY <1>10, <2>3 DEF Concluded, EventFinish
    <3>2. /\ Concluded(f) \in EventStates(Octets) /\ Concluded(f).phase = "none"
          /\ ~Concluded(f).od_expected
      BY <1>7, <3>1 DEF EventStates
    <3> QED
      BY <1>7, <2>1, <3>2
  <2> QED
    BY <2>2, <2>3
<1> QED
  BY <1>9, <1>10

\* The image up to n is that of the events E.
Agrees(memory, E, n) == \A a \in 0..(n - 1) : memory[a] = MemoryOf(E)[a]

\* A readout that has read E so far, and one that has read all of E.
PartOf(e, E) ==
    e.status_seen => /\ Agrees(e.memory, E, e.addr)
                     /\ e.needed = Needed(MemoryOf(E))
AllOf(e, E) == Agrees(e.memory, E, Needed(MemoryOf(E)))

\* Fed with the memory of E, a readout of E goes on to be one.
LEMMA ReadoutExact ==
    ASSUME NEW e \in EventStates(Octets), Reading(e), NEW E \in EventSets,
           PartOf(e, E), NEW w \in 1..8,
           NEW od, od = MemorySegment(E, e.addr, w)
    PROVE  /\ od \in Seq(Octets) /\ od # <<>>
           /\ EventOnOd(e, od).phase = "read"
                => EventOnOd(e, od).status_seen /\ PartOf(EventOnOd(e, od), E)
           /\ EventOnOd(e, od).phase # "read" => AllOf(EventOnOd(e, od), E)
<1> DEFINE M == MemoryOf(E)
<1>1. M \in [0..(MemoryLen - 1) -> Octets]
  BY ImageTypes
<1>2. e.addr \in 0..MemoryLen
  BY DEF EventStates
<1>3. /\ od = [i \in 1..w |-> IF e.addr + i - 1 < MemoryLen
                              THEN M[e.addr + i - 1] ELSE {}]
  BY DEF MemorySegment
<1> HIDE DEF M
<1>4. od \in Seq(Octets) /\ Len(od) = w
  <2>1. ASSUME NEW i \in 1..w PROVE od[i] \in Octets
    <3>1. CASE e.addr + i - 1 < MemoryLen
      <4>1. e.addr + i - 1 \in 0..(MemoryLen - 1)
        BY <1>2, <3>1, Memory
      <4> QED
        BY <1>1, <1>3, <3>1, <4>1
    <3>2. CASE ~(e.addr + i - 1 < MemoryLen)
      BY <1>3, <3>2 DEF Octets
    <3> QED
      BY <3>1, <3>2
  <2>2. od = [i \in 1..w |-> od[i]]
    BY <1>3
  <2> QED
    BY <2>1, <2>2
<1>5. e.phase = "read"
  BY DEF Reading
<1>6. PICK at :
          /\ at[0] = e
          /\ \A n \in 1..Len(od) : at[n] = EventOctet(at[n - 1], od[n])
          /\ \A n \in 0..Len(od) : at[n] \in EventStates(Octets)
          /\ EventOnOd(e, od) = Concluded(at[Len(od)])
  BY <1>4, <1>5, EventWalk
<1> DEFINE Place(n) == IF e.addr + n < MemoryLen THEN e.addr + n ELSE MemoryLen
           Exact(f) == /\ \A a \in 0..(f.addr - 1) : f.memory[a] = M[a]
                       /\ f.needed = Needed(M)
           good == {n \in 0..w : /\ at[n].addr = Place(n)
                                 /\ at[n].phase = "read"
                                 /\ at[n].status_seen <=> at[n].addr # 0
                                 /\ at[n].status_seen => Exact(at[n])}
<1>7. 0 \in good
  BY <1>2, <1>5, <1>6, Memory DEF Reading, PartOf, Agrees, M
<1>8. ASSUME NEW n \in 1..w, n - 1 \in good PROVE n \in good
  <2> DEFINE x == at[n - 1]
             y == at[n]
  <2>1. /\ y = EventOctet(x, od[n]) /\ n \in 0..w
        /\ x \in EventStates(Octets) /\ od[n] \in Octets
    BY <1>4, <1>6
  <2>2. /\ x.addr = Place(n - 1) /\ x.phase = "read" /\ (x.status_seen <=> x.addr # 0)
        /\ x.status_seen => Exact(x)
    BY <1>8
  <2>3. x.addr \in 0..MemoryLen /\ x.memory \in [0..(MemoryLen - 1) -> Octets]
    BY <2>1 DEF EventStates
  <2> HIDE DEF x, y
  <2>4. /\ y.phase = x.phase /\ y.status_seen
        /\ y.addr = IF x.addr < MemoryLen THEN x.addr + 1 ELSE x.addr
        /\ y.memory = IF x.addr < MemoryLen
                      THEN [x.memory EXCEPT ![x.addr] = od[n]] ELSE x.memory
        /\ y.needed = IF x.status_seen THEN x.needed ELSE Needed(y.memory)
    BY <2>1, OctetTaken
  <2>5. y.addr = Place(n) /\ y.addr # 0
    <3> DEFINE b == e.addr
               i == x.addr
               j == y.addr
    <3>1. b \in Nat /\ i \in 0..MemoryLen /\ n \in Nat \ {0} /\ MemoryLen \in Nat \ {0}
      BY <1>2, <2>3, Memory
    <3>2. /\ i = IF b + (n - 1) < MemoryLen THEN b + (n - 1) ELSE MemoryLen
          /\ j = IF i < MemoryLen THEN i + 1 ELSE i
      BY <2>2, <2>4
    <3> HIDE DEF b, i, j
    <3>3. j = (IF b + n < MemoryLen THEN b + n ELSE MemoryLen) /\ j # 0
      BY <3>1, <3>2
    <3> QED
      BY <3>3 DEF b, j
  <2>6. \A a \in 0..(y.addr - 1) : y.memory[a] = M[a]
    <3>1. CASE x.addr < MemoryLen
      <4>1. x.addr = e.addr + n - 1 /\ x.addr \in 0..(MemoryLen - 1)
        BY <1>2, <2>2, <2>3, <3>1, Memory
      <4>2. od[n] = M[x.addr]
        BY <1>3, <3>1, <4>1
      <4>3. \A a \in 0..(x.addr - 1) : x.memory[a] = M[a]
        BY <2>2, <2>3
      <4>4. y.memory[x.addr] = od[n]
        BY <2>3, <2>4, <3>1, <4>1
      <4>5. ASSUME NEW a \in 0..(x.addr - 1) PROVE y.memory[a] = M[a]
        <5>1. a \in 0..(MemoryLen - 1) /\ a # x.addr
          BY <2>3, Memory
        <5>2. y.memory[a] = x.memory[a]
          BY <2>3, <2>4, <3>1, <5>1
        <5> QED
          BY <4>3, <5>2
      <4>6. \A a \in 0..(y.addr - 1) : a = x.addr \/ a \in 0..(x.addr - 1)
        BY <2>3, <2>4, <3>1
      <4> QED
        BY <4>2, <4>4, <4>5, <4>6
    <3>2. CASE ~(x.addr < MemoryLen)
      <4>1. x.addr # 0 /\ y.addr = x.addr /\ y.memory = x.memory
        BY <2>3, <2>4, <3>2, Memory
      <4> QED
        BY <2>2, <4>1
    <3> QED
      BY <3>1, <3>2
  <2>7. y.needed = Needed(M)
    <3>1. CASE x.status_seen
      BY <2>2, <2>4, <3>1
    <3>2. CASE ~x.status_seen
      <4>1. y.memory[0] = M[0]
        BY <2>3, <2>4, <2>5, <2>6, Memory
      <4> QED
        BY <2>4, <3>2, <4>1, NeededFromStatus
    <3> QED
      BY <3>1, <3>2
  <2> QED
    BY <2>1, <2>2, <2>4, <2>5, <2>6, <2>7 DEF x, y
<1>9. w \in good
  <2> HIDE DEF good
  <2> QED
    BY <1>7, <1>8, AllAlong
<1> DEFINE f == at[w]
<1>10. /\ f.phase = "read" /\ f.status_seen /\ f \in EventStates(Octets)
       /\ Exact(f) /\ EventOnOd(e, od) = Concluded(f)
  BY <1>2, <1>4, <1>6, <1>9, Memory
<1> HIDE DEF f
<1>11. f.addr \in 0..MemoryLen
  BY <1>10 DEF EventStates
<1>12. CASE ~EventRead(f)
  <2>1. Concluded(f) = f
    BY <1>12 DEF Concluded
  <2> QED
    BY <1>4, <1>10, <2>1 DEF PartOf, Agrees, M
<1>13. CASE EventRead(f)
  <2>1. /\ Concluded(f).phase # "read"
        /\ Concluded(f).memory = f.memory
    BY <1>10, <1>13 DEF Concluded, EventFinish, EventStates
  <2>2. f.addr >= Needed(M)
    BY <1>10, <1>13 DEF EventRead
  <2>3. Needed(M) \in 1..MemoryLen
    BY NeededOctets
  <2>4. \A a \in 0..(Needed(M) - 1) : f.memory[a] = M[a]
    BY <1>10, <1>11, <2>2, <2>3, Memory
  <2> QED
    BY <1>4, <1>10, <2>1, <2>4 DEF AllOf, Agrees, M
<1> QED
  BY <1>12, <1>13


-----------------------------------------------------------------------------
(* Octets, numbers and checksums.                                          *)

\* What an octet is worth, bit by bit.
Value(o) ==
    (IF 1 \in o THEN 1 ELSE 0) + (IF 2 \in o THEN 2 ELSE 0)
    + (IF 4 \in o THEN 4 ELSE 0) + (IF 8 \in o THEN 8 ELSE 0)
    + (IF 16 \in o THEN 16 ELSE 0) + (IF 32 \in o THEN 32 ELSE 0)
    + (IF 64 \in o THEN 64 ELSE 0) + (IF 128 \in o THEN 128 ELSE 0)

LEMMA ValueOfRest ==
    ASSUME NEW s \in SUBSET Bits, NEW x \in s
    PROVE  Value(s) \in Nat /\ Value(s) = x + Value(s \ {x}) /\ x \in Nat /\ x > 0
<1>1. x \in {1, 2, 4, 8, 16, 32, 64, 128}
  BY DEF Bits
<1>2. \A b : b \in s \ {x} <=> b \in s /\ b # x
  OBVIOUS
<1> DEFINE t == s \ {x}
<1> HIDE DEF t
<1>3. \A b : b \in t <=> b \in s /\ b # x
  BY <1>2 DEF t
<1>4. Value(s) = x + Value(t) /\ Value(s) \in Nat
  BY <1>1, <1>3 DEF Value
<1> QED
  BY <1>1, <1>4 DEF t

\* The sum of the weights, computed one bit after the other, is that.
LEMMA Numbers ==
    ASSUME NEW o \in Octets
    PROVE  Number(o) = Value(o) /\ Number(o) \in 0..255
<1> DEFINE P(g) == g = [s \in SUBSET o |-> IF s = {} THEN 0
                          ELSE LET x == CHOOSE x \in s : TRUE
                               IN  x + g[s \ {x}]]
           sums == [s \in SUBSET o |-> Value(s)]
           iter == CHOOSE g : P(g)
<1>1. Number(o) = iter[o]
  BY DEF Number, SumSet, FoldSet, MapThenFoldSet
<1>2. o \in SUBSET Bits /\ Value({}) = 0
  BY DEF Octets, Value
<1>3. P(sums)
  <2>1. ASSUME NEW s \in SUBSET o, s # {}
        PROVE  Value(s) = (CHOOSE x \in s : TRUE)
                           + sums[s \ {CHOOSE x \in s : TRUE}]
    <3> DEFINE x == CHOOSE x \in s : TRUE
    <3>1. x \in s
      BY <2>1
    <3> HIDE DEF x
    <3>2. s \in SUBSET Bits /\ s \ {x} \in SUBSET o
      BY <1>2
    <3>3. sums[s \ {x}] = Value(s \ {x})
      BY <3>2
    <3>4. Value(s) = x + Value(s \ {x})
      BY <3>1, <3>2, ValueOfRest
    <3> QED
      BY <3>3, <3>4 DEF x
  <2> QED
    BY <1>2, <2>1
<1>4. P(iter)
  <2> HIDE DEF P
  <2> QED
    BY <1>3
<1> HIDE DEF iter
<1> DEFINE bad == {s \in SUBSET o : iter[s] # Value(s)}
           worth == {Value(s) : s \in bad}
<1>5. ASSUME bad # {} PROVE FALSE
  <2>1. \A s : Value(s) \in Nat
    BY DEF Value
  <2>2. worth \subseteq Nat /\ worth # {}
    BY <1>5, <2>1
  <2>3. PICK v \in worth : \A k \in worth : v <= k
    BY <2>2, LeastNumber
  <2>4. PICK s \in bad : v = Value(s)
    OBVIOUS
  <2>5. s # {}
    BY <1>2, <1>4
  <2> DEFINE x == CHOOSE x \in s : TRUE
  <2>6. x \in s /\ iter[s] = x + iter[s \ {x}]
    BY <1>4, <2>5
  <2> HIDE DEF x
  <2>7. Value(s) = x + Value(s \ {x}) /\ x \in Nat /\ x > 0 /\ Value(s) \in Nat
    BY <1>2, <2>6, ValueOfRest
  <2>8. s \ {x} \in SUBSET o /\ Value(s \ {x}) \in Nat
    BY <2>1
  <2>9. Value(s \ {x}) \notin worth
    <3> DEFINE u == Value(s \ {x})
    <3>1. u \in Nat /\ v = x + u
      BY <2>4, <2>7, <2>8
    <3> HIDE DEF worth, u
    <3>2. ~(v <= u)
      BY <2>7, <3>1
    <3>3. u \notin worth
      BY <2>3, <3>2
    <3> QED
      BY <3>3 DEF u
  <2>10. s \ {x} \notin bad
    BY <2>9
  <2>11. iter[s \ {x}] = Value(s \ {x})
    BY <2>8, <2>10
  <2> QED
    BY <2>6, <2>7, <2>11
<1>6. Number(o) = Value(o)
  BY <1>1, <1>5
<1>7. Value(o) \in 0..255
  BY DEF Value
<1> QED
  BY <1>6, <1>7

LEMMA Nibbles ==
    ASSUME NEW o \in Octets
    PROVE  LengthNibble(o) \in 0..255 /\ ServiceNibble(o) \in 0..15
<1>1. o \cap {1, 2, 4, 8} \in Octets /\ o \cap {16, 32, 64, 128} \in Octets
  BY DEF Octets, Bits
<1> QED
  BY <1>1, Numbers DEF LengthNibble, ServiceNibble

LEMMA OctetNumbers ==
    \A o \in Octets : LengthNibble(o) \in Nat /\ Number(o) \in Nat
<1>1. ASSUME NEW o \in Octets PROVE LengthNibble(o) \in 0..255 /\ Number(o) \in 0..255
  BY Nibbles, Numbers
<1> QED
  BY <1>1

LEMMA OctetTypes ==
    /\ {} \in Octets
    /\ \A n : OctetOf(n) \in Octets
    /\ \A a, b \in Octets : SymDiff(a, b) \in Octets
BY DEF Octets, OctetOf, SymDiff

\* CHKPDU is taken octet by octet.
LEMMA ChkpduWalk ==
    ASSUME NEW s \in Seq(Octets)
    PROVE  \E walk :
              /\ walk[0] = {} /\ Chkpdu(s) = walk[Len(s)]
              /\ \A n \in 1..Len(s) : walk[n] = SymDiff(walk[n - 1], s[n])
<1> DEFINE step == [p \in Octets \X Octets |-> SymDiff(p[1], p[2])]
           P(at) == at = [n \in 0..Len(s) |->
                            IF n = 0 THEN {} ELSE SymDiff(at[n - 1], s[n])]
           walk == CHOOSE at : P(at)
<1>1. \A x, o \in Octets : step[<<x, o>>] = SymDiff(x, o)
  OBVIOUS
<1>2. step \in Steps(Octets, Octets)
  BY OctetTypes DEF Steps
<1>3. Len(s) \in Nat /\ \A n \in 1..Len(s) : s[n] \in Octets
  OBVIOUS
<1> HIDE DEF step
<1>4. PICK at : IsWalk(at, step, {}, s) /\ \A n \in 0..Len(s) : at[n] \in Octets
  BY <1>2, OctetTypes, Taken
<1>5. P(at)
  <2>1. ASSUME NEW n \in 0..Len(s)
        PROVE  at[n] = IF n = 0 THEN {} ELSE SymDiff(at[n - 1], s[n])
    <3>1. CASE n = 0
      BY <1>4, <3>1 DEF IsWalk
    <3>2. CASE n # 0
      <4>1. n \in 1..Len(s) /\ n - 1 \in 0..Len(s)
        BY <1>3, <3>2
      <4>2. at[n] = step[<<at[n - 1], s[n]>>]
        BY <1>4, <4>1 DEF IsWalk
      <4> QED
        BY <1>1, <1>3, <1>4, <3>2, <4>1, <4>2
    <3> QED
      BY <3>1, <3>2
  <2>2. at = [n \in 0..Len(s) |-> at[n]]
    BY <1>4 DEF IsWalk
  <2> QED
    BY <2>1, <2>2
<1>6. P(walk)
  <2> HIDE DEF P
  <2> QED
    BY <1>5
<1>7. Chkpdu(s) = walk[Len(s)]
  BY DEF Chkpdu, walk
<1> HIDE DEF walk
<1>8. \A n \in 0..Len(s) :
          walk[n] = IF n = 0 THEN {} ELSE SymDiff(walk[n - 1], s[n])
  BY <1>6, Zenon
<1>9. walk[0] = {} /\ \A n \in 1..Len(s) : walk[n] = SymDiff(walk[n - 1], s[n])
  <2>1. 0 \in 0..Len(s) /\ \A n \in 1..Len(s) : n \in 0..Len(s) /\ n # 0
    BY <1>3
  <2> QED
    BY <1>8, <2>1, Zenon
<1> QED
  BY <1>7, <1>9

\* CHKPDU, computed octet by octet, is an octet.
LEMMA ChkpduType ==
    ASSUME NEW s \in Seq(Octets)
    PROVE  Chkpdu(s) \in Octets
<1>1. PICK walk : /\ walk[0] = {} /\ Chkpdu(s) = walk[Len(s)]
                  /\ \A n \in 1..Len(s) : walk[n] = SymDiff(walk[n - 1], s[n])
  BY ChkpduWalk
<1>2. Len(s) \in Nat /\ \A n \in 1..Len(s) : s[n] \in Octets
  OBVIOUS
<1> DEFINE good == {n \in 0..Len(s) : walk[n] \in Octets}
<1>3. 0 \in good
  <2>1. 0 \in 0..Len(s)
    BY <1>2
  <2> QED
    BY <1>1, <2>1, OctetTypes
<1>4. ASSUME NEW n \in 1..Len(s), n - 1 \in good PROVE n \in good
  <2>1. walk[n] = SymDiff(walk[n - 1], s[n]) /\ n \in 0..Len(s)
    BY <1>1, <1>2
  <2> QED
    BY <1>2, <1>4, <2>1, OctetTypes
<1> HIDE DEF good
<1>5. \A n \in 0..Len(s) : n \in good
  BY <1>2, <1>3, <1>4, AllAlong
<1>6. Len(s) \in good
  BY <1>2, <1>5
<1> QED
  BY <1>1, <1>6 DEF good

LEMMA SealedType ==
    ASSUME NEW s \in Seq(Octets)
    PROVE  Sealed(s) \in Seq(Octets)
BY ChkpduType DEF Sealed

LEMMA HeaderType ==
    ASSUME NEW service, NEW total
    PROVE  Header(service, total) \in Seq(Octets)
BY OctetTypes DEF Header

LEMMA StreamTypes ==
    /\ \A object \in Objects : ReadRequest(object) \in Seq(Octets)
    /\ \A object \in Objects, data \in Seq(Octets) :
          WriteRequest(object, data) \in Seq(Octets)
    /\ \A op : \A value \in Seq(Octets) : PositiveResponse(op, value) \in Seq(Octets)
    /\ \A op : NegativeResponse(op) \in Seq(Octets)
<1>1. \A object \in Objects : object \in Seq(Octets)
  BY ObjectsAssumption
<1>2. \A a, b \in Seq(Octets) : a \o b \in Seq(Octets)
  OBVIOUS
<1>3. <<{128}, {1, 16}>> \in Seq(Octets)
  BY DEF Octets, Bits
<1>4. \A object \in Objects : ReadRequest(object) \in Seq(Octets)
  BY <1>1, <1>2, HeaderType, SealedType DEF ReadRequest
<1>5. \A object \in Objects, data \in Seq(Octets) :
          WriteRequest(object, data) \in Seq(Octets)
  BY <1>1, <1>2, HeaderType, SealedType DEF WriteRequest
<1>6. \A op : \A value \in Seq(Octets) : PositiveResponse(op, value) \in Seq(Octets)
  BY <1>2, HeaderType, SealedType DEF PositiveResponse
<1>7. \A op : NegativeResponse(op) \in Seq(Octets)
  BY <1>2, <1>3, HeaderType, SealedType DEF NegativeResponse
<1> QED
  BY <1>4, <1>5, <1>6, <1>7


-----------------------------------------------------------------------------
(* The ISDU transport keeps its types, and the response its buffer.        *)

IsduFits == {s \in IsduStates : Len(s.response) <= BufferSize}

LEMMA Fields ==
    ASSUME NEW s \in IsduFits
    PROVE  /\ s \in IsduStates /\ s.response \in Seq(Octets) /\ Len(s.response) \in Nat
           /\ Len(s.response) <= BufferSize /\ s.request \in Seq(Octets)
           /\ Len(s.request) \in Nat /\ s.request_pos \in Nat
           /\ s.flowctrl \in FlowCtrl /\ s.expected_len \in Nat
BY DEF IsduFits, IsduStates

LEMMA ClearFits == IsduClear \in IsduFits
BY BufferAssumption DEF IsduClear, IsduFits, IsduStates, FlowCtrl, NoObject, Start,
   IdleCtrl, AbortCtrl

LEMMA FinishFits ==
    ASSUME NEW s \in IsduFits
    PROVE  IsduFinish(s) \in IsduFits
<1>1. (s.abort_pending /\ s.error # "none") \in BOOLEAN
  OBVIOUS
<1> DEFINE b == s.abort_pending /\ s.error # "none"
<1> HIDE DEF b
<1>2. [IsduClear EXCEPT !.abort_pending = b] \in IsduStates
  BY <1>1, ClearFits DEF IsduFits, IsduStates, b
<1>3. [IsduClear EXCEPT !.abort_pending = b].response = <<>>
  BY DEF IsduClear
<1>4. Len(<<>>) <= BufferSize
  BY BufferAssumption
<1>5. IsduFinish(s) = [IsduClear EXCEPT !.abort_pending = b]
  BY DEF IsduFinish, b
<1> DEFINE f == [IsduClear EXCEPT !.abort_pending = b]
<1>6. f \in IsduStates /\ f.response = <<>>
  BY <1>2, <1>3
<1> HIDE DEF f
<1>7. f \in IsduFits
  BY <1>4, <1>6 DEF IsduFits
<1> QED
  BY <1>5, <1>7 DEF f

LEMMA StartFits ==
    ASSUME NEW op \in {"read", "write"}, NEW object \in Objects,
           NEW request \in Seq(Octets)
    PROVE  IsduStart(op, object, request) \in IsduFits
BY ClearFits DEF IsduStart, IsduFits, IsduStates, FlowCtrl, Start, IsduClear

LEMMA ReadFits ==
    ASSUME NEW s \in IsduFits, NEW object \in Objects, NEW cap
    PROVE  ReadIsdu(s, object, cap).isdu \in IsduFits
<1>1. IsduStart("read", object, ReadRequest(object)) \in IsduFits
  BY StartFits, StreamTypes
<1>2. IsduFinish(s) \in IsduFits
  BY FinishFits
<1> QED
  BY <1>1, <1>2 DEF ReadIsdu

LEMMA WriteFitsToo ==
    ASSUME NEW s \in IsduFits, NEW object \in Objects, NEW data \in Seq(Octets)
    PROVE  WriteIsdu(s, object, data).isdu \in IsduFits
<1>1. IsduStart("write", object, WriteRequest(object, data)) \in IsduFits
  BY StartFits, StreamTypes
<1>2. IsduFinish(s) \in IsduFits
  BY FinishFits
<1> QED
  BY <1>1, <1>2 DEF WriteIsdu

LEMMA NextCountType ==
    ASSUME NEW flow \in FlowCtrl
    PROVE  NextCount(flow) \in 0..15 /\ NextCount(flow) \in FlowCtrl
BY DEF NextCount, FlowCtrl, CountMod, Start, IdleCtrl, AbortCtrl

LEMMA SentFits ==
    ASSUME NEW s \in IsduFits, NEW w \in 1..8
    PROVE  IsduSent(s, w) \in IsduFits
<1>1. [s EXCEPT !.abort_pending = FALSE] \in IsduFits
  BY DEF IsduFits, IsduStates
<1>2. [s EXCEPT !.idle_pending = FALSE] \in IsduFits
  BY DEF IsduFits, IsduStates
<1>3. FillOd(s, w) \in IsduFits
  <2>1. NextCount(s.flowctrl) \in FlowCtrl /\ Start \in FlowCtrl
    BY Fields, NextCountType DEF FlowCtrl, Start
  <2>2. s.request_pos + w \in Nat /\ Len(s.request) \in Nat
    BY Fields
  <2>3. [s EXCEPT !.request_pos = Len(s.request), !.phase = "wait",
                  !.flowctrl = Start] \in IsduFits
    BY <2>1, <2>2 DEF IsduFits, IsduStates
  <2>4. [s EXCEPT !.request_pos = s.request_pos + w,
                  !.flowctrl = NextCount(s.flowctrl)] \in IsduFits
    BY <2>1, <2>2 DEF IsduFits, IsduStates
  <2>5. [s EXCEPT !.flowctrl = Start] \in IsduFits
    BY <2>1 DEF IsduFits, IsduStates
  <2>6. [s EXCEPT !.flowctrl = NextCount(s.flowctrl)] \in IsduFits
    BY <2>1 DEF IsduFits, IsduStates
  <2> QED
    BY <2>3, <2>4, <2>5, <2>6 DEF FillOd
<1>4. s.abort_pending \in BOOLEAN /\ s.idle_pending \in BOOLEAN
  BY DEF IsduFits, IsduStates
<1> QED
  BY <1>1, <1>2, <1>3, <1>4 DEF IsduSent

LEMMA SegmentationFits ==
    ASSUME NEW s \in IsduFits
    PROVE  Segmentation(s) \in IsduFits
BY DEF Segmentation, IsduFits, IsduStates

LEMMA PartType ==
    ASSUME NEW s \in Seq(Octets), NEW m \in Nat, m >= 1, NEW n \in Int, n <= Len(s)
    PROVE  SubSeq(s, m, n) \in Seq(Octets) /\ Len(SubSeq(s, m, n)) <= Len(s)
           /\ (m <= n => Len(SubSeq(s, m, n)) = n - m + 1)
<1>1. CASE m <= n
  <2>1. m \in 1..(Len(s) + 1) /\ n \in (m - 1)..Len(s)
    BY <1>1
  <2>2. /\ SubSeq(s, m, n) \in Seq(Octets)
        /\ Len(SubSeq(s, m, n)) = IF m <= n THEN n - m + 1 ELSE 0
    BY <2>1, SubSeqProperties
  <2> QED
    BY <1>1, <2>2
<1>2. CASE ~(m <= n)
  <2>1. SubSeq(s, m, n) = <<>>
    BY <1>2, SubSeqEmpty
  <2> QED
    BY <1>2, <2>1
<1> QED
  BY <1>1, <1>2

LEMMA PayloadFits ==
    ASSUME NEW s \in IsduFits
    PROVE  Payload(s) \in Seq(Octets) /\ Len(Payload(s)) <= BufferSize
<1> DEFINE q == s.response
           m == PayloadStart(s)
           p == SubSeq(q, m, Len(q) - 1)
<1>1. q \in Seq(Octets) /\ Len(q) \in Nat /\ Len(q) <= BufferSize
  BY Fields
<1>2. m = 2 \/ m = 3
  BY DEF PayloadStart
<1> HIDE DEF q, m
<1>3. p \in Seq(Octets) /\ Len(p) <= Len(q)
  <2>1. m \in Nat /\ m >= 1 /\ Len(q) - 1 \in Int /\ Len(q) - 1 <= Len(q)
    BY <1>1, <1>2
  <2> QED
    BY <1>1, <2>1, PartType
<1>4. Payload(s) = p
  BY DEF Payload, p, q, m
<1> HIDE DEF p
<1>5. Len(p) \in Nat
  BY <1>3
<1>6. Len(p) <= BufferSize
  BY <1>1, <1>3, <1>5, BufferAssumption
<1> QED
  BY <1>3, <1>4, <1>6

LEMMA DecodeFits ==
    ASSUME NEW s \in IsduFits
    PROVE  DecodeResponse(s) \in IsduFits
<1>1. [Segmentation(s) EXCEPT !.abort_pending = TRUE] \in IsduFits
  <2> DEFINE t == Segmentation(s)
  <2>1. t \in IsduFits
    BY SegmentationFits
  <2> HIDE DEF t
  <2> QED
    BY <2>1 DEF IsduFits, IsduStates, t
<1>2. \A e \in {"device", "segmentation"} :
         [s EXCEPT !.error = e, !.done = TRUE, !.idle_pending = TRUE,
                   !.phase = "none"] \in IsduFits
  BY DEF IsduFits, IsduStates
<1>3. [s EXCEPT !.response = Payload(s), !.done = TRUE, !.idle_pending = TRUE,
                !.phase = "none"] \in IsduFits
  BY PayloadFits DEF IsduFits, IsduStates
<1> QED
  BY <1>1, <1>2, <1>3 DEF DecodeResponse

LEMMA OnOctetFits ==
    ASSUME NEW s \in IsduFits, NEW o \in Octets
    PROVE  OnOctet(s, o) \in IsduFits
<1> DEFINE r == IF s.phase = "wait" THEN ResponseStarts(s) ELSE s
           t == [r EXCEPT !.response = Append(r.response, o)]
           u == [t EXCEPT !.expected_len = Declared(t)]
<1>1. r \in IsduFits
  <2>1. ResponseStarts(s) \in IsduFits
    <3>1. 1 \in FlowCtrl /\ <<>> \in Seq(Octets) /\ Len(<<>>) <= BufferSize
      BY BufferAssumption DEF FlowCtrl, CountMod
    <3>2. [s EXCEPT !.phase = "response", !.response = <<>>, !.expected_len = 0,
                    !.flowctrl = 1] \in IsduStates
      BY <3>1 DEF IsduFits, IsduStates
    <3>3. ResponseStarts(s).response = <<>>
      BY DEF ResponseStarts, IsduFits, IsduStates
    <3> QED
      BY <3>1, <3>2, <3>3 DEF ResponseStarts, IsduFits
  <2> QED
    BY <2>1
<1>2. OnOctet(s, o) \in {s, Segmentation(r)} \/ ~BufferFull(r)
  BY DEF OnOctet
<1>3. OnOctet(s, o) \in {s, Segmentation(r), Segmentation(t), DecodeResponse(u), u}
  BY DEF OnOctet
<1> HIDE DEF r
<1>4. s \in IsduFits /\ Segmentation(r) \in IsduFits
  BY <1>1, SegmentationFits
<1>5. CASE ~BufferFull(r)
  <2>1. /\ Append(r.response, o) \in Seq(Octets)
        /\ Len(Append(r.response, o)) <= BufferSize
        /\ Len(Append(r.response, o)) >= 1
    BY <1>1, <1>5, Fields, BufferAssumption DEF BufferFull
  <2>2. t \in IsduFits /\ t.response = Append(r.response, o)
    BY <1>1, <2>1 DEF IsduFits, IsduStates
  <2> HIDE DEF t
  <2>3. t.response[1] \in Octets /\ (Len(t.response) >= 2 => t.response[2] \in Octets)
    BY <2>1, <2>2
  <2>4. Declared(t) \in Nat
    <3>1. /\ LengthNibble(t.response[1]) \in Nat
          /\ Len(t.response) >= 2 => Number(t.response[2]) \in Nat
      BY <2>3, OctetNumbers, Zenon
    <3>2. t.expected_len \in Nat
      BY <2>2, Fields
    <3> QED
      BY <3>1, <3>2 DEF Declared
  <2>5. u \in IsduFits
    BY <2>2, <2>4 DEF IsduFits, IsduStates
  <2> HIDE DEF u
  <2>6. Segmentation(t) \in IsduFits /\ DecodeResponse(u) \in IsduFits
    BY <2>2, <2>5, SegmentationFits, DecodeFits
  <2> QED
    BY <1>3, <1>4, <2>5, <2>6
<1>6. CASE BufferFull(r)
  BY <1>2, <1>4, <1>6
<1> QED
  BY <1>5, <1>6


\* The octets of a reply are taken one by one.
LEMMA IsduWalk ==
    ASSUME NEW s \in IsduFits, NEW od \in Seq(Octets)
    PROVE  \E at :
              /\ at[0] = s
              /\ \A n \in 1..Len(od) : at[n] = OnOctet(at[n - 1], od[n])
              /\ \A n \in 0..Len(od) : at[n] \in IsduFits
              /\ IsduOnOd(s, od) = at[Len(od)]
<1> DEFINE step == [p \in IsduFits \X Octets |-> OnOctet(p[1], p[2])]
           P(at) == at = [n \in 0..Len(od) |->
                            IF n = 0 THEN s ELSE OnOctet(at[n - 1], od[n])]
           walk == CHOOSE at : P(at)
<1>1. \A x \in IsduFits, o \in Octets : step[<<x, o>>] = OnOctet(x, o)
  OBVIOUS
<1>2. step \in Steps(IsduFits, Octets)
  BY OnOctetFits DEF Steps
<1>3. Len(od) \in Nat /\ \A n \in 1..Len(od) : od[n] \in Octets
  OBVIOUS
<1> HIDE DEF step
<1>4. PICK at : IsWalk(at, step, s, od) /\ \A n \in 0..Len(od) : at[n] \in IsduFits
  BY <1>2, Taken
<1>5. /\ at = [n \in 0..Len(od) |-> at[n]] /\ at[0] = s
      /\ \A n \in 1..Len(od) : at[n] = step[<<at[n - 1], od[n]>>]
  BY <1>4 DEF IsWalk
<1>6. \A n \in 1..Len(od) : at[n - 1] \in IsduFits
  BY <1>3, <1>4
<1>7. \A n \in 1..Len(od) : at[n] = OnOctet(at[n - 1], od[n])
  BY <1>1, <1>3, <1>5, <1>6
<1>8. P(at)
  <2>1. ASSUME NEW n \in 0..Len(od)
        PROVE  at[n] = IF n = 0 THEN s ELSE OnOctet(at[n - 1], od[n])
    <3>1. n = 0 \/ n \in 1..Len(od)
      BY <1>3
    <3> QED
      BY <1>5, <1>7, <3>1
  <2> QED
    BY <1>5, <2>1
<1>9. P(walk)
  <2> HIDE DEF P
  <2> QED
    BY <1>8
<1> HIDE DEF walk
<1>10. walk[0] = s /\ \A n \in 1..Len(od) : walk[n] = OnOctet(walk[n - 1], od[n])
  BY <1>3, <1>9
<1> DEFINE good == {n \in 0..Len(od) : walk[n] \in IsduFits}
<1>11. 0 \in good
  BY <1>3, <1>10
<1>12. ASSUME NEW n \in 1..Len(od), n - 1 \in good PROVE n \in good
  <2>1. walk[n] = OnOctet(walk[n - 1], od[n]) /\ n \in 0..Len(od)
    BY <1>3, <1>10
  <2>2. OnOctet(walk[n - 1], od[n]) \in IsduFits
    BY <1>3, <1>12, OnOctetFits
  <2> QED
    BY <2>1, <2>2
<1> HIDE DEF good
<1>13. \A n \in 0..Len(od) : n \in good
  BY <1>3, <1>11, <1>12, AllAlong
<1>14. IsduOnOd(s, od) = walk[Len(od)]
  BY DEF IsduOnOd, walk
<1> QED
  BY <1>10, <1>13, <1>14 DEF good

LEMMA OnOdFits ==
    ASSUME NEW s \in IsduFits, NEW od \in Seq(Octets)
    PROVE  IsduOnOd(s, od) \in IsduFits
<1>1. Len(od) \in 0..Len(od)
  OBVIOUS
<1> QED
  BY <1>1, IsduWalk

-----------------------------------------------------------------------------
(* The device keeps its types, and its events out of the ISDU channel.     *)

\* A device that receives or executes a request has one.
SoundDevices ==
    {d \in Devices : d.phase \in {"receiving", "busy"} => d.request # <<>>}

LEMMA DeviceFields ==
    ASSUME NEW d \in SoundDevices
    PROVE  /\ d \in Devices /\ d.response \in Seq(Octets) /\ d.request \in Seq(Octets)
           /\ d.pos \in Nat /\ d.sent \in Nat /\ d.flow \in 0..15
           /\ d.events \in EventSets /\ d.store \in [Objects -> Seq(Octets)]
BY DEF SoundDevices, Devices, CountMod, EventSets

LEMMA PaddingTypes ==
    /\ \A w \in Nat : Zeros(w) \in Seq(Octets)
    /\ \A s \in Seq(Octets), from \in Nat, w \in Nat :
          SegmentOf(s, from, w) \in Seq(Octets)
    /\ \A s \in IsduFits, w \in 1..8 :
          Segment(s, w) \in Seq(Octets) /\ Segment(s, w) # <<>>
<1>1. ASSUME NEW w \in Nat PROVE Zeros(w) \in Seq(Octets)
  BY OctetTypes DEF Zeros
<1>2. ASSUME NEW s \in Seq(Octets), NEW from \in Nat, NEW w \in Nat
      PROVE  SegmentOf(s, from, w) \in Seq(Octets)
  <2>1. \A i \in 1..w : from + i <= Len(s) => s[from + i] \in Octets
    OBVIOUS
  <2> QED
    BY <2>1, OctetTypes DEF SegmentOf
<1>3. ASSUME NEW s \in IsduFits, NEW w \in 1..8
      PROVE  Segment(s, w) \in Seq(Octets) /\ Segment(s, w) # <<>>
  <2> DEFINE q == s.request
             p == s.request_pos
  <2>1. q \in Seq(Octets) /\ p \in Nat
    BY Fields
  <2>2. Segment(s, w) = [i \in 1..w |-> IF p + i <= Len(q) THEN q[p + i] ELSE {}]
    BY DEF Segment
  <2> HIDE DEF p, q
  <2>3. \A i \in 1..w : p + i <= Len(q) => q[p + i] \in Octets
    BY <2>1
  <2>4. [i \in 1..w |-> IF p + i <= Len(q) THEN q[p + i] ELSE {}] \in Seq(Octets)
    BY <2>3, OctetTypes
  <2>5. Len([i \in 1..w |-> IF p + i <= Len(q) THEN q[p + i] ELSE {}]) = w
    OBVIOUS
  <2> QED
    BY <2>2, <2>4, <2>5
<1> QED
  BY <1>1, <1>2, <1>3

LEMMA RestingSound ==
    ASSUME NEW d \in SoundDevices
    PROVE  /\ Resting(d) \in SoundDevices /\ Resting(d).events = d.events
           /\ Resting(d).phase = "idle" /\ Resting(d).store = d.store
<1>1. 0 \in 0..(CountMod - 1) /\ 0 \in Nat /\ <<>> \in Seq(Octets)
  BY DEF CountMod
<1> DEFINE r == Resting(d)
<1>2. r = [d EXCEPT !.phase = "idle", !.request = <<>>, !.flow = 0,
                    !.response = <<>>, !.pos = 0, !.sent = 0]
  BY DEF Resting
<1>3. r \in Devices
  BY <1>1, <1>2 DEF SoundDevices, Devices
<1>4. r.events = d.events /\ r.phase = "idle" /\ r.store = d.store
  BY <1>2 DEF SoundDevices, Devices
<1> HIDE DEF r
<1> QED
  BY <1>3, <1>4 DEF SoundDevices, r

LEMMA DeviceReadSound ==
    ASSUME NEW d \in SoundDevices, NEW ctrl \in Nat, NEW w \in 1..8
    PROVE  /\ DeviceRead(d, ctrl, w).dev \in SoundDevices
           /\ DeviceRead(d, ctrl, w).dev.events = d.events
           /\ DeviceRead(d, ctrl, w).od \in Seq(Octets)
<1> DEFINE flow == IF ctrl = Start THEN 1 ELSE (ctrl + 1) % CountMod
           give(from) == [dev |-> [d EXCEPT !.sent = from, !.pos = from + w,
                                            !.flow = flow],
                          od |-> SegmentOf(d.response, from, w)]
           Kept(x) == x.dev \in SoundDevices /\ x.dev.events = d.events
                      /\ x.od \in Seq(Octets)
<1>1. flow \in 0..(CountMod - 1)
  <2>1. (ctrl + 1) % 16 \in 0..15
    OBVIOUS
  <2> QED
    BY <2>1 DEF CountMod
<1> HIDE DEF flow
<1>2. ASSUME NEW from \in Nat PROVE Kept(give(from))
  <2>1. SegmentOf(d.response, from, w) \in Seq(Octets)
    <3>1. d.response \in Seq(Octets) /\ w \in Nat
      BY DeviceFields
    <3> QED
      BY <3>1, PaddingTypes, Zenon
  <2>2. from + w \in Nat
    OBVIOUS
  <2> DEFINE g == [d EXCEPT !.sent = from, !.pos = from + w, !.flow = flow]
  <2>3. g \in SoundDevices /\ g.events = d.events
    BY <1>1, <2>2 DEF SoundDevices, Devices
  <2> HIDE DEF g
  <2> QED
    BY <2>1, <2>3 DEF g
<1>3. Kept([dev |-> d, od |-> <<Busy>> \o Zeros(w - 1)])
  <2>1. w - 1 \in Nat
    OBVIOUS
  <2>2. Zeros(w - 1) \in Seq(Octets)
    BY <2>1, PaddingTypes
  <2>3. <<Busy>> \in Seq(Octets)
    BY DEF Busy, Octets, Bits
  <2>4. <<Busy>> \o Zeros(w - 1) \in Seq(Octets)
    BY <2>2, <2>3
  <2> QED
    BY <2>4
<1>4. Kept([dev |-> Resting(d), od |-> Zeros(w)])
  <2>1. Zeros(w) \in Seq(Octets)
    BY PaddingTypes
  <2> QED
    BY <2>1, RestingSound
<1>5. Kept(give(0)) /\ Kept(give(d.pos)) /\ Kept(give(d.sent))
  <2> HIDE DEF give, Kept
  <2> QED
    BY <1>2, DeviceFields
<1>6. DeviceRead(d, ctrl, w) \in
        {[dev |-> d, od |-> <<Busy>> \o Zeros(w - 1)], give(0), give(d.pos),
         give(d.sent), [dev |-> Resting(d), od |-> Zeros(w)]}
  BY DEF DeviceRead, flow
<1> HIDE DEF give
<1>7. Kept(DeviceRead(d, ctrl, w))
  <2> HIDE DEF Kept
  <2> QED
    BY <1>3, <1>4, <1>5, <1>6
<1> QED
  BY <1>7


LEMMA ReceivedSound ==
    ASSUME NEW d \in SoundDevices, d.request # <<>>
    PROVE  Received(d) \in SoundDevices /\ Received(d).events = d.events
<1> DEFINE q == d.request
           n == DeclaredBy(q)
           whole == SubSeq(q, 1, n)
<1>1. q \in Seq(Octets) /\ Len(q) \in Nat /\ Len(q) >= 1
  BY DeviceFields
<1>2. q[1] \in Octets /\ (Len(q) >= 2 => q[2] \in Octets)
  BY <1>1
<1> HIDE DEF q
<1>3. n \in Nat
  <2>1. LengthNibble(q[1]) \in Nat /\ (Len(q) >= 2 => Number(q[2]) \in Nat)
    BY <1>2, OctetNumbers, Zenon
  <2> QED
    BY <2>1 DEF DeclaredBy
<1> HIDE DEF n
<1>4. ASSUME n # 0, ~(Len(q) < n)
      PROVE  /\ [d EXCEPT !.phase = "busy", !.request = whole] \in SoundDevices
             /\ [d EXCEPT !.phase = "busy", !.request = whole].events = d.events
  <2>1. whole \in Seq(Octets) /\ Len(whole) = n
    BY <1>1, <1>3, <1>4, PartType
  <2>2. whole # <<>>
    BY <1>3, <1>4, <2>1
  <2> HIDE DEF whole
  <2> QED
    BY <2>1, <2>2 DEF SoundDevices, Devices
<1>5. Received(d) = IF n = 0 \/ Len(q) < n THEN d
                    ELSE IF Chkpdu(whole) # {} THEN Resting(d)
                    ELSE [d EXCEPT !.phase = "busy", !.request = whole]
  BY DEF Received, n, q
<1> HIDE DEF whole
<1>6. CASE n = 0 \/ Len(q) < n
  BY <1>5, <1>6
<1>7. CASE ~(n = 0 \/ Len(q) < n) /\ Chkpdu(whole) # {}
  BY <1>5, <1>7, RestingSound
<1>8. CASE ~(n = 0 \/ Len(q) < n) /\ ~(Chkpdu(whole) # {})
  BY <1>4, <1>5, <1>8
<1> QED
  BY <1>6, <1>7, <1>8

LEMMA DeviceWriteSound ==
    ASSUME NEW d \in SoundDevices, NEW ctrl \in Nat, NEW od \in Seq(Octets), od # <<>>
    PROVE  /\ DeviceWrite(d, ctrl, od) \in SoundDevices
           /\ DeviceWrite(d, ctrl, od).events = d.events
<1> DEFINE x == [Resting(d) EXCEPT !.phase = "receiving", !.request = od,
                                   !.flow = 1]
           y == [d EXCEPT !.request = d.request \o od,
                          !.flow = (d.flow + 1) % CountMod]
<1>1. x \in SoundDevices /\ x.request # <<>> /\ x.events = d.events
  <2>1. 1 \in 0..(CountMod - 1)
    BY DEF CountMod
  <2>2. Resting(d) \in SoundDevices /\ Resting(d).events = d.events
    BY RestingSound
  <2> DEFINE r == Resting(d)
  <2> HIDE DEF r
  <2>3. /\ [r EXCEPT !.phase = "receiving", !.request = od, !.flow = 1]
             \in SoundDevices
        /\ [r EXCEPT !.phase = "receiving", !.request = od, !.flow = 1].request
             = od
        /\ [r EXCEPT !.phase = "receiving", !.request = od, !.flow = 1].events
             = r.events
    BY <2>1, <2>2 DEF SoundDevices, Devices, r
  <2> QED
    BY <2>2, <2>3 DEF r
<1>2. y \in SoundDevices /\ y.request # <<>> /\ y.events = d.events
  <2>1. d.request \in Seq(Octets) /\ d.flow \in 0..15
    BY DeviceFields
  <2> DEFINE q == d.request \o od
             c == (d.flow + 1) % CountMod
  <2>2. q \in Seq(Octets) /\ q # <<>>
    <3> DEFINE a == d.request
    <3>1. a \in Seq(Octets)
      BY <2>1
    <3> HIDE DEF a
    <3>2. a \o od \in Seq(Octets) /\ Len(a \o od) = Len(a) + Len(od)
      BY <3>1
    <3>3. Len(od) # 0 /\ Len(od) \in Nat /\ Len(a) \in Nat
      BY <3>1
    <3>4. Len(a \o od) # 0
      BY <3>2, <3>3
    <3> DEFINE b == a \o od
    <3>5. q = b /\ b \in Seq(Octets) /\ Len(b) # 0
      BY <3>2, <3>4 DEF a
    <3> HIDE DEF b, q
    <3> QED
      BY <3>5
  <2>3. c \in 0..(CountMod - 1)
    <3>1. \A k \in 0..15 : (k + 1) % CountMod \in 0..(CountMod - 1)
      BY DEF CountMod
    <3> QED
      BY <2>1, <3>1, Zenon
  <2> HIDE DEF q, c
  <2>4. /\ [d EXCEPT !.request = q, !.flow = c] \in SoundDevices
        /\ [d EXCEPT !.request = q, !.flow = c].request = q
        /\ [d EXCEPT !.request = q, !.flow = c].events = d.events
    BY <2>2, <2>3 DEF SoundDevices, Devices
  <2> QED
    BY <2>2, <2>4 DEF q, c
<1>3. DeviceWrite(d, ctrl, od) \in {Received(x), Received(y), Resting(d)}
  BY DEF DeviceWrite
<1> HIDE DEF x, y
<1>4. /\ Received(x) \in SoundDevices /\ Received(x).events = d.events
      /\ Received(y) \in SoundDevices /\ Received(y).events = d.events
  BY <1>1, <1>2, ReceivedSound
<1> QED
  BY <1>3, <1>4, RestingSound

\* The frames of the port.
Frames ==
    {f \in [channel : {"isdu", "diagnosis", "process"}, read : BOOLEAN,
            ctrl : Nat, od : Seq(Octets)] :
        f.channel = "isdu" /\ ~f.read => f.od # <<>>}

LEMMA IsduFrameType ==
    ASSUME NEW s \in IsduFits, NEW w \in 1..8
    PROVE  IsduFrame(s, w) \in Frames /\ IsduFrame(s, w).channel = "isdu"
<1> DEFINE r == s.abort_pending \/ s.idle_pending \/ s.phase # "request"
           c == CASE s.abort_pending -> AbortCtrl
                  [] s.idle_pending /\ ~s.abort_pending -> IdleCtrl
                  [] OTHER -> s.flowctrl
           o == IF r THEN <<>> ELSE Segment(s, w)
<1>1. r \in BOOLEAN
  OBVIOUS
<1>2. c \in Nat
  <2>1. s.flowctrl \in Nat
    <3>1. s.flowctrl \in FlowCtrl
      BY Fields
    <3>2. FlowCtrl \subseteq Nat
      BY DEF FlowCtrl, CountMod, Start, IdleCtrl, AbortCtrl
    <3> QED
      BY <3>1, <3>2
  <2>2. s.abort_pending \in BOOLEAN /\ s.idle_pending \in BOOLEAN
    BY DEF IsduFits, IsduStates
  <2> QED
    BY <2>1, <2>2 DEF AbortCtrl, IdleCtrl
<1>3. o \in Seq(Octets) /\ (~r => o # <<>>)
  <2>1. Segment(s, w) \in Seq(Octets) /\ Segment(s, w) # <<>>
    BY PaddingTypes, Zenon
  <2> QED
    BY <2>1
<1>4. IsduFrame(s, w) = [channel |-> "isdu", read |-> r, ctrl |-> c, od |-> o]
  BY DEF IsduFrame
<1> HIDE DEF r, c, o
<1> QED
  BY <1>1, <1>2, <1>3, <1>4 DEF Frames

LEMMA EventFrameType ==
    ASSUME NEW e \in EventStates(Octets)
    PROVE  EventFrame(e) \in Frames
<1>1. e.addr \in Nat
  BY DEF EventStates
<1> QED
  BY <1>1 DEF EventFrame, Frames

LEMMA HandleSound ==
    ASSUME NEW d \in SoundDevices, NEW f \in Frames, od_len \in 1..8
    PROVE  /\ Handle(d, f).dev \in SoundDevices /\ Handle(d, f).od \in Seq(Octets)
           /\ ~(f.channel = "diagnosis" /\ ~f.read)
                => Handle(d, f).dev.events = d.events
           /\ f.channel = "diagnosis" /\ f.read
                => Handle(d, f).od = MemorySegment(d.events, f.ctrl, od_len)
<1>1. /\ f.channel \in {"isdu", "diagnosis", "process"} /\ f.read \in BOOLEAN
      /\ f.ctrl \in Nat /\ f.od \in Seq(Octets)
      /\ f.channel = "isdu" /\ ~f.read => f.od # <<>>
  BY DEF Frames
<1>2. CASE f.channel = "isdu" /\ f.read
  <2>1. Handle(d, f) = DeviceRead(d, f.ctrl, od_len)
    BY <1>2 DEF Handle
  <2> DEFINE c == f.ctrl
  <2>2. c \in Nat
    BY <1>1
  <2> HIDE DEF c
  <2>3. /\ DeviceRead(d, c, od_len).dev \in SoundDevices
        /\ DeviceRead(d, c, od_len).dev.events = d.events
        /\ DeviceRead(d, c, od_len).od \in Seq(Octets)
    BY <2>2, DeviceReadSound
  <2> QED
    BY <1>2, <2>1, <2>3 DEF c
<1>3. CASE f.channel = "isdu" /\ ~f.read
  <2>1. Handle(d, f) = [dev |-> DeviceWrite(d, f.ctrl, f.od), od |-> <<>>]
    BY <1>3 DEF Handle
  <2> QED
    BY <1>1, <1>3, <2>1, DeviceWriteSound
<1>4. CASE f.channel = "diagnosis" /\ f.read
  <2>1. Handle(d, f) = [dev |-> d, od |-> MemorySegment(d.events, f.ctrl, od_len)]
    BY <1>4 DEF Handle
  <2>2. MemorySegment(d.events, f.ctrl, od_len) \in Seq(Octets)
    <3> DEFINE M == MemoryOf(d.events)
    <3>1. M \in [0..(MemoryLen - 1) -> Octets]
      BY DeviceFields, ImageTypes
    <3>2. MemorySegment(d.events, f.ctrl, od_len)
            = [i \in 1..od_len |-> IF f.ctrl + i - 1 < MemoryLen
                                   THEN M[f.ctrl + i - 1] ELSE {}]
      BY DEF MemorySegment
    <3> HIDE DEF M
    <3>3. \A i \in 1..od_len : f.ctrl + i - 1 < MemoryLen
                                  => f.ctrl + i - 1 \in 0..(MemoryLen - 1)
      BY <1>1, Memory
    <3>4. \A i \in 1..od_len : f.ctrl + i - 1 < MemoryLen
                                  => M[f.ctrl + i - 1] \in Octets
      BY <3>1, <3>3
    <3> DEFINE o(i) == IF f.ctrl + i - 1 < MemoryLen THEN M[f.ctrl + i - 1] ELSE {}
    <3>5. \A i \in 1..od_len : o(i) \in Octets
      BY <3>4, OctetTypes
    <3> HIDE DEF o
    <3>6. [i \in 1..od_len |-> o(i)] \in Seq(Octets)
      BY <3>5
    <3> QED
      BY <3>2, <3>6 DEF o
  <2> QED
    BY <1>4, <2>1, <2>2
<1>5. CASE f.channel = "diagnosis" /\ ~f.read
  <2>1. Handle(d, f) = [dev |-> [d EXCEPT !.events = NoEvents], od |-> <<>>]
    BY <1>5 DEF Handle
  <2>2. [d EXCEPT !.events = NoEvents] \in SoundDevices
    BY DEF SoundDevices, Devices
  <2> QED
    BY <1>5, <2>1, <2>2
<1>6. CASE f.channel = "process"
  <2>1. Handle(d, f) = [dev |-> d, od |-> <<>>]
    BY <1>6 DEF Handle
  <2> QED
    BY <1>6, <2>1
<1> QED
  BY <1>1, <1>2, <1>3, <1>4, <1>5, <1>6


-----------------------------------------------------------------------------
(* The invariant: types, and what the event service knows.                 *)

ObsStates == [
    data : Seq(Octets),
    made : {"nothing", "executed", "refused"},
    value : Seq(Octets),
    missed : BOOLEAN,
    cut : BOOLEAN,
    spliced : BOOLEAN,
    snapshot : SUBSET EventSets]

Replies == [channel : {"none", "isdu", "diagnosis", "process"}, od : Seq(Octets)]

Types ==
    /\ isdu \in IsduFits /\ ev \in EventStates(Octets) /\ dev \in SoundDevices
    /\ reply \in Replies /\ od_len \in 1..8 /\ obs \in ObsStates
    /\ spent \in [losses : 0..MaxLosses, calls : 0..MaxEventCalls]

\* A readout is one of the events that the device gave with its StatusCode, and
\* still holds unless they were none; a complete one is one of all of them.
Exact(e, events, snapshot) ==
    /\ e.phase = "read" /\ e.status_seen =>
          \E E \in EventSets : snapshot = {E} /\ PartOf(e, E) /\ events = E
    /\ e.phase = "write" =>
          \E E \in EventSets : /\ snapshot = {E} /\ AllOf(e, E)
                               /\ DOMAIN E # {} => events = E
    /\ EventComplete(e) => \E E \in EventSets : snapshot = {E} /\ AllOf(e, E)

\* What is on its way is what the service waits for.
InFlight(e, r, events, snapshot, width) ==
    e.od_expected /\ r.od # <<>> =>
        \E E \in EventSets : /\ snapshot = {E}
                             /\ r.od = MemorySegment(E, e.addr, width)
                             /\ DOMAIN E # {} => events = E

EventInv ==
    /\ ev.phase = "read" => Reading(ev)
    /\ ev.od_expected => ev.phase = "read"
    /\ ~obs.spliced => /\ Exact(ev, dev.events, obs.snapshot)
                       /\ InFlight(ev, reply, dev.events, obs.snapshot, od_len)

Inv == Types /\ EventInv

\* A readout that goes on found events.
LEMMA GoesOnWithEvents ==
    ASSUME NEW e \in EventStates(Octets), Reading(e), e.status_seen,
           NEW E \in EventSets, PartOf(e, E)
    PROVE  DOMAIN E # {}
<1>1. e.addr \in 0..MemoryLen /\ e.addr # 0
  BY DEF EventStates, Reading
<1>2. e.needed = Needed(MemoryOf(E)) /\ ~(e.addr >= e.needed)
  BY DEF PartOf, Reading, EventRead
<1>3. ActiveSlots(MemoryOf(E)) = DOMAIN E
  BY ImageTypes
<1>4. ASSUME DOMAIN E = {} PROVE FALSE
  <2>1. Needed(MemoryOf(E)) = 1
    BY <1>3, <1>4 DEF Needed
  <2> QED
    BY <1>1, <1>2, <2>1, Memory
<1> QED
  BY <1>4

\* What is routed to the services keeps all that.
LEMMA Routed ==
    ASSUME Inv, NEW r, r = RouteOd(ev, isdu, reply.od)
    PROVE  /\ r.isdu \in IsduFits /\ r.ev \in EventStates(Octets)
           /\ r.ev.phase = "read" => Reading(r.ev)
           /\ ~r.ev.od_expected
           /\ ~obs.spliced => Exact(r.ev, dev.events, obs.snapshot)
           /\ ~EventActive(ev) => r.ev = ev
           /\ EventActive(ev) => r.isdu = isdu
<1>1. /\ isdu \in IsduFits /\ ev \in EventStates(Octets) /\ reply.od \in Seq(Octets)
      /\ od_len \in 1..8 /\ ev.phase \in {"none", "read", "write"}
  BY DEF Inv, Types, Replies, EventStates
<1>2. /\ ev.phase = "read" => Reading(ev)
      /\ ev.od_expected => ev.phase = "read"
      /\ ~obs.spliced => Exact(ev, dev.events, obs.snapshot)
      /\ ~obs.spliced => InFlight(ev, reply, dev.events, obs.snapshot, od_len)
  BY DEF Inv, EventInv
<1>3. CASE ~EventActive(ev)
  <2>1. r = [ev |-> ev, isdu |-> IsduOnOd(isdu, reply.od)]
    BY <1>3 DEF RouteOd
  <2>2. IsduOnOd(isdu, reply.od) \in IsduFits
    BY <1>1, OnOdFits
  <2>3. ~ev.od_expected
    BY <1>2, <1>3 DEF EventActive
  <2> QED
    BY <1>1, <1>2, <1>3, <2>1, <2>2, <2>3
<1>4. CASE EventActive(ev) /\ ~(ev.phase = "read" /\ ev.od_expected)
  <2>1. r = [ev |-> ev, isdu |-> isdu]
    BY <1>4 DEF RouteOd
  <2>2. ~ev.od_expected
    BY <1>2, <1>4
  <2> QED
    BY <1>1, <1>2, <1>4, <2>1, <2>2
<1>5. CASE EventActive(ev) /\ ev.phase = "read" /\ ev.od_expected
  <2> DEFINE e == [ev EXCEPT !.od_expected = FALSE]
             od == reply.od
             f == EventOnOd(e, od)
  <2>1. r = [ev |-> f, isdu |-> isdu]
    BY <1>5 DEF RouteOd
  <2>2. /\ e \in EventStates(Octets) /\ ~e.od_expected /\ e.phase = "read"
        /\ e.memory = ev.memory /\ e.addr = ev.addr /\ e.needed = ev.needed
        /\ e.status_seen = ev.status_seen
    BY <1>1, <1>5 DEF EventStates
  <2> HIDE DEF e
  <2>3. Reading(e)
    BY <1>2, <1>5, <2>2 DEF Reading, EventRead
  <2>4. od \in Seq(Octets)
    BY <1>1
  <2> HIDE DEF od
  <2>5. /\ f \in EventStates(Octets) /\ (f.phase = "read" => Reading(f))
        /\ ~f.od_expected /\ (od = <<>> => f = e)
    BY <2>2, <2>3, <2>4, ReadoutGoesOn
  <2>6. ASSUME ~obs.spliced PROVE Exact(f, dev.events, obs.snapshot)
    <3>1. CASE od = <<>>
      <4>1. f = e
        BY <2>5, <3>1
      <4>2. ev.status_seen =>
              \E E \in EventSets : obs.snapshot = {E} /\ PartOf(ev, E) /\ dev.events = E
        BY <1>2, <1>5, <2>6 DEF Exact
      <4>3. e.status_seen =>
              \E E \in EventSets : obs.snapshot = {E} /\ PartOf(e, E) /\ dev.events = E
        BY <2>2, <4>2 DEF PartOf
      <4> QED
        BY <2>2, <4>1, <4>3 DEF Exact, EventComplete
    <3>2. CASE od # <<>>
      <4>1. PICK E \in EventSets : /\ obs.snapshot = {E}
                                   /\ od = MemorySegment(E, ev.addr, od_len)
                                   /\ DOMAIN E # {} => dev.events = E
        BY <1>2, <1>5, <2>6, <3>2 DEF InFlight, od
      <4>2. PartOf(e, E)
        <5>1. CASE ev.status_seen
          <6>1. PICK F \in EventSets : obs.snapshot = {F} /\ PartOf(ev, F)
            BY <1>2, <1>5, <2>6, <5>1 DEF Exact
          <6>2. F = E
            BY <4>1, <6>1
          <6> QED
            BY <2>2, <6>1, <6>2 DEF PartOf
        <5>2. CASE ~ev.status_seen
          BY <2>2, <5>2 DEF PartOf
        <5> QED
          BY <5>1, <5>2
      <4>3. od = MemorySegment(E, e.addr, od_len)
        BY <2>2, <4>1
      <4>4. /\ f.phase = "read" => f.status_seen /\ PartOf(f, E)
            /\ f.phase # "read" => AllOf(f, E)
        BY <1>1, <2>2, <2>3, <4>2, <4>3, ReadoutExact
      <4>5. f.phase = "read" => dev.events = E
        BY <2>5, <4>1, <4>4, GoesOnWithEvents
      <4> QED
        BY <4>1, <4>4, <4>5 DEF Exact, EventComplete
    <3> QED
      BY <3>1, <3>2
  <2> HIDE DEF f
  <2> QED
    BY <1>1, <1>5, <2>1, <2>5, <2>6
<1> QED
  BY <1>3, <1>4, <1>5


-----------------------------------------------------------------------------
(* One lemma per action.                                                   *)

LEMMA InitInv == Init => Inv
<1> SUFFICES ASSUME Init PROVE Inv
  OBVIOUS
<1>1. isdu \in IsduFits
  BY ClearFits DEF Init
<1>2. ev = EventIdle /\ EventIdle \in EventStates(Octets) /\ EventIdle.phase = "none"
      /\ ~EventIdle.od_expected /\ EventIdle.request = "none"
  BY Memory, OctetTypes DEF Init, EventIdle, EventStates, Blank
<1>3. dev \in SoundDevices
  BY ServicesAssumption DEF Init, SoundDevices, Devices, CountMod
<1>4. reply \in Replies /\ reply.od = <<>>
  BY DEF Init, Replies, NoReply
<1>5. od_len \in 1..8
  BY ServicesAssumption DEF Init
<1>6. obs \in ObsStates
  BY DEF Init, ObsStates
<1>7. spent \in [losses : 0..MaxLosses, calls : 0..MaxEventCalls]
  BY ServicesAssumption DEF Init
<1>8. EventInv
  BY <1>2 DEF EventInv, Exact, InFlight, EventComplete
<1> QED
  BY <1>1, <1>2, <1>3, <1>4, <1>5, <1>6, <1>7, <1>8 DEF Inv, Types

\* The observer of a frame.
StatusRead(f) == f.channel = "diagnosis" /\ f.read /\ f.ctrl = 0

LEMMA NotedType ==
    ASSUME NEW p \in ObsStates, dev \in SoundDevices, NEW s, NEW f, NEW lost
    PROVE  /\ Noted(p, s, f, lost) \in ObsStates
           /\ Noted(p, s, f, lost).spliced = p.spliced
           /\ StatusRead(f) /\ lost = "none"
                => Noted(p, s, f, lost).snapshot = {dev.events}
           /\ ~(StatusRead(f) /\ lost = "none")
                => Noted(p, s, f, lost).snapshot = p.snapshot
<1> DEFINE m == p.missed \/ (f.channel = "isdu" /\ f.read /\ s.phase = "response"
                              /\ lost # "none")
           c == p.cut \/ (f.channel = "isdu" /\ ~f.read /\ lost = "request")
           n == IF StatusRead(f) /\ lost = "none"
                THEN {dev.events} ELSE p.snapshot
<1>2. m \in BOOLEAN /\ c \in BOOLEAN
  OBVIOUS
<1>3. n \in SUBSET EventSets
  <2>1. dev.events \in EventSets
    BY DeviceFields
  <2>2. p.snapshot \in SUBSET EventSets
    BY DEF ObsStates
  <2> QED
    BY <2>1, <2>2
<1>4. Noted(p, s, f, lost) = [p EXCEPT !.missed = m, !.cut = c, !.snapshot = n]
  BY DEF Noted, StatusRead
<1>5. n = IF StatusRead(f) /\ lost = "none"
          THEN {dev.events} ELSE p.snapshot
  OBVIOUS
<1> HIDE DEF m, c, n
<1>6. [p EXCEPT !.missed = m, !.cut = c, !.snapshot = n] \in ObsStates
  BY <1>2, <1>3 DEF ObsStates
<1>7. /\ [p EXCEPT !.missed = m, !.cut = c, !.snapshot = n].spliced = p.spliced
      /\ [p EXCEPT !.missed = m, !.cut = c, !.snapshot = n].snapshot = n
  BY DEF ObsStates
<1> QED
  BY <1>4, <1>5, <1>6, <1>7

LEMMA TickInv ==
    ASSUME Inv, NEW lost \in {"none", "request", "reply"}, Tick(lost)
    PROVE  Inv'
<1> DEFINE r == RouteOd(ev, isdu, reply.od)
           f == DueFrame(r.ev, r.isdu)
           dropped == /\ EventActive(ev) /\ isdu.phase = "response"
                      /\ reply.channel = "isdu" /\ reply.od # <<>>
           handled == Handle(dev, f)
<1>1. /\ r.isdu \in IsduFits /\ r.ev \in EventStates(Octets)
      /\ r.ev.phase = "read" => Reading(r.ev)
      /\ ~r.ev.od_expected
      /\ ~obs.spliced => Exact(r.ev, dev.events, obs.snapshot)
  BY Routed
<1>2. /\ lost # "none" => spent.losses < MaxLosses
      /\ ev' = IF f.channel = "diagnosis" THEN EventSent(r.ev) ELSE r.ev
      /\ isdu' = IF f.channel = "isdu" THEN IsduSent(r.isdu, od_len) ELSE r.isdu
      /\ dev' = IF lost = "request" THEN dev ELSE handled.dev
      /\ reply' = IF lost = "none" THEN [channel |-> f.channel, od |-> handled.od]
                  ELSE NoReply
      /\ obs' = Noted([obs EXCEPT !.missed = @ \/ dropped], r.isdu, f, lost)
      /\ spent' = IF lost = "none" THEN spent ELSE [spent EXCEPT !.losses = @ + 1]
      /\ od_len' = od_len
  BY DEF Tick
<1>3. /\ od_len \in 1..8 /\ dev \in SoundDevices /\ obs \in ObsStates
      /\ spent \in [losses : 0..MaxLosses, calls : 0..MaxEventCalls]
  BY DEF Inv, Types
<1>4. dropped \in BOOLEAN
  OBVIOUS
<1> HIDE DEF r, dropped
<1> DEFINE e == r.ev
           i == r.isdu
<1>5. e \in EventStates(Octets) /\ i \in IsduFits /\ e.phase \in {"read", "write", "none"}
  BY <1>1 DEF EventStates
<1>6. f = IF EventActive(e) THEN EventFrame(e)
          ELSE IF IsduActive(i) THEN IsduFrame(i, od_len) ELSE CyclicFrame
  BY DEF DueFrame
<1> HIDE DEF e, i
<1>7. /\ f \in Frames
      /\ f.channel = "diagnosis" => f = EventFrame(e) /\ EventActive(e)
      /\ EventActive(e) => f = EventFrame(e) /\ f.channel = "diagnosis"
  <2>1. EventFrame(e) \in Frames /\ EventFrame(e).channel = "diagnosis"
    BY <1>5, EventFrameType DEF EventFrame
  <2>2. IsduFrame(i, od_len) \in Frames /\ IsduFrame(i, od_len).channel = "isdu"
    BY <1>3, <1>5, IsduFrameType
  <2>3. CyclicFrame \in Frames /\ CyclicFrame.channel = "process"
    BY DEF CyclicFrame, Frames
  <2> HIDE DEF f
  <2> QED
    BY <1>6, <2>1, <2>2, <2>3
<1> HIDE DEF f
<1>8. /\ handled.dev \in SoundDevices /\ handled.od \in Seq(Octets)
      /\ ~(f.channel = "diagnosis" /\ ~f.read) => handled.dev.events = dev.events
      /\ f.channel = "diagnosis" /\ f.read
           => handled.od = MemorySegment(dev.events, f.ctrl, od_len)
  BY <1>3, <1>7, HandleSound
<1> HIDE DEF handled
<1>9. isdu' \in IsduFits
  BY <1>2, <1>3, <1>5, SentFits DEF i
<1>10. dev' \in SoundDevices
  BY <1>2, <1>3, <1>8
<1>11. reply' \in Replies
  <2>1. NoReply \in Replies
    BY DEF NoReply, Replies
  <2>2. f.channel \in {"isdu", "diagnosis", "process"}
    BY <1>7 DEF Frames
  <2>3. [channel |-> f.channel, od |-> handled.od] \in Replies
    BY <1>8, <2>2 DEF Replies
  <2> QED
    BY <1>2, <2>1, <2>3
<1>12. /\ obs' \in ObsStates /\ obs'.spliced = obs.spliced
       /\ StatusRead(f) /\ lost = "none" => obs'.snapshot = {dev.events}
       /\ ~(StatusRead(f) /\ lost = "none") => obs'.snapshot = obs.snapshot
  <2> DEFINE p == [obs EXCEPT !.missed = @ \/ dropped]
  <2>1. p \in ObsStates /\ p.spliced = obs.spliced /\ p.snapshot = obs.snapshot
    BY <1>3 DEF ObsStates
  <2>2. obs' = Noted(p, r.isdu, f, lost)
    BY <1>2
  <2> HIDE DEF p
  <2>3. /\ Noted(p, r.isdu, f, lost) \in ObsStates
        /\ Noted(p, r.isdu, f, lost).spliced = p.spliced
        /\ StatusRead(f) /\ lost = "none"
             => Noted(p, r.isdu, f, lost).snapshot = {dev.events}
        /\ ~(StatusRead(f) /\ lost = "none")
             => Noted(p, r.isdu, f, lost).snapshot = p.snapshot
    <3>1. dev \in SoundDevices /\ p \in ObsStates
      BY <1>3, <2>1
    <3> QED
      BY <3>1, NotedType
  <2> QED
    BY <2>1, <2>2, <2>3, Zenon
<1>13. spent' \in [losses : 0..MaxLosses, calls : 0..MaxEventCalls]
  <2>1. spent.losses \in 0..MaxLosses /\ MaxLosses \in Nat
    BY <1>3, ServicesAssumption
  <2>2. lost # "none" => spent.losses + 1 \in 0..MaxLosses
    BY <1>2, <2>1
  <2> QED
    BY <1>2, <1>3, <2>2
<1>14. /\ e.phase = "read" => Reading(e)
       /\ ~e.od_expected
       /\ ~obs.spliced => Exact(e, dev.events, obs.snapshot)
  BY <1>1 DEF e
<1>15. ev' \in EventStates(Octets) /\ EventInv'
  <2>1. CASE e.phase = "read"
    <3>1. EventActive(e)
      BY <2>1 DEF EventActive
    <3>2. /\ f.channel = "diagnosis" /\ f.read /\ f.ctrl = e.addr
      <4>1. f = EventFrame(e)
        BY <1>7, <3>1
      <4>2. EventFrame(e) = [channel |-> "diagnosis", read |-> TRUE,
                             ctrl |-> e.addr, od |-> <<>>]
        BY <2>1 DEF EventFrame
      <4> QED
        BY <4>1, <4>2
    <3>3. ev' = [e EXCEPT !.od_expected = TRUE]
      BY <1>2, <2>1, <3>2 DEF EventSent, e
    <3>4. /\ ev' \in EventStates(Octets) /\ ev'.phase = "read" /\ ev'.od_expected
          /\ ev'.memory = e.memory /\ ev'.addr = e.addr /\ ev'.needed = e.needed
          /\ ev'.status_seen = e.status_seen
      BY <1>5, <2>1, <3>3 DEF EventStates
    <3>5. Reading(ev')
      BY <1>14, <2>1, <3>4 DEF Reading, EventRead
    <3>6. dev'.events = dev.events
      BY <1>2, <1>8, <3>2
    <3>7. e.addr # 0 <=> e.status_seen
      BY <1>14, <2>1 DEF Reading
    <3>8. ASSUME ~obs.spliced
          PROVE  /\ Exact(ev', dev'.events, obs'.snapshot)
                 /\ InFlight(ev', reply', dev'.events, obs'.snapshot, od_len')
      <4>1. CASE e.status_seen
        <5>1. obs'.snapshot = obs.snapshot
          BY <1>12, <3>2, <3>7, <4>1 DEF StatusRead
        <5>2. PICK E \in EventSets : obs.snapshot = {E} /\ PartOf(e, E) /\ dev.events = E
          BY <1>14, <2>1, <3>8, <4>1 DEF Exact
        <5>3. PartOf(ev', E)
          BY <3>4, <5>2 DEF PartOf
        <5>4. Exact(ev', dev'.events, obs'.snapshot)
          BY <3>4, <3>6, <5>1, <5>2, <5>3 DEF Exact, EventComplete
        <5>5. reply'.od # <<>> => reply'.od = MemorySegment(E, ev'.addr, od_len')
          BY <1>2, <1>8, <3>2, <3>4, <5>2 DEF NoReply
        <5>6. InFlight(ev', reply', dev'.events, obs'.snapshot, od_len')
          BY <3>6, <5>1, <5>2, <5>5 DEF InFlight
        <5> QED
          BY <5>4, <5>6
      <4>2. CASE ~e.status_seen
        <5>1. Exact(ev', dev'.events, obs'.snapshot)
          BY <3>4, <4>2 DEF Exact, EventComplete
        <5>2. CASE lost = "none"
          <6>1. obs'.snapshot = {dev.events}
            BY <1>12, <3>2, <3>7, <4>2, <5>2 DEF StatusRead
          <6>2. reply'.od = MemorySegment(dev.events, ev'.addr, od_len')
            BY <1>2, <1>8, <3>2, <3>4, <5>2
          <6>3. dev.events \in EventSets
            BY <1>3, DeviceFields
          <6> QED
            BY <3>6, <5>1, <6>1, <6>2, <6>3 DEF InFlight
        <5>3. CASE lost # "none"
          BY <1>2, <5>1, <5>3 DEF InFlight, NoReply
        <5> QED
          BY <5>2, <5>3
      <4> QED
        BY <4>1, <4>2
    <3> QED
      BY <1>12, <3>4, <3>5, <3>8 DEF EventInv
  <2>2. CASE e.phase = "write"
    <3>1. f.channel = "diagnosis" /\ ~f.read
      <4>1. f = EventFrame(e)
        BY <1>7, <2>2 DEF EventActive
      <4>2. EventFrame(e) = [channel |-> "diagnosis", read |-> FALSE,
                             ctrl |-> e.addr, od |-> <<>>]
        BY <2>2 DEF EventFrame
      <4> QED
        BY <4>1, <4>2
    <3>2. ev' = [e EXCEPT !.phase = "none", !.od_expected = FALSE]
      BY <1>2, <2>2, <3>1 DEF EventSent, EventFinish, e
    <3>3. /\ ev' \in EventStates(Octets) /\ ev'.phase = "none" /\ ~ev'.od_expected
          /\ ev'.memory = e.memory
      BY <1>5, <3>2 DEF EventStates
    <3>4. obs'.snapshot = obs.snapshot
      BY <1>12, <3>1 DEF StatusRead
    <3>5. ASSUME ~obs.spliced
          PROVE  \E E \in EventSets : obs'.snapshot = {E} /\ AllOf(ev', E)
      <4>1. PICK E \in EventSets : obs.snapshot = {E} /\ AllOf(e, E)
        BY <1>14, <2>2, <3>5 DEF Exact
      <4> QED
        BY <3>3, <3>4, <4>1 DEF AllOf
    <3> QED
      BY <1>12, <3>3, <3>5 DEF EventInv, Exact, InFlight
  <2>3. CASE e.phase = "none"
    <3>1. ~EventActive(e)
      BY <2>3 DEF EventActive
    <3>2. f.channel # "diagnosis"
      BY <1>7, <3>1
    <3>3. ev' = e /\ obs'.snapshot = obs.snapshot
      BY <1>2, <1>12, <3>2 DEF e, StatusRead
    <3>4. ~obs.spliced /\ EventComplete(e) =>
             \E E \in EventSets : obs.snapshot = {E} /\ AllOf(e, E)
      BY <1>14 DEF Exact
    <3> QED
      BY <1>5, <1>12, <1>14, <2>3, <3>3, <3>4 DEF EventInv, Exact, InFlight
  <2> QED
    BY <1>5, <2>1, <2>2, <2>3
<1> QED
  BY <1>2, <1>3, <1>9, <1>10, <1>11, <1>12, <1>13, <1>15 DEF Inv, Types


\* The event service is not concerned.
LEMMA EventsAside ==
    ASSUME Inv, ev' = ev, dev'.events = dev.events, od_len' = od_len,
           reply'.od = reply.od \/ reply'.od = <<>>,
           obs'.spliced = obs.spliced, obs'.snapshot = obs.snapshot
    PROVE  EventInv'
<1>1. EventInv
  BY DEF Inv
<1>2. ASSUME ~obs.spliced
      PROVE  /\ Exact(ev', dev'.events, obs'.snapshot)
             /\ InFlight(ev', reply', dev'.events, obs'.snapshot, od_len')
  <2>1. /\ Exact(ev, dev.events, obs.snapshot)
        /\ InFlight(ev, reply, dev.events, obs.snapshot, od_len)
    BY <1>1, <1>2 DEF EventInv
  <2>2. Exact(ev', dev'.events, obs'.snapshot)
    BY <2>1
  <2>3. InFlight(ev', reply', dev'.events, obs'.snapshot, od_len')
    BY <2>1 DEF InFlight
  <2> QED
    BY <2>2, <2>3
<1> QED
  BY <1>1, <1>2 DEF EventInv

LEMMA FreshType ==
    ASSUME NEW o \in ObsStates, NEW data \in Seq(Octets)
    PROVE  /\ Fresh(o, data) \in ObsStates
           /\ Fresh(o, data).spliced = o.spliced
           /\ Fresh(o, data).snapshot = o.snapshot
<1>1. <<>> \in Seq(Octets)
  OBVIOUS
<1>2. Fresh(o, data) \in ObsStates
  BY <1>1 DEF Fresh, ObsStates
<1>3. Fresh(o, data).spliced = o.spliced /\ Fresh(o, data).snapshot = o.snapshot
  BY DEF Fresh, ObsStates
<1> QED
  BY <1>2, <1>3

LEMMA ReadInv ==
    ASSUME Inv, NEW object \in Objects, Read(object)
    PROVE  Inv'
<1>1. Types
  BY DEF Inv
<1>2. isdu' \in IsduFits
  BY <1>1, ReadFits DEF Read, Types
<1>3. /\ obs' \in ObsStates /\ obs'.spliced = obs.spliced
      /\ obs'.snapshot = obs.snapshot
  <2>1. obs \in ObsStates /\ <<>> \in Seq(Octets)
    BY <1>1 DEF Types
  <2>2. obs' = Fresh(obs, <<>>) \/ obs' = obs
    BY DEF Read
  <2> QED
    BY <2>1, <2>2, FreshType
<1>4. UNCHANGED <<ev, dev, reply, od_len, spent>>
  BY DEF Read
<1>5. EventInv'
  BY <1>3, <1>4, EventsAside
<1> QED
  BY <1>1, <1>2, <1>3, <1>4, <1>5 DEF Inv, Types

LEMMA WriteInv ==
    ASSUME Inv, NEW w \in Writes, Write(w[1], w[2])
    PROVE  Inv'
<1>1. Types
  BY DEF Inv
<1>2. w[1] \in Objects /\ w[2] \in Seq(Octets)
  BY ServicesAssumption
<1>3. isdu' \in IsduFits
  BY <1>1, <1>2, WriteFitsToo DEF Write, Types
<1>4. /\ obs' \in ObsStates /\ obs'.spliced = obs.spliced
      /\ obs'.snapshot = obs.snapshot
  <2>1. obs \in ObsStates /\ <<>> \in Seq(Octets)
    BY <1>1 DEF Types
  <2>2. obs' = Fresh(obs, <<>>) \/ obs' = Fresh(obs, w[2]) \/ obs' = obs
    BY DEF Write
  <2>3. ASSUME NEW data \in Seq(Octets), obs' = Fresh(obs, data)
        PROVE  /\ obs' \in ObsStates /\ obs'.spliced = obs.spliced
               /\ obs'.snapshot = obs.snapshot
    BY <2>1, <2>3, FreshType
  <2> QED
    BY <1>2, <2>1, <2>2, <2>3
<1>5. UNCHANGED <<ev, dev, reply, od_len, spent>>
  BY DEF Write
<1>6. EventInv'
  BY <1>4, <1>5, EventsAside
<1> QED
  BY <1>1, <1>3, <1>4, <1>5, <1>6 DEF Inv, Types

\* A service that begins, or is forgotten, knows nothing yet.
LEMMA Beginning ==
    /\ EventIdle \in EventStates(Octets) /\ EventIdle.phase = "none"
    /\ EventIdle.request = "none" /\ ~EventIdle.od_expected
    /\ \A request \in Requests :
          /\ EventStart(request) \in EventStates(Octets)
          /\ EventStart(request).phase = "read" /\ ~EventStart(request).status_seen
          /\ EventStart(request).addr = 0 /\ ~EventStart(request).od_expected
<1>1. EventIdle \in EventStates(Octets)
  BY Memory, OctetTypes DEF EventIdle, EventStates, Blank
<1>2. /\ EventIdle.phase = "none" /\ EventIdle.request = "none"
      /\ ~EventIdle.od_expected /\ ~EventIdle.status_seen /\ EventIdle.addr = 0
  BY DEF EventIdle
<1>3. ASSUME NEW request \in Requests
      PROVE  /\ EventStart(request) \in EventStates(Octets)
             /\ EventStart(request).phase = "read" /\ ~EventStart(request).status_seen
             /\ EventStart(request).addr = 0 /\ ~EventStart(request).od_expected
  <2> DEFINE i == EventIdle
  <2> HIDE DEF i
  <2>1. /\ [i EXCEPT !.request = request, !.phase = "read"] \in EventStates(Octets)
        /\ [i EXCEPT !.request = request, !.phase = "read"].phase = "read"
        /\ [i EXCEPT !.request = request, !.phase = "read"].addr = 0
        /\ ~[i EXCEPT !.request = request, !.phase = "read"].status_seen
        /\ ~[i EXCEPT !.request = request, !.phase = "read"].od_expected
    BY <1>1, <1>2 DEF EventStates, i
  <2> QED
    BY <2>1 DEF EventStart, i
<1> QED
  BY <1>1, <1>2, <1>3

LEMMA ForgottenInv ==
    ASSUME ev' \in EventStates(Octets), ~ev'.od_expected,
           \/ ev'.phase = "none" /\ ev'.request = "none"
           \/ ev'.phase = "read" /\ ~ev'.status_seen /\ ev'.addr = 0
    PROVE  EventInv'
BY DEF EventInv, Exact, InFlight, EventComplete, Reading, EventRead

LEMMA CallEventInv ==
    ASSUME Inv, NEW request \in EventCalls, CallEvent(request)
    PROVE  Inv'
<1> DEFINE starts == ~EventActive(ev) /\ ~EventComplete(ev)
<1>1. Types
  BY DEF Inv
<1>2. /\ starts => spent.calls < MaxEventCalls
      /\ ev' = EventCall(ev, request).event
      /\ spent' = IF starts THEN [spent EXCEPT !.calls = @ + 1] ELSE spent
      /\ obs' = IF EventActive(ev) THEN obs
                ELSE [obs EXCEPT !.spliced = FALSE, !.snapshot = {}]
      /\ UNCHANGED <<isdu, dev, reply, od_len>>
  BY DEF CallEvent
<1>3. request \in Requests
  BY ServicesAssumption
<1>4. spent' \in [losses : 0..MaxLosses, calls : 0..MaxEventCalls]
  <2>1. /\ spent \in [losses : 0..MaxLosses, calls : 0..MaxEventCalls]
        /\ spent.calls \in 0..MaxEventCalls /\ MaxEventCalls \in Nat
    BY <1>1, ServicesAssumption DEF Types
  <2> HIDE DEF starts
  <2>2. starts => spent.calls + 1 \in 0..MaxEventCalls
    BY <1>2, <2>1
  <2> QED
    BY <1>2, <2>1, <2>2
<1>5. obs' \in ObsStates
  <2>1. obs \in ObsStates
    BY <1>1 DEF Types
  <2>2. [obs EXCEPT !.spliced = FALSE, !.snapshot = {}] \in ObsStates
    BY <2>1 DEF ObsStates
  <2> QED
    BY <1>2, <2>1, <2>2
<1>6. ev' \in EventStates(Octets) /\ EventInv'
  <2>1. CASE EventActive(ev)
    <3>1. ev' = ev /\ obs' = obs
      BY <1>2, <2>1 DEF EventCall
    <3>2. EventInv'
      BY <1>2, <3>1, EventsAside
    <3> QED
      BY <1>1, <3>1, <3>2 DEF Types
  <2>2. CASE ~EventActive(ev)
    <3>1. ev' = EventStart(request) \/ ev' = EventIdle
      BY <1>2, <2>2 DEF EventCall
    <3>2. /\ ev' \in EventStates(Octets) /\ ~ev'.od_expected
          /\ \/ ev'.phase = "none" /\ ev'.request = "none"
             \/ ev'.phase = "read" /\ ~ev'.status_seen /\ ev'.addr = 0
      BY <1>3, <3>1, Beginning
    <3> QED
      BY <3>2, ForgottenInv
  <2> QED
    BY <2>1, <2>2
<1> QED
  BY <1>1, <1>2, <1>4, <1>5, <1>6 DEF Inv, Types


LEMMA RestartInv ==
    ASSUME Inv, Restart
    PROVE  Inv'
<1>1. Types
  BY DEF Inv
<1>2. isdu' \in IsduFits
  BY ClearFits DEF Restart
<1>3. /\ ev' \in EventStates(Octets) /\ ~ev'.od_expected
      /\ ev'.phase = "none" /\ ev'.request = "none"
  BY Beginning DEF Restart
<1>4. dev' \in SoundDevices
  BY <1>1, RestingSound DEF Restart, Types
<1>5. reply' \in Replies
  BY DEF Restart, NoReply, Replies
<1>6. obs' \in ObsStates
  <2> DEFINE o == Fresh(obs, <<>>)
  <2>1. o \in ObsStates
    <3>1. obs \in ObsStates /\ <<>> \in Seq(Octets)
      BY <1>1 DEF Types
    <3> QED
      BY <3>1, FreshType
  <2> HIDE DEF o
  <2>2. [o EXCEPT !.spliced = FALSE, !.snapshot = {}] \in ObsStates
    BY <2>1 DEF ObsStates
  <2> QED
    BY <2>2 DEF Restart, o
<1>7. UNCHANGED <<od_len, spent>>
  BY DEF Restart
<1>8. EventInv'
  BY <1>3, ForgottenInv
<1> QED
  BY <1>1, <1>2, <1>3, <1>4, <1>5, <1>6, <1>7, <1>8 DEF Inv, Types

LEMMA LoseInv ==
    ASSUME Inv, NEW exchanged \in BOOLEAN, LoseConnection(exchanged)
    PROVE  Inv'
<1>1. Types
  BY DEF Inv
<1>2. /\ spent.losses < MaxLosses /\ reply' = NoReply
      /\ dev' = IF exchanged THEN [Resting(dev) EXCEPT !.events = NoEvents]
                ELSE Resting(dev)
      /\ obs' = [obs EXCEPT !.missed = @ \/ isdu.phase = "response",
                            !.cut = @ \/ isdu.phase \in {"request", "wait"},
                            !.spliced = @ \/ (exchanged /\ EventActive(ev))]
      /\ spent' = [spent EXCEPT !.losses = @ + 1]
      /\ UNCHANGED <<isdu, ev, od_len>>
  BY DEF LoseConnection
<1>3. spent' \in [losses : 0..MaxLosses, calls : 0..MaxEventCalls]
  <2>1. /\ spent \in [losses : 0..MaxLosses, calls : 0..MaxEventCalls]
        /\ spent.losses \in 0..MaxLosses /\ MaxLosses \in Nat
    BY <1>1, ServicesAssumption DEF Types
  <2>2. spent.losses + 1 \in 0..MaxLosses
    BY <1>2, <2>1
  <2> QED
    BY <1>2, <2>1, <2>2
<1>4. reply' \in Replies /\ reply'.od = <<>>
  BY <1>2 DEF NoReply, Replies
<1>5. dev' \in SoundDevices /\ (~exchanged => dev'.events = dev.events)
  <2> DEFINE d == Resting(dev)
  <2>1. d \in SoundDevices /\ d.events = dev.events
    BY <1>1, RestingSound DEF Types
  <2> HIDE DEF d
  <2>2. [d EXCEPT !.events = NoEvents] \in SoundDevices
    BY <2>1 DEF SoundDevices, Devices
  <2> QED
    BY <1>2, <2>1, <2>2 DEF d
<1>6. /\ obs' \in ObsStates /\ obs'.snapshot = obs.snapshot
      /\ obs'.spliced <=> obs.spliced \/ (exchanged /\ EventActive(ev))
  <2> DEFINE m == obs.missed \/ isdu.phase = "response"
             c == obs.cut \/ isdu.phase \in {"request", "wait"}
             b == obs.spliced \/ (exchanged /\ EventActive(ev))
  <2>1. m \in BOOLEAN /\ c \in BOOLEAN /\ b \in BOOLEAN
    OBVIOUS
  <2>2. obs' = [obs EXCEPT !.missed = m, !.cut = c, !.spliced = b]
    BY <1>2
  <2>3. obs \in ObsStates
    BY <1>1 DEF Types
  <2> HIDE DEF m, c, b
  <2>4. obs' \in ObsStates /\ obs'.snapshot = obs.snapshot /\ obs'.spliced = b
    BY <2>1, <2>2, <2>3 DEF ObsStates
  <2> QED
    BY <2>4 DEF b
<1>7. EventInv'
  <2>1. EventInv
    BY DEF Inv
  <2>2. ASSUME ~obs'.spliced
        PROVE  /\ Exact(ev', dev'.events, obs'.snapshot)
               /\ InFlight(ev', reply', dev'.events, obs'.snapshot, od_len')
    <3>1. ~obs.spliced /\ (EventActive(ev) => dev'.events = dev.events)
      BY <1>5, <1>6, <2>2
    <3>2. Exact(ev, dev.events, obs.snapshot)
      BY <2>1, <3>1 DEF EventInv
    <3>3. Exact(ev, dev'.events, obs.snapshot)
      BY <3>1, <3>2 DEF Exact, EventActive
    <3> QED
      BY <1>2, <1>4, <1>6, <3>3 DEF InFlight
  <2> QED
    BY <1>2, <2>1, <2>2 DEF EventInv
<1> QED
  BY <1>1, <1>2, <1>3, <1>4, <1>5, <1>6, <1>7 DEF Inv, Types

LEMMA ReestablishInv ==
    ASSUME Inv, Reestablish
    PROVE  Inv'
BY DEF Inv, Types, EventInv, Reestablish

LEMMA AskedTypes ==
    ASSUME NEW request \in Seq(Octets), request # <<>>
    PROVE  Asked(request).data \in Seq(Octets)
<1> DEFINE service == ServiceNibble(request[1])
           first == IF LengthNibble(request[1]) = 1 THEN 3 ELSE 2
           n == service % 8
<1>1. Len(request) \in Nat /\ request[1] \in Octets
  OBVIOUS
<1>2. service \in 0..15
  BY <1>1, Nibbles
<1>3. n \in Nat /\ first \in Nat /\ first >= 1
  BY <1>2
<1>4. Asked(request).data = SubSeq(request, first + n, Len(request) - 1)
  BY DEF Asked
<1> HIDE DEF first, n
<1>5. /\ first + n \in Nat /\ first + n >= 1 /\ Len(request) - 1 \in Int
      /\ Len(request) - 1 <= Len(request)
  BY <1>1, <1>3
<1> QED
  BY <1>4, <1>5, PartType

LEMMA ExecuteInv ==
    ASSUME Inv, NEW accepts \in BOOLEAN, Execute(accepts)
    PROVE  Inv'
<1> DEFINE asked == Asked(dev.request)
           value == IF asked.op = "read" THEN dev.store[asked.object] ELSE <<>>
           response == IF accepts THEN PositiveResponse(asked.op, value)
                       ELSE NegativeResponse(asked.op)
           store == IF accepts /\ asked.op = "write"
                    THEN [dev.store EXCEPT ![asked.object] = asked.data]
                    ELSE dev.store
<1>1. Types
  BY DEF Inv
<1>2. dev \in SoundDevices /\ obs \in ObsStates
  BY <1>1 DEF Types
<1>3. /\ dev.phase = "busy" /\ asked.object \in Objects
      /\ dev' = [dev EXCEPT !.phase = "answering", !.request = <<>>, !.flow = 0,
                            !.response = response, !.store = store]
      /\ obs' = [obs EXCEPT !.made = IF accepts THEN "executed" ELSE "refused",
                            !.value = IF accepts THEN value ELSE <<>>]
      /\ UNCHANGED <<isdu, ev, reply, od_len, spent>>
  BY DEF Execute
<1>4. dev.request \in Seq(Octets) /\ dev.request # <<>>
  BY <1>2, <1>3, DeviceFields DEF SoundDevices
<1>5. asked.data \in Seq(Octets)
  BY <1>4, AskedTypes
<1>6. dev.store \in [Objects -> Seq(Octets)]
  BY <1>2, DeviceFields
<1> HIDE DEF asked
<1>7. value \in Seq(Octets)
  BY <1>3, <1>6
<1> HIDE DEF value
<1>8. response \in Seq(Octets)
  BY <1>7, StreamTypes
<1>9. store \in [Objects -> Seq(Octets)]
  BY <1>3, <1>5, <1>6
<1> HIDE DEF response, store
<1>10. dev' \in SoundDevices /\ dev'.events = dev.events
  <2>1. <<>> \in Seq(Octets) /\ 0 \in 0..(CountMod - 1)
    BY DEF CountMod
  <2>2. dev' \in Devices /\ dev'.phase = "answering"
    BY <1>2, <1>3, <1>8, <1>9, <2>1 DEF SoundDevices, Devices
  <2>3. dev'.events = dev.events
    BY <1>2, <1>3 DEF SoundDevices, Devices
  <2> QED
    BY <2>2, <2>3 DEF SoundDevices
<1>11. /\ obs' \in ObsStates /\ obs'.spliced = obs.spliced
       /\ obs'.snapshot = obs.snapshot
  <2> DEFINE m == IF accepts THEN "executed" ELSE "refused"
             v == IF accepts THEN value ELSE <<>>
  <2>1. m \in {"nothing", "executed", "refused"} /\ v \in Seq(Octets)
    BY <1>7
  <2>2. obs' = [obs EXCEPT !.made = m, !.value = v]
    BY <1>3
  <2> HIDE DEF m, v
  <2> QED
    BY <1>2, <2>1, <2>2 DEF ObsStates
<1>12. EventInv'
  BY <1>3, <1>10, <1>11, EventsAside
<1> QED
  BY <1>1, <1>3, <1>10, <1>11, <1>12 DEF Inv, Types

LEMMA RaiseInv ==
    ASSUME Inv, NEW events \in Raisable, Raise(events)
    PROVE  Inv'
<1>1. Types /\ EventInv
  BY DEF Inv
<1>2. /\ dev.events = NoEvents /\ dev' = [dev EXCEPT !.events = events]
      /\ UNCHANGED <<isdu, ev, reply, od_len, spent, obs>>
  BY DEF Raise
<1>3. dev' \in SoundDevices
  BY <1>1, <1>2 DEF Types, SoundDevices, Devices
<1>4. DOMAIN NoEvents = {}
  BY DEF NoEvents
<1>5. ASSUME ~obs.spliced
      PROVE  /\ Exact(ev, dev'.events, obs.snapshot)
             /\ InFlight(ev, reply, dev'.events, obs.snapshot, od_len)
  <2>1. /\ Exact(ev, dev.events, obs.snapshot)
        /\ InFlight(ev, reply, dev.events, obs.snapshot, od_len)
    BY <1>1, <1>5 DEF EventInv
  <2>2. ~(ev.phase = "read" /\ ev.status_seen)
    <3>1. SUFFICES ASSUME ev.phase = "read", ev.status_seen PROVE FALSE
      OBVIOUS
    <3>2. PICK E \in EventSets : PartOf(ev, E) /\ dev.events = E
      BY <2>1, <3>1 DEF Exact
    <3>3. Reading(ev) /\ ev \in EventStates(Octets)
      BY <1>1, <3>1 DEF EventInv, Types
    <3>4. DOMAIN E # {}
      BY <3>1, <3>2, <3>3, GoesOnWithEvents
    <3> QED
      BY <1>2, <1>4, <3>2, <3>4
  <2>3. \A E : (DOMAIN E # {} => dev.events = E) => DOMAIN E = {}
    BY <1>2, <1>4
  <2>4. Exact(ev, dev'.events, obs.snapshot)
    BY <2>1, <2>2, <2>3 DEF Exact
  <2>5. InFlight(ev, reply, dev'.events, obs.snapshot, od_len)
    BY <2>1, <2>3 DEF InFlight
  <2> QED
    BY <2>4, <2>5
<1>6. EventInv'
  BY <1>1, <1>2, <1>5 DEF EventInv
<1> QED
  BY <1>1, <1>2, <1>3, <1>6 DEF Inv, Types

LEMMA NextInv == Inv /\ [Next]_vars => Inv'
<1> SUFFICES ASSUME Inv, [Next]_vars PROVE Inv'
  OBVIOUS
<1>1. CASE UNCHANGED vars
  BY <1>1 DEF vars, Inv, Types, EventInv
<1>2. CASE Next
  BY <1>2, TickInv, ReadInv, WriteInv, CallEventInv, RestartInv, LoseInv,
     ReestablishInv, ExecuteInv, RaiseInv DEF Next
<1> QED
  BY <1>1, <1>2

LEMMA SpecInv == Spec => []Inv
  BY InitInv, NextInv, PTL DEF Spec



-----------------------------------------------------------------------------
(* What they amount to.                                                    *)

\* The services stay within their types whatever the line loses and whatever
\* the device answers: the memory image within MemoryLen octets (event_on_od),
\* the response within the caller's buffer (isdu_on_od), the request position,
\* the FlowCTRL count and the phases within their fields.
THEOREM ServicesTypeCorrect == Spec => []TypeOK
<1>1. ASSUME Inv PROVE TypeOK
  <2>1. Types
    BY <1>1 DEF Inv
  <2>2. isdu \in IsduStates /\ Len(isdu.response) <= BufferSize
    BY <2>1 DEF Types, IsduFits
  <2>3. dev \in Devices /\ reply.od \in Seq(Octets) /\ ev \in EventStates(Octets)
    BY <2>1 DEF Types, SoundDevices, Replies
  <2>4. {obs.missed, obs.cut, obs.spliced} \subseteq BOOLEAN
    BY <2>1 DEF Types, ObsStates
  <2>5. spent.losses \in 0..MaxLosses /\ spent.calls \in 0..MaxEventCalls
    BY <2>1 DEF Types
  <2> QED
    BY <2>2, <2>3, <2>4, <2>5 DEF TypeOK
<1> QED
  BY <1>1, SpecInv, PTL

\* An image that agrees with the events of the device in all octets needed
\* shows those events: the same slots, and in each the same octets.
LEMMA ImageShows ==
    ASSUME NEW e \in EventStates(Octets), NEW E \in EventSets, AllOf(e, E)
    PROVE  /\ ActiveSlots(e.memory) = DOMAIN E
           /\ \A s \in DOMAIN E : /\ e.memory[Base(s)] = E[s][1]
                                  /\ e.memory[Base(s) + 1] = E[s][2]
                                  /\ e.memory[Base(s) + 2] = E[s][3]
<1> DEFINE M == MemoryOf(E)
<1>1. /\ ActiveSlots(M) = DOMAIN E
      /\ \A s \in DOMAIN E, k \in 0..2 : M[Base(s) + k] = E[s][k + 1]
  BY ImageTypes
<1>2. Needed(M) \in 1..MemoryLen /\ \A s \in DOMAIN E : 3 * s < Needed(M)
  BY <1>1, NeededOctets
<1>3. \A a \in 0..(Needed(M) - 1) : e.memory[a] = M[a]
  BY DEF AllOf, Agrees
<1> HIDE DEF M
<1>4. e.memory[0] = M[0]
  BY <1>2, <1>3, Memory
<1>5. ActiveSlots(e.memory) = DOMAIN E
  BY <1>1, <1>4, NeededFromStatus
<1>6. ASSUME NEW s \in DOMAIN E, NEW k \in 0..2
      PROVE  e.memory[Base(s) + k] = E[s][k + 1]
  <2>1. s \in Slots /\ s \in Nat
    BY EventSetTypes DEF Slots
  <2>2. Base(s) + k \in 0..(MemoryLen - 1) /\ Base(s) + k <= 3 * s
    BY <2>1, EntryPlaces
  <2>3. 3 * s < Needed(M)
    BY <1>2
  <2>4. Base(s) + k \in 0..(Needed(M) - 1)
    BY <1>2, <2>1, <2>2, <2>3, Memory
  <2> QED
    BY <1>1, <1>3, <2>4
<1>7. ASSUME NEW s \in DOMAIN E
      PROVE  /\ e.memory[Base(s)] = E[s][1] /\ e.memory[Base(s) + 1] = E[s][2]
             /\ e.memory[Base(s) + 2] = E[s][3]
  <2>1. s \in Slots
    BY EventSetTypes
  <2>2. Base(s) \in Nat
    BY <2>1, EntryPlaces
  <2>3. /\ e.memory[Base(s) + 0] = E[s][0 + 1]
        /\ e.memory[Base(s) + 1] = E[s][1 + 1]
        /\ e.memory[Base(s) + 2] = E[s][2 + 1]
    BY <1>6
  <2>4. Base(s) + 0 = Base(s) /\ 0 + 1 = 1 /\ 1 + 1 = 2 /\ 2 + 1 = 3
    BY <2>2
  <2> QED
    BY <2>3, <2>4
<1> QED
  BY <1>5, <1>7

\* A completed readout (read_event_code, read_event_details, ack_event) shows
\* exactly the events that the device held when it gave its StatusCode, for
\* every width of the on-request data, every number of slots and every loss in
\* between: event_on_od takes an octet only at the address it was asked for
\* (route_od and od_expected), and ends when all entries are there.
THEOREM ReadoutsExact == Spec => []EventsExact
<1>1. ASSUME Inv, EventComplete(ev), ~obs.spliced
      PROVE  \E events \in obs.snapshot :
                LET slots == DOMAIN events
                IN  /\ ActiveSlots(ev.memory) = slots
                    /\ \A s \in slots :
                          LET e == EventAt(ev.memory, s)
                          IN  <<e.qualifier, e.code[1], e.code[2]>> = events[s]
  <2>1. PICK E \in EventSets : obs.snapshot = {E} /\ AllOf(ev, E)
    BY <1>1 DEF Inv, EventInv, Exact
  <2>2. ev \in EventStates(Octets)
    BY <1>1 DEF Inv, Types
  <2>3. /\ ActiveSlots(ev.memory) = DOMAIN E
        /\ \A s \in DOMAIN E : /\ ev.memory[Base(s)] = E[s][1]
                               /\ ev.memory[Base(s) + 1] = E[s][2]
                               /\ ev.memory[Base(s) + 2] = E[s][3]
    BY <2>1, <2>2, ImageShows
  <2>4. ASSUME NEW s \in DOMAIN E
        PROVE  LET e == EventAt(ev.memory, s)
               IN  <<e.qualifier, e.code[1], e.code[2]>> = E[s]
    <3>1. E[s] = <<E[s][1], E[s][2], E[s][3]>>
      BY EventSetTypes
    <3>2. /\ EventAt(ev.memory, s).qualifier = E[s][1]
          /\ EventAt(ev.memory, s).code[1] = E[s][2]
          /\ EventAt(ev.memory, s).code[2] = E[s][3]
      BY <2>3 DEF EventAt
    <3> QED
      BY <3>1, <3>2
  <2> QED
    BY <2>1, <2>3, <2>4
<1>2. Inv => EventsExact
  BY <1>1 DEF EventsExact
<1> QED
  BY <1>2, SpecInv, PTL

\* Only the confirming write of a readout makes the device release its events.
LEMMA ReleasedByWrite ==
    ASSUME Inv, NEW lost \in {"none", "request", "reply"}, Tick(lost),
           dev'.events # dev.events
    PROVE  \E e \in EventStates(Octets) :
              /\ e.phase = "write" /\ ev'.memory = e.memory
              /\ ~obs.spliced => Exact(e, dev.events, obs.snapshot)
<1> DEFINE r == RouteOd(ev, isdu, reply.od)
           f == DueFrame(r.ev, r.isdu)
           handled == Handle(dev, f)
<1>1. /\ r.isdu \in IsduFits /\ r.ev \in EventStates(Octets)
      /\ ~obs.spliced => Exact(r.ev, dev.events, obs.snapshot)
  BY Routed
<1>2. /\ ev' = IF f.channel = "diagnosis" THEN EventSent(r.ev) ELSE r.ev
      /\ dev' = IF lost = "request" THEN dev ELSE handled.dev
  BY DEF Tick
<1>3. od_len \in 1..8 /\ dev \in SoundDevices
  BY DEF Inv, Types
<1> HIDE DEF r
<1> DEFINE e == r.ev
           i == r.isdu
<1>4. e \in EventStates(Octets) /\ i \in IsduFits /\ e.phase \in {"read", "write", "none"}
  BY <1>1 DEF EventStates
<1>5. f = IF EventActive(e) THEN EventFrame(e)
          ELSE IF IsduActive(i) THEN IsduFrame(i, od_len) ELSE CyclicFrame
  BY DEF DueFrame
<1> HIDE DEF e, i
<1>6. /\ EventFrame(e) \in Frames
      /\ EventFrame(e).read <=> e.phase = "read"
  BY <1>4, EventFrameType DEF EventFrame
<1>7. IsduFrame(i, od_len) \in Frames /\ IsduFrame(i, od_len).channel = "isdu"
  BY <1>3, <1>4, IsduFrameType
<1>8. CyclicFrame \in Frames /\ CyclicFrame.channel = "process"
  BY DEF CyclicFrame, Frames
<1> HIDE DEF f
<1>9. f \in Frames /\ (f.channel = "diagnosis" => EventActive(e) /\ f = EventFrame(e))
  BY <1>5, <1>6, <1>7, <1>8
<1>10. ~(f.channel = "diagnosis" /\ ~f.read) => handled.dev.events = dev.events
  BY <1>3, <1>9, HandleSound
<1> HIDE DEF handled
<1>11. f.channel = "diagnosis" /\ ~f.read
  BY <1>2, <1>10
<1>12. e.phase = "write"
  BY <1>4, <1>6, <1>9, <1>11 DEF EventActive
<1>13. ev' = EventFinish(e)
  BY <1>2, <1>11, <1>12 DEF EventSent, e
<1>14. ev'.memory = e.memory
  BY <1>4, <1>13 DEF EventFinish, EventStates
<1> QED
  BY <1>1, <1>4, <1>12, <1>14 DEF e

\* The device is told to release its events (the StatusCode write of
\* send_event) only once the master holds every octet of every one of them.
THEOREM EventsReleasedAfterRead == Spec => ReleasedAfterRead
<1> DEFINE Released ==
      /\ dev.events # NoEvents /\ dev'.events = NoEvents
      /\ up' /\ ~obs.spliced /\ ActiveSlots(ev'.memory) # {}
      Kept == \A a \in 0..(Needed(MemoryOf(dev.events)) - 1) :
                 ev'.memory[a] = MemoryOf(dev.events)[a]
<1>1. ASSUME Inv, Next, Released PROVE Kept
  <2>1. CASE \E lost \in {"none", "request", "reply"} : Tick(lost)
    <3>1. PICK lost \in {"none", "request", "reply"} : Tick(lost)
      BY <2>1
    <3>2. dev'.events # dev.events /\ ~obs.spliced
      BY <1>1
    <3>3. PICK e \in EventStates(Octets) :
             /\ e.phase = "write" /\ ev'.memory = e.memory
             /\ ~obs.spliced => Exact(e, dev.events, obs.snapshot)
      BY <1>1, <3>1, <3>2, ReleasedByWrite
    <3>4. PICK E \in EventSets : AllOf(e, E) /\ (DOMAIN E # {} => dev.events = E)
      BY <3>2, <3>3 DEF Exact
    <3>5. ActiveSlots(e.memory) = DOMAIN E
      BY <3>4, ImageShows
    <3>6. dev.events = E
      BY <1>1, <3>3, <3>4, <3>5
    <3> QED
      BY <3>3, <3>4, <3>6 DEF AllOf, Agrees
  <2>2. CASE Restart \/ \E exchanged \in BOOLEAN : LoseConnection(exchanged)
    BY <1>1, <2>2 DEF Restart, LoseConnection
  <2>3. CASE \E accepts \in BOOLEAN : Execute(accepts)
    <3>1. dev \in SoundDevices
      BY <1>1 DEF Inv, Types
    <3>2. dev'.events = dev.events
      BY <2>3, <3>1 DEF Execute, SoundDevices, Devices
    <3> QED
      BY <1>1, <3>2
  <2>4. CASE \E events \in Raisable : Raise(events)
    BY <1>1, <2>4 DEF Raise
  <2>5. CASE \/ \E object \in Objects : Read(object)
             \/ \E w \in Writes : Write(w[1], w[2])
             \/ \E request \in EventCalls : CallEvent(request)
             \/ Reestablish
    <3>1. dev' = dev
      BY <2>5 DEF Read, Write, CallEvent, Reestablish
    <3> QED
      BY <1>1, <3>1
  <2> QED
    BY <1>1, <2>1, <2>2, <2>3, <2>4, <2>5 DEF Next
<1>2. ASSUME Inv, [Next]_vars PROVE [Released => Kept]_vars
  BY <1>1, <1>2
<1> QED
  BY <1>2, SpecInv, PTL DEF Spec, ReleasedAfterRead
-----------------------------------------------------------------------------
(* CHKPDU of a stream with a gap.                                          *)

LEMMA ChkpduAppend ==
    ASSUME NEW s \in Seq(Octets), NEW x \in Octets
    PROVE  Chkpdu(Append(s, x)) = SymDiff(Chkpdu(s), x)
<1> DEFINE t == Append(s, x)
           m == Len(s)
<1>1. /\ t \in Seq(Octets) /\ Len(t) = m + 1 /\ t[m + 1] = x /\ m \in Nat
      /\ \A n \in 1..m : t[n] = s[n]
  BY AppendProperties
<1> HIDE DEF t
<1>2. PICK a : /\ a[0] = {} /\ Chkpdu(s) = a[m]
               /\ \A n \in 1..m : a[n] = SymDiff(a[n - 1], s[n])
  BY ChkpduWalk
<1>3. PICK b : /\ b[0] = {} /\ Chkpdu(t) = b[Len(t)]
               /\ \A n \in 1..Len(t) : b[n] = SymDiff(b[n - 1], t[n])
  BY <1>1, ChkpduWalk
<1> DEFINE good == {n \in 0..m : a[n] = b[n]}
<1> HIDE DEF m
<1>4. 0 \in good
  <2>1. 0 \in 0..m /\ a[0] = b[0]
    BY <1>1, <1>2, <1>3
  <2> QED
    BY <2>1
<1>5. ASSUME NEW n \in 1..m, n - 1 \in good PROVE n \in good
  <2>1. n \in 1..Len(t) /\ n \in 0..m
    BY <1>1
  <2>2. a[n] = SymDiff(a[n - 1], s[n]) /\ b[n] = SymDiff(b[n - 1], t[n])
        /\ t[n] = s[n] /\ a[n - 1] = b[n - 1]
    BY <1>1, <1>2, <1>3, <1>5, <2>1
  <2> QED
    BY <2>1, <2>2
<1> HIDE DEF good
<1>6. \A n \in 0..m : n \in good
  BY <1>1, <1>4, <1>5, AllAlong
<1>7. a[m] = b[m]
  BY <1>1, <1>6 DEF good
<1>8. b[m + 1] = SymDiff(b[m + 1 - 1], t[m + 1]) /\ m + 1 - 1 = m
  BY <1>1, <1>3
<1>9. Chkpdu(t) = b[m + 1]
  BY <1>1, <1>3
<1>10. Chkpdu(t) = SymDiff(Chkpdu(s), x)
  BY <1>1, <1>2, <1>7, <1>8, <1>9
<1> QED
  BY <1>10 DEF t

LEMMA ChkpduEmpty == Chkpdu(<<>>) = {}
<1>1. <<>> \in Seq(Octets) /\ Len(<<>>) = 0
  OBVIOUS
<1> QED
  BY <1>1, ChkpduWalk

\* A sealed stream XORs to zero.
LEMMA ChkpduSealed ==
    ASSUME NEW s \in Seq(Octets)
    PROVE  Chkpdu(Sealed(s)) = {}
<1>1. Chkpdu(s) \in Octets
  BY ChkpduType
<1>2. Chkpdu(Sealed(s)) = SymDiff(Chkpdu(s), Chkpdu(s))
  BY <1>1, ChkpduAppend DEF Sealed
<1> QED
  BY <1>2 DEF SymDiff

\* The octets of a stream up to n that are in the gap G, and zero for the others.
Missed(S, G, n) == [i \in 1..n |-> IF i \in G THEN S[i] ELSE {}]

LEMMA MissedNext ==
    ASSUME NEW S \in Seq(Octets), NEW G, NEW n \in Nat, n + 1 <= Len(S)
    PROVE  /\ Missed(S, G, n) \in Seq(Octets)
           /\ Missed(S, G, n + 1)
                = Append(Missed(S, G, n), IF n + 1 \in G THEN S[n + 1] ELSE {})
<1> DEFINE m == Missed(S, G, n)
           x == IF n + 1 \in G THEN S[n + 1] ELSE {}
           t == Missed(S, G, n + 1)
<1>1. \A i \in 1..(n + 1) : S[i] \in Octets
  OBVIOUS
<1>2. m \in Seq(Octets) /\ Len(m) = n /\ x \in Octets
  BY <1>1, OctetTypes DEF Missed
<1>3. t \in Seq(Octets) /\ Len(t) = n + 1
  <2> DEFINE k == n + 1
  <2>1. k \in Nat /\ \A i \in 1..k : S[i] \in Octets
    BY <1>1
  <2> HIDE DEF k
  <2>2. Missed(S, G, k) \in Seq(Octets) /\ Len(Missed(S, G, k)) = k
    BY <2>1, OctetTypes DEF Missed
  <2> QED
    BY <2>2 DEF k
<1>4. \A i \in 1..n : t[i] = m[i]
  BY DEF Missed
<1>5. t[n + 1] = x
  BY DEF Missed
<1> HIDE DEF m, x, t
<1>6. /\ Append(m, x) \in Seq(Octets) /\ Len(Append(m, x)) = n + 1
      /\ \A i \in 1..n : Append(m, x)[i] = m[i]
      /\ Append(m, x)[n + 1] = x
  BY <1>2, AppendProperties
<1> DEFINE u == Append(m, x)
<1> HIDE DEF u
<1>7. t = u
  <2>1. u \in Seq(Octets) /\ Len(u) = n + 1
    BY <1>6 DEF u
  <2>2. \A i \in 1..(n + 1) : t[i] = u[i]
    BY <1>4, <1>5, <1>6 DEF u
  <2> QED
    BY <1>3, <2>1, <2>2, SeqEqual
<1> QED
  BY <1>2, <1>7 DEF m, x, t, u

LEMMA PrefixNext ==
    ASSUME NEW S \in Seq(Octets), NEW n \in Nat, n + 1 <= Len(S)
    PROVE  /\ SubSeq(S, 1, n) \in Seq(Octets) /\ S[n + 1] \in Octets
           /\ Len(SubSeq(S, 1, n)) = n
           /\ SubSeq(S, 1, n + 1) = Append(SubSeq(S, 1, n), S[n + 1])
<1>1. S[n + 1] \in Octets
  OBVIOUS
<1>2. n + 1 \in 1..Len(S) /\ 1 \in 1..Len(S) /\ n + 1 - 1 = n
  OBVIOUS
<1>3. SubSeq(S, 1, n + 1) = SubSeq(S, 1, n) \o <<S[n + 1]>>
  <2>1. n + 1 \in 1..Len(S) /\ 1 \in 1..Len(S)
    OBVIOUS
  <2>2. SubSeq(S, 1, n + 1) = SubSeq(S, 1, n + 1 - 1) \o <<S[n + 1]>>
    BY <2>1, SubSeqRecursiveSecond
  <2> QED
    BY <1>2, <2>2
<1>4. SubSeq(S, 1, n) \in Seq(Octets) /\ Len(SubSeq(S, 1, n)) = n
  <2>1. \A i \in 1..n : S[i] \in Octets
    OBVIOUS
  <2>2. /\ SubSeq(S, 1, n) \in Seq(Octets)
        /\ Len(SubSeq(S, 1, n)) = IF 1 <= n THEN n - 1 + 1 ELSE 0
    BY <2>1, SubSeqProperties
  <2> QED
    BY <2>2
<1> QED
  BY <1>1, <1>3, <1>4, AppendIsConcat

\* r is what is left of the first n octets of S after a gap: CHKPDU of the two
\* differs by that of the gap, which never takes the first octet.
Tracks(r, S, n) ==
    \E G \in SUBSET (2..n) :
        /\ Chkpdu(SubSeq(S, 1, n)) = SymDiff(Chkpdu(r), Chkpdu(Missed(S, G, n)))
        /\ G = {} => r = SubSeq(S, 1, n)

LEMMA GotOctet ==
    ASSUME NEW r \in Seq(Octets), NEW S \in Seq(Octets), NEW n \in Nat,
           n + 1 <= Len(S), Tracks(r, S, n)
    PROVE  Tracks(Append(r, S[n + 1]), S, n + 1)
<1> DEFINE x == S[n + 1]
<1>1. PICK G \in SUBSET (2..n) :
        /\ Chkpdu(SubSeq(S, 1, n)) = SymDiff(Chkpdu(r), Chkpdu(Missed(S, G, n)))
        /\ G = {} => r = SubSeq(S, 1, n)
  BY DEF Tracks
<1>2. G \in SUBSET (2..(n + 1)) /\ n + 1 \notin G
  OBVIOUS
<1>3. x \in Octets /\ SubSeq(S, 1, n) \in Seq(Octets)
      /\ SubSeq(S, 1, n + 1) = Append(SubSeq(S, 1, n), x)
  BY PrefixNext
<1>4. /\ Missed(S, G, n) \in Seq(Octets)
      /\ Missed(S, G, n + 1) = Append(Missed(S, G, n), {})
  BY <1>2, MissedNext
<1> DEFINE a == Chkpdu(SubSeq(S, 1, n))
           b == Chkpdu(r)
           c == Chkpdu(Missed(S, G, n))
<1> HIDE DEF x
<1>5. Chkpdu(SubSeq(S, 1, n + 1)) = SymDiff(a, x)
  BY <1>3, ChkpduAppend
<1>6. Chkpdu(Missed(S, G, n + 1)) = SymDiff(c, {})
  BY <1>4, ChkpduAppend, OctetTypes
<1>7. Chkpdu(Append(r, x)) = SymDiff(b, x)
  BY <1>3, ChkpduAppend
<1>8. a = SymDiff(b, c)
  BY <1>1
<1> HIDE DEF a, b, c
<1>9. SymDiff(a, x) = SymDiff(SymDiff(b, x), SymDiff(c, {}))
  BY <1>8 DEF SymDiff
<1>10. G = {} => Append(r, x) = SubSeq(S, 1, n + 1)
  BY <1>1, <1>3
<1> QED
  BY <1>2, <1>5, <1>6, <1>7, <1>9, <1>10 DEF Tracks, x

LEMMA SkippedOctet ==
    ASSUME NEW r \in Seq(Octets), NEW S \in Seq(Octets), NEW n \in Nat, n >= 1,
           n + 1 <= Len(S), Tracks(r, S, n)
    PROVE  Tracks(r, S, n + 1)
<1> DEFINE x == S[n + 1]
<1>1. PICK G \in SUBSET (2..n) :
        Chkpdu(SubSeq(S, 1, n)) = SymDiff(Chkpdu(r), Chkpdu(Missed(S, G, n)))
  BY DEF Tracks
<1> DEFINE H == G \cup {n + 1}
<1>2. H \in SUBSET (2..(n + 1)) /\ n + 1 \in H /\ H # {}
  OBVIOUS
<1>3. x \in Octets /\ SubSeq(S, 1, n) \in Seq(Octets)
      /\ SubSeq(S, 1, n + 1) = Append(SubSeq(S, 1, n), x)
  BY PrefixNext
<1>4. Missed(S, H, n) = Missed(S, G, n)
  <2>1. \A i \in 1..n : i \in H <=> i \in G
    OBVIOUS
  <2> HIDE DEF H
  <2> QED
    BY <2>1 DEF Missed
<1> HIDE DEF H
<1>5. /\ Missed(S, H, n) \in Seq(Octets)
      /\ Missed(S, H, n + 1) = Append(Missed(S, H, n), x)
  BY <1>2, MissedNext
<1> DEFINE a == Chkpdu(SubSeq(S, 1, n))
           b == Chkpdu(r)
           c == Chkpdu(Missed(S, G, n))
<1> HIDE DEF x
<1>6. Chkpdu(SubSeq(S, 1, n + 1)) = SymDiff(a, x)
  BY <1>3, ChkpduAppend
<1>7. Chkpdu(Missed(S, H, n + 1)) = SymDiff(c, x)
  BY <1>3, <1>4, <1>5, ChkpduAppend
<1>8. a = SymDiff(b, c)
  BY <1>1
<1> HIDE DEF a, b, c
<1>9. SymDiff(a, x) = SymDiff(b, SymDiff(c, x))
  BY <1>8 DEF SymDiff
<1>10. Chkpdu(SubSeq(S, 1, n + 1)) = SymDiff(b, Chkpdu(Missed(S, H, n + 1)))
  BY <1>6, <1>7, <1>9
<1> QED
  BY <1>2, <1>10 DEF Tracks, b

\* Behind the end of the stream come zeros.
LEMMA PaddedOctet ==
    ASSUME NEW r \in Seq(Octets), NEW S \in Seq(Octets), r # S,
           Tracks(r, S, Len(S))
    PROVE  Tracks(Append(r, {}), S, Len(S))
<1> DEFINE n == Len(S)
<1>1. PICK G \in SUBSET (2..n) :
        /\ Chkpdu(SubSeq(S, 1, n)) = SymDiff(Chkpdu(r), Chkpdu(Missed(S, G, n)))
        /\ G = {} => r = SubSeq(S, 1, n)
  BY DEF Tracks
<1>2. SubSeq(S, 1, n) = S
  BY SubSeqFull
<1>3. G # {}
  BY <1>1, <1>2
<1>4. Chkpdu(Append(r, {})) = SymDiff(Chkpdu(r), {})
  BY ChkpduAppend, OctetTypes
<1>5. \A a : SymDiff(a, {}) = a
  BY DEF SymDiff
<1> QED
  BY <1>1, <1>3, <1>4, <1>5 DEF Tracks

LEMMA SkippedOctets ==
    ASSUME NEW r \in Seq(Octets), NEW S \in Seq(Octets), NEW n \in Nat, n >= 1,
           NEW m \in Nat, n <= m, m <= Len(S), Tracks(r, S, n)
    PROVE  Tracks(r, S, m)
<1> DEFINE k == m - n
           good == {i \in 0..k : Tracks(r, S, n + i)}
<1>1. k \in Nat /\ n + k = m
  OBVIOUS
<1> HIDE DEF k
<1>2. 0 \in good
  BY <1>1
<1>3. ASSUME NEW i \in 1..k, i - 1 \in good PROVE i \in good
  <2> DEFINE j == n + (i - 1)
  <2>1. j \in Nat /\ j >= 1 /\ j + 1 <= Len(S) /\ j + 1 = n + i /\ i \in 0..k
    BY <1>1
  <2>2. Tracks(r, S, j)
    BY <1>3
  <2> HIDE DEF j
  <2>3. Tracks(r, S, j + 1)
    BY <2>1, <2>2, SkippedOctet
  <2> QED
    BY <2>1, <2>3
<1> HIDE DEF good
<1>4. \A i \in 0..k : i \in good
  BY <1>1, <1>2, <1>3, AllAlong
<1>5. k \in good
  BY <1>1, <1>4
<1> QED
  BY <1>1, <1>5 DEF good

LEMMA PrefixTracks ==
    ASSUME NEW S \in Seq(Octets), NEW n \in Nat, n <= Len(S)
    PROVE  Tracks(SubSeq(S, 1, n), S, n)
<1> DEFINE good == {i \in 0..n : Tracks(SubSeq(S, 1, i), S, i)}
<1>1. 0 \in good
  <2>1. SubSeq(S, 1, 0) = <<>>
    BY SubSeqEmpty
  <2>2. Missed(S, {}, 0) = <<>>
    BY DEF Missed
  <2>3. SymDiff({}, {}) = {}
    BY DEF SymDiff
  <2>4. Tracks(SubSeq(S, 1, 0), S, 0)
    <3>1. {} \in SUBSET (2..0)
      OBVIOUS
    <3>2. Chkpdu(SubSeq(S, 1, 0))
            = SymDiff(Chkpdu(SubSeq(S, 1, 0)), Chkpdu(Missed(S, {}, 0)))
      BY <2>1, <2>2, <2>3, ChkpduEmpty
    <3> QED
      BY <3>1, <3>2 DEF Tracks
  <2> QED
    BY <2>4
<1>2. ASSUME NEW i \in 1..n, i - 1 \in good PROVE i \in good
  <2> DEFINE j == i - 1
  <2>1. j \in Nat /\ j + 1 <= Len(S) /\ j + 1 = i /\ i \in 0..n
    OBVIOUS
  <2>2. Tracks(SubSeq(S, 1, j), S, j)
    BY <1>2
  <2> HIDE DEF j
  <2>3. SubSeq(S, 1, j) \in Seq(Octets)
        /\ SubSeq(S, 1, j + 1) = Append(SubSeq(S, 1, j), S[j + 1])
    BY <2>1, PrefixNext
  <2>4. Tracks(SubSeq(S, 1, j + 1), S, j + 1)
    BY <2>1, <2>2, <2>3, GotOctet
  <2> QED
    BY <2>1, <2>4
<1> HIDE DEF good
<1>3. \A i \in 0..n : i \in good
  BY <1>1, <1>2, AllAlong
<1>4. n \in good
  BY <1>3
<1> QED
  BY <1>4 DEF good

\* A gap that CHKPDU does not show was none, or XORs to zero.
LEMMA GapShows ==
    ASSUME NEW r \in Seq(Octets), NEW S \in Seq(Octets), Chkpdu(S) = {},
           NEW n \in 1..Len(S), Tracks(r, S, n), Chkpdu(r) = {}
    PROVE  r = S \/ ~Detectable(S)
<1> DEFINE m == Len(S)
<1>1. n \in Nat /\ n >= 1 /\ m \in Nat /\ n <= m
  OBVIOUS
<1>2. Tracks(r, S, m)
  BY <1>1, SkippedOctets
<1>3. PICK G \in SUBSET (2..m) :
        /\ Chkpdu(SubSeq(S, 1, m)) = SymDiff(Chkpdu(r), Chkpdu(Missed(S, G, m)))
        /\ G = {} => r = SubSeq(S, 1, m)
  BY <1>2 DEF Tracks
<1>4. SubSeq(S, 1, m) = S
  BY SubSeqFull
<1>5. \A a : SymDiff({}, a) = a
  BY DEF SymDiff
<1>6. Chkpdu(Missed(S, G, m)) = {}
  BY <1>3, <1>4, <1>5
<1>7. CASE G = {}
  BY <1>3, <1>4, <1>7
<1>8. CASE G # {}
  <2>1. G \in (SUBSET (2..Len(S))) \ {{}}
    BY <1>3, <1>8
  <2>2. Chkpdu([i \in 1..Len(S) |-> IF i \in G THEN S[i] ELSE {}]) = {}
    BY <1>6 DEF Missed
  <2> QED
    BY <2>1, <2>2 DEF Detectable
<1> QED
  BY <1>7, <1>8
-----------------------------------------------------------------------------
(* Headers and streams.                                                    *)

LEMMA ServiceAndLength ==
    ASSUME NEW service \in 0..15, NEW t \in 0..15
    PROVE  /\ LengthNibble(OctetOf(16 * service + t)) = t
           /\ ServiceNibble(OctetOf(16 * service + t)) = service
<1> DEFINE n == 16 * service + t
           o == OctetOf(n)
           low == o \cap {1, 2, 4, 8}
           high == o \cap {16, 32, 64, 128}
<1>1. low \in Octets /\ high \in Octets
  BY DEF Octets, Bits
<1>2. LengthNibble(o) = Value(low) /\ ServiceNibble(o) = Value(high) \div 16
  BY <1>1, Numbers DEF LengthNibble, ServiceNibble
<1>3. \A b \in Bits : b \in o <=> (n \div b) % 2 = 1
  BY DEF OctetOf
<1>4. /\ n \div 16 = service /\ n \div 32 = service \div 2
      /\ n \div 64 = service \div 4 /\ n \div 128 = service \div 8
      /\ n \div 1 = n
  OBVIOUS
<1>5. /\ (n \div 1) % 2 = t % 2 /\ (n \div 2) % 2 = (t \div 2) % 2
      /\ (n \div 4) % 2 = (t \div 4) % 2 /\ (n \div 8) % 2 = (t \div 8) % 2
  OBVIOUS
<1>6. Value(low) = (IF t % 2 = 1 THEN 1 ELSE 0) + (IF (t \div 2) % 2 = 1 THEN 2 ELSE 0)
                   + (IF (t \div 4) % 2 = 1 THEN 4 ELSE 0)
                   + (IF (t \div 8) % 2 = 1 THEN 8 ELSE 0)
  <2>1. /\ 1 \in low <=> t % 2 = 1
        /\ 2 \in low <=> (t \div 2) % 2 = 1
        /\ 4 \in low <=> (t \div 4) % 2 = 1
        /\ 8 \in low <=> (t \div 8) % 2 = 1
        /\ 16 \notin low /\ 32 \notin low /\ 64 \notin low /\ 128 \notin low
    <3> HIDE DEF o, n
    <3> QED
      BY <1>3, <1>5 DEF Bits
  <2> HIDE DEF low
  <2> QED
    BY <2>1 DEF Value
<1>7. Value(high) = (IF service % 2 = 1 THEN 16 ELSE 0)
                    + (IF (service \div 2) % 2 = 1 THEN 32 ELSE 0)
                    + (IF (service \div 4) % 2 = 1 THEN 64 ELSE 0)
                    + (IF (service \div 8) % 2 = 1 THEN 128 ELSE 0)
  <2>1. /\ 16 \in high <=> service % 2 = 1
        /\ 32 \in high <=> (service \div 2) % 2 = 1
        /\ 64 \in high <=> (service \div 4) % 2 = 1
        /\ 128 \in high <=> (service \div 8) % 2 = 1
        /\ 1 \notin high /\ 2 \notin high /\ 4 \notin high /\ 8 \notin high
    <3> HIDE DEF o, n
    <3> QED
      BY <1>3, <1>4 DEF Bits
  <2> HIDE DEF high
  <2> QED
    BY <2>1 DEF Value
<1> HIDE DEF low, high, o
<1>8. Value(low) = t
  BY <1>6
<1>9. Value(high) = 16 * service
  BY <1>7
<1>10. Value(high) \div 16 = service
  BY <1>9
<1> QED
  BY <1>2, <1>8, <1>10 DEF o

LEMMA Halves ==
    ASSUME NEW x \in Nat
    PROVE  x % 2 \in {0, 1} /\ x \div 2 \in Nat /\ x % 2 = x - 2 * (x \div 2)
<1>1. x % 2 = x - 2 * (x \div 2)
  OBVIOUS
<1>2. x % 2 \in {0, 1} /\ x \div 2 \in Nat
  OBVIOUS
<1> QED
  BY <1>1, <1>2

LEMMA NumberOfOctet ==
    ASSUME NEW n \in Nat
    PROVE  /\ Number(OctetOf(n)) <= n
           /\ n <= 255 => Number(OctetOf(n)) = n
<1> DEFINE o == OctetOf(n)
           a == n \div 2
           b == a \div 2
           c == b \div 2
           d == c \div 2
           e == d \div 2
           f == e \div 2
           g == f \div 2
           h == g \div 2
<1>1. o \in Octets /\ Number(o) = Value(o)
  BY OctetTypes, Numbers
<1>2. \A x \in Bits : x \in o <=> (n \div x) % 2 = 1
  BY DEF OctetOf
<1>3. /\ n \div 1 = n /\ n \div 2 = a /\ n \div 4 = b /\ n \div 8 = c
      /\ n \div 16 = d /\ n \div 32 = e /\ n \div 64 = f /\ n \div 128 = g
  OBVIOUS
<1> HIDE DEF o
<1>4. /\ 1 \in o <=> n % 2 = 1
      /\ 2 \in o <=> a % 2 = 1
      /\ 4 \in o <=> b % 2 = 1
      /\ 8 \in o <=> c % 2 = 1
      /\ 16 \in o <=> d % 2 = 1
      /\ 32 \in o <=> e % 2 = 1
      /\ 64 \in o <=> f % 2 = 1
      /\ 128 \in o <=> g % 2 = 1
  <2> HIDE DEF a, b, c, d, e, f, g
  <2> QED
    BY <1>2, <1>3 DEF Bits
<1> HIDE DEF a, b, c, d, e, f, g, h
<1>5. n % 2 \in {0, 1} /\ a \in Nat /\ n % 2 = n - 2 * a
  BY Halves DEF a
<1>6. a % 2 \in {0, 1} /\ b \in Nat /\ a % 2 = a - 2 * b
  BY <1>5, Halves DEF b
<1>7. b % 2 \in {0, 1} /\ c \in Nat /\ b % 2 = b - 2 * c
  BY <1>6, Halves DEF c
<1>8. c % 2 \in {0, 1} /\ d \in Nat /\ c % 2 = c - 2 * d
  BY <1>7, Halves DEF d
<1>9. d % 2 \in {0, 1} /\ e \in Nat /\ d % 2 = d - 2 * e
  BY <1>8, Halves DEF e
<1>10. e % 2 \in {0, 1} /\ f \in Nat /\ e % 2 = e - 2 * f
  BY <1>9, Halves DEF f
<1>11. f % 2 \in {0, 1} /\ g \in Nat /\ f % 2 = f - 2 * g
  BY <1>10, Halves DEF g
<1>12. g % 2 \in {0, 1} /\ h \in Nat /\ g % 2 = g - 2 * h
  BY <1>11, Halves DEF h
<1>13. Value(o) = (n - 2 * a) + 2 * (a - 2 * b) + 4 * (b - 2 * c) + 8 * (c - 2 * d)
                  + 16 * (d - 2 * e) + 32 * (e - 2 * f) + 64 * (f - 2 * g)
                  + 128 * (g - 2 * h)
  <2>1. /\ n - 2 * a \in {0, 1} /\ a - 2 * b \in {0, 1} /\ b - 2 * c \in {0, 1}
        /\ c - 2 * d \in {0, 1} /\ d - 2 * e \in {0, 1} /\ e - 2 * f \in {0, 1}
        /\ f - 2 * g \in {0, 1} /\ g - 2 * h \in {0, 1}
    BY <1>5, <1>6, <1>7, <1>8, <1>9, <1>10, <1>11, <1>12
  <2>2. /\ 1 \in o <=> n - 2 * a = 1
        /\ 2 \in o <=> a - 2 * b = 1
        /\ 4 \in o <=> b - 2 * c = 1
        /\ 8 \in o <=> c - 2 * d = 1
        /\ 16 \in o <=> d - 2 * e = 1
        /\ 32 \in o <=> e - 2 * f = 1
        /\ 64 \in o <=> f - 2 * g = 1
        /\ 128 \in o <=> g - 2 * h = 1
    BY <1>4, <1>5, <1>6, <1>7, <1>8, <1>9, <1>10, <1>11, <1>12
  <2> QED
    BY <1>5, <1>6, <1>7, <1>8, <1>9, <1>10, <1>11, <1>12, <2>1, <2>2 DEF Value
<1>14. Value(o) = n - 256 * h
  BY <1>5, <1>6, <1>7, <1>8, <1>9, <1>10, <1>11, <1>12, <1>13
<1>15. n >= 256 * h
  BY <1>5, <1>6, <1>7, <1>8, <1>9, <1>10, <1>11, <1>12
<1>16. n <= 255 => h = 0
  BY <1>12, <1>15
<1> QED
  BY <1>1, <1>12, <1>14, <1>16 DEF o

LEMMA HeaderFields ==
    ASSUME NEW service \in 0..15, NEW total \in Nat, total >= 2
    PROVE  LET h == Header(service, total)
               n == IF total <= 15 THEN 1 ELSE 2
           IN  /\ h \in Seq(Octets) /\ Len(h) = n
               /\ ServiceNibble(h[1]) = service
               /\ LengthNibble(h[1]) = IF total <= 15 THEN total ELSE 1
               /\ total > 15 => /\ Number(h[2]) <= total + 1
                                /\ total + 1 <= 255 => Number(h[2]) = total + 1
<1> DEFINE h == Header(service, total)
<1>1. h \in Seq(Octets)
  BY HeaderType
<1>2. CASE total <= 15
  <2>1. h = <<OctetOf(16 * service + total)>>
    BY <1>2 DEF Header, LengthMax
  <2>2. /\ LengthNibble(OctetOf(16 * service + total)) = total
        /\ ServiceNibble(OctetOf(16 * service + total)) = service
    <3>1. total \in 0..15
      BY <1>2
    <3> QED
      BY <3>1, ServiceAndLength
  <2>3. Len(h) = 1 /\ h[1] = OctetOf(16 * service + total)
    BY <2>1
  <2> QED
    BY <1>1, <1>2, <2>2, <2>3
<1>3. CASE total > 15
  <2>1. h = <<OctetOf(16 * service + 1), OctetOf(total + 1)>>
    BY <1>3 DEF Header, LengthMax
  <2>2. /\ LengthNibble(OctetOf(16 * service + 1)) = 1
        /\ ServiceNibble(OctetOf(16 * service + 1)) = service
    BY ServiceAndLength
  <2>3. /\ Number(OctetOf(total + 1)) <= total + 1
        /\ total + 1 <= 255 => Number(OctetOf(total + 1)) = total + 1
    BY NumberOfOctet
  <2>4. Len(h) = 2 /\ h[1] = OctetOf(16 * service + 1) /\ h[2] = OctetOf(total + 1)
    BY <2>1
  <2> QED
    BY <1>1, <1>3, <2>2, <2>3, <2>4
<1> QED
  BY <1>2, <1>3

\* A stream that ends a wait, says how long it is, no longer than it is, and
\* XORs to zero.
Stream(S) ==
    /\ S \in Seq(Octets) /\ Len(S) >= 2 /\ S[1] \notin {NoService, Busy}
    /\ LengthNibble(S[1]) >= 1 /\ DeclaredBy(S) <= Len(S) /\ Chkpdu(S) = {}

\* A header and its payload, sealed.
LEMMA SealedStream ==
    ASSUME NEW service \in 1..15, NEW v \in Seq(Octets)
    PROVE  LET S == Sealed(Header(service, 2 + Len(v)) \o v)
           IN  /\ Stream(S) /\ ServiceNibble(S[1]) = service
               /\ Len(S) >= 2 + Len(v) /\ Len(S) <= 3 + Len(v)
               /\ SubSeq(S, IF LengthNibble(S[1]) = 1 THEN 3 ELSE 2, Len(S) - 1) = v
               /\ Len(v) <= 252 => DeclaredBy(S) = Len(S)
<1> DEFINE total == 2 + Len(v)
           h == Header(service, total)
           n == IF total <= 15 THEN 1 ELSE 2
           p == h \o v
           S == Sealed(p)
           c == Chkpdu(p)
<1>1. total \in Nat /\ total >= 2 /\ Len(v) \in Nat /\ n \in 1..2
  OBVIOUS
<1>2. /\ h \in Seq(Octets) /\ Len(h) = n /\ ServiceNibble(h[1]) = service
      /\ LengthNibble(h[1]) = IF total <= 15 THEN total ELSE 1
      /\ total > 15 => /\ Number(h[2]) <= total + 1
                       /\ total + 1 <= 255 => Number(h[2]) = total + 1
  <2>1. service \in 0..15
    OBVIOUS
  <2> HIDE DEF total
  <2> QED
    BY <1>1, <2>1, HeaderFields
<1> HIDE DEF h
<1>3. /\ p \in Seq(Octets) /\ Len(p) = n + Len(v)
      /\ \A i \in 1..n : p[i] = h[i]
      /\ \A i \in 1..Len(v) : p[n + i] = v[i]
  <2>1. /\ p \in Seq(Octets) /\ Len(p) = Len(h) + Len(v)
        /\ \A i \in 1..(Len(h) + Len(v)) :
              p[i] = IF i <= Len(h) THEN h[i] ELSE v[i - Len(h)]
    BY <1>2, ConcatProperties
  <2> HIDE DEF p
  <2>2. /\ p \in Seq(Octets) /\ Len(p) = n + Len(v)
        /\ \A i \in 1..(n + Len(v)) : p[i] = IF i <= n THEN h[i] ELSE v[i - n]
    BY <1>2, <2>1
  <2> HIDE DEF n
  <2>3. ASSUME NEW i \in 1..n PROVE p[i] = h[i]
    <3>1. i \in 1..(n + Len(v)) /\ i <= n
      BY <1>1
    <3> QED
      BY <2>2, <3>1
  <2>4. ASSUME NEW i \in 1..Len(v) PROVE p[n + i] = v[i]
    <3> DEFINE j == n + i
    <3>1. j \in 1..(n + Len(v)) /\ ~(j <= n) /\ j - n = i
      BY <1>1
    <3> HIDE DEF j
    <3>2. p[j] = v[i]
      BY <2>2, <3>1
    <3> QED
      BY <3>2 DEF j
  <2> QED
    BY <2>2, <2>3, <2>4
<1>4. c \in Octets
  BY <1>3, ChkpduType
<1> HIDE DEF p, c, n
<1>5. S = Append(p, c)
  BY DEF Sealed, c
<1>6. /\ S \in Seq(Octets) /\ Len(S) = n + Len(v) + 1
      /\ \A i \in 1..(n + Len(v)) : S[i] = p[i]
  <2>1. /\ Append(p, c) \in Seq(Octets) /\ Len(Append(p, c)) = Len(p) + 1
        /\ \A i \in 1..Len(p) : Append(p, c)[i] = p[i]
    BY <1>3, <1>4, AppendProperties
  <2> QED
    BY <1>3, <1>5, <2>1
<1>7. Chkpdu(S) = {}
  BY <1>3, ChkpduSealed
<1> HIDE DEF S
<1>8. /\ S[1] = h[1] /\ (n = 2 => S[2] = h[2])
      /\ \A i \in 1..Len(v) : S[n + i] = v[i]
  <2>1. 1 \in 1..n /\ 1 \in 1..(n + Len(v))
    BY <1>1
  <2>2. n = 2 => 2 \in 1..n /\ 2 \in 1..(n + Len(v))
    BY <1>1
  <2>3. \A i \in 1..Len(v) : n + i \in 1..(n + Len(v))
    BY <1>1
  <2> QED
    BY <1>3, <1>6, <2>1, <2>2, <2>3
<1>9. /\ Len(S) >= 2 + Len(v) /\ Len(S) <= 3 + Len(v)
      /\ Len(S) = IF total <= 15 THEN total ELSE total + 1
  BY <1>1, <1>6 DEF n
<1>10. LengthNibble(S[1]) >= 1 /\ (LengthNibble(S[1]) = 1 <=> n = 2)
       /\ ServiceNibble(S[1]) = service
  BY <1>1, <1>2, <1>8 DEF n
<1>11. DeclaredBy(S) <= Len(S) /\ (Len(v) <= 252 => DeclaredBy(S) = Len(S))
  <2>1. CASE total <= 15
    <3>1. DeclaredBy(S) = total
      BY <1>1, <1>2, <1>8, <2>1 DEF DeclaredBy
    <3> QED
      BY <1>1, <1>9, <2>1, <3>1
  <2>2. CASE total > 15
    <3>1. Len(S) >= 2 /\ LengthNibble(S[1]) = 1 /\ S[2] = h[2]
      BY <1>1, <1>2, <1>8, <1>9, <2>2 DEF n
    <3>2. DeclaredBy(S) = Number(h[2])
      BY <3>1 DEF DeclaredBy
    <3>3. /\ Number(h[2]) <= total + 1 /\ Len(S) = total + 1
          /\ Len(v) <= 252 => Number(h[2]) = total + 1
      BY <1>1, <1>2, <1>9, <2>2
    <3> QED
      BY <3>2, <3>3
  <2> QED
    BY <1>1, <2>1, <2>2
<1>12. S[1] \notin {NoService, Busy}
  <2>1. ServiceNibble(NoService) = 0 /\ ServiceNibble(Busy) = 0
    <3>1. NoService \cap {16, 32, 64, 128} = {} /\ Busy \cap {16, 32, 64, 128} = {}
      BY DEF NoService, Busy
    <3>2. Number({}) = 0
      BY OctetTypes, Numbers DEF Value
    <3>3. 0 \div 16 = 0
      OBVIOUS
    <3> QED
      BY <3>1, <3>2, <3>3 DEF ServiceNibble
  <2> QED
    BY <1>10, <2>1
<1>13. SubSeq(S, n + 1, Len(S) - 1) = v
  <2> DEFINE a == n + 1
             b == Len(S) - 1
  <2>1. a \in Int /\ b \in Int /\ b = n + Len(v) /\ b - a + 1 = Len(v)
        /\ (a <= b <=> 1 <= Len(v))
    BY <1>1, <1>6
  <2>2. \A i \in a..b : S[i] \in Octets
    <3>1. \A i \in a..b : i \in 1..Len(S)
      BY <1>1, <1>6
    <3> QED
      BY <1>6, <3>1
  <2> HIDE DEF a, b
  <2>3. /\ SubSeq(S, a, b) \in Seq(Octets)
        /\ Len(SubSeq(S, a, b)) = IF a <= b THEN b - a + 1 ELSE 0
        /\ \A i \in 1..(b - a + 1) : SubSeq(S, a, b)[i] = S[a + i - 1]
    BY <2>1, <2>2, SubSeqProperties
  <2>4. Len(SubSeq(S, a, b)) = Len(v)
    BY <1>1, <2>1, <2>3
  <2>5. \A i \in 1..Len(v) : SubSeq(S, a, b)[i] = v[i]
    <3>1. \A i \in 1..Len(v) : a + i - 1 = n + i
      BY <1>1 DEF a
    <3> QED
      BY <1>8, <2>1, <2>3, <3>1
  <2> DEFINE z == SubSeq(S, a, b)
  <2> HIDE DEF z
  <2>6. z = v
    BY <2>3, <2>4, <2>5, SeqEqual DEF z
  <2> QED
    BY <2>6 DEF z, a, b
<1>14. SubSeq(S, IF LengthNibble(S[1]) = 1 THEN 3 ELSE 2, Len(S) - 1) = v
  <2>1. (IF LengthNibble(S[1]) = 1 THEN 3 ELSE 2) = n + 1
    BY <1>1, <1>10
  <2> QED
    BY <1>13, <2>1
<1>15. Stream(S)
  <2>1. Len(S) >= 2
    BY <1>1, <1>9
  <2> QED
    BY <1>6, <1>7, <1>10, <1>11, <1>12, <2>1 DEF Stream
<1> QED
  BY <1>9, <1>10, <1>11, <1>14, <1>15 DEF S, p, h

LEMMA Responses ==
    /\ \A op : \A v \in Seq(Octets) : Stream(PositiveResponse(op, v))
    /\ \A op : Stream(NegativeResponse(op))
    /\ ServiceNibble(NegativeResponse("read")[1]) = 12
    /\ \A v \in Seq(Octets) :
          LET S == PositiveResponse("read", v)
          IN  SubSeq(S, IF LengthNibble(S[1]) = 1 THEN 3 ELSE 2, Len(S) - 1) = v
<1>1. ASSUME NEW op, NEW v \in Seq(Octets) PROVE Stream(PositiveResponse(op, v))
  <2> DEFINE k == IF op = "read" THEN 13 ELSE 5
  <2>1. k \in 1..15 /\ PositiveResponse(op, v) = Sealed(Header(k, 2 + Len(v)) \o v)
    BY DEF PositiveResponse
  <2> HIDE DEF k
  <2> QED
    BY <2>1, SealedStream
<1>2. ASSUME NEW op
      PROVE  /\ Stream(NegativeResponse(op))
             /\ op = "read" => ServiceNibble(NegativeResponse(op)[1]) = 12
  <2> DEFINE k == IF op = "read" THEN 12 ELSE 4
             v == <<{128}, {1, 16}>>
  <2>1. v \in Seq(Octets) /\ 4 = 2 + Len(v)
    BY DEF Octets, Bits
  <2>2. k \in 1..15 /\ NegativeResponse(op) = Sealed(Header(k, 4) \o v)
    BY DEF NegativeResponse
  <2>3. op = "read" => k = 12
    OBVIOUS
  <2>4. NegativeResponse(op) = Sealed(Header(k, 2 + Len(v)) \o v)
    BY <2>1, <2>2
  <2> HIDE DEF k, v
  <2> QED
    BY <2>1, <2>2, <2>3, <2>4, SealedStream
<1>3. ASSUME NEW v \in Seq(Octets)
      PROVE  LET S == PositiveResponse("read", v)
             IN  SubSeq(S, IF LengthNibble(S[1]) = 1 THEN 3 ELSE 2, Len(S) - 1) = v
  <2> DEFINE k == 13
             S == Sealed(Header(k, 2 + Len(v)) \o v)
  <2>1. PositiveResponse("read", v) = S /\ k \in 1..15
    BY DEF PositiveResponse
  <2> HIDE DEF k
  <2>2. SubSeq(S, IF LengthNibble(S[1]) = 1 THEN 3 ELSE 2, Len(S) - 1) = v
    BY <2>1, SealedStream
  <2> HIDE DEF S
  <2> QED
    BY <2>1, <2>2
<1> QED
  BY <1>1, <1>2, <1>3

LEMMA ReadRequests ==
    ASSUME NEW object \in Objects
    PROVE  /\ ReadRequest(object) \in Seq(Octets) /\ Len(ReadRequest(object)) >= 3
           /\ ServiceNibble(ReadRequest(object)[1]) >= 8
<1>1. object \in Seq(Octets) /\ Len(object) \in 1..3
  BY ObjectsAssumption
<1> DEFINE k == 8 + Len(object)
<1>2. /\ k \in 1..15 /\ k >= 8 /\ Len(object) >= 1
      /\ ReadRequest(object) = Sealed(Header(k, 2 + Len(object)) \o object)
  <2>1. k \in 1..15 /\ k >= 8 /\ Len(object) >= 1
    <3> DEFINE m == Len(object)
    <3>1. m \in 1..3
      BY <1>1
    <3> HIDE DEF m
    <3>2. 8 + m \in 1..15 /\ 8 + m >= 8 /\ m >= 1
      BY <3>1
    <3> QED
      BY <3>2 DEF m
  <2> QED
    BY <2>1 DEF ReadRequest
<1> HIDE DEF k
<1> DEFINE S == Sealed(Header(k, 2 + Len(object)) \o object)
<1>3. Stream(S) /\ ServiceNibble(S[1]) = k /\ Len(S) >= 2 + Len(object)
  BY <1>1, <1>2, SealedStream
<1> HIDE DEF S
<1>4. Len(S) \in Nat /\ S \in Seq(Octets)
  BY <1>3 DEF Stream
<1>5. Len(S) >= 3
  BY <1>1, <1>2, <1>3, <1>4
<1> QED
  BY <1>2, <1>3, <1>4, <1>5 DEF S

\* The response of the device to the read in progress.
Answered(o) == IF o.made = "refused" THEN NegativeResponse("read")
               ELSE PositiveResponse("read", o.value)

LEMMA AnsweredStream ==
    ASSUME NEW o \in ObsStates
    PROVE  Stream(Answered(o))
<1>1. o.value \in Seq(Octets)
  BY DEF ObsStates
<1> QED
  BY <1>1, Responses DEF Answered

\* The result of a read is the device's value, or a gap XORed to zero.
Judged(s, o) ==
    s.error = "none" => \/ s.response = o.value
                        \/ ~Detectable(PositiveResponse("read", o.value))

LEMMA DecodedJudged ==
    ASSUME NEW o \in ObsStates, NEW s \in IsduFits, NEW n \in 1..Len(Answered(o)),
           Len(s.response) >= 1,
           s.response[1] = Answered(o)[1], Tracks(s.response, Answered(o), n)
    PROVE  Judged(DecodeResponse(s), o)
<1> DEFINE S == Answered(o)
           r == s.response
           t == DecodeResponse(s)
<1>1. Stream(S) /\ S \in Seq(Octets) /\ Chkpdu(S) = {} /\ r \in Seq(Octets)
  BY AnsweredStream, Fields DEF Stream
<1>2. SUFFICES ASSUME t.error = "none"
               PROVE  \/ t.response = o.value
                      \/ ~Detectable(PositiveResponse("read", o.value))
  BY DEF Judged
<1>3. s.error \in {"none", "segmentation", "device"} /\ s \in IsduStates
  BY DEF IsduFits, IsduStates
<1>4. Chkpdu(r) = {}
  <2>1. CASE Chkpdu(r) # {}
    <3>1. t = [Segmentation(s) EXCEPT !.abort_pending = TRUE]
      BY <2>1 DEF DecodeResponse
    <3>2. t.error = "segmentation"
      BY <1>3, <3>1 DEF Segmentation, IsduStates
    <3> QED
      BY <1>2, <3>2
  <2> QED
    BY <2>1
<1>5. ~Negative(s)
  <2>1. CASE Negative(s)
    <3> DEFINE e == IF Len(r) >= 4 THEN "device" ELSE "segmentation"
    <3>1. t = [s EXCEPT !.error = e, !.done = TRUE, !.idle_pending = TRUE,
                        !.phase = "none"]
      BY <1>4, <2>1 DEF DecodeResponse
    <3>2. e # "none"
      OBVIOUS
    <3> HIDE DEF e
    <3>3. t.error = e
      BY <1>3, <3>1 DEF IsduStates
    <3> QED
      BY <1>2, <3>2, <3>3
  <2> QED
    BY <2>1
<1>6. t.response = Payload(s)
  <2>1. t = [s EXCEPT !.response = Payload(s), !.done = TRUE,
                      !.idle_pending = TRUE, !.phase = "none"]
    BY <1>4, <1>5 DEF DecodeResponse
  <2> QED
    BY <1>3, <2>1 DEF IsduStates
<1>7. o.made # "refused"
  <2>1. CASE o.made = "refused"
    <3>1. S = NegativeResponse("read")
      BY <2>1 DEF Answered
    <3>2. ServiceNibble(r[1]) = 12
      BY <3>1, Responses
    <3> QED
      BY <1>5, <3>2 DEF Negative
  <2> QED
    BY <2>1
<1>8. S = PositiveResponse("read", o.value) /\ o.value \in Seq(Octets)
  BY <1>7 DEF Answered, ObsStates
<1> HIDE DEF S
<1>9. r = S \/ ~Detectable(S)
  <2>1. n \in 1..Len(S) /\ Tracks(r, S, n)
    BY DEF S
  <2> HIDE DEF r
  <2> QED
    BY <1>1, <1>4, <2>1, GapShows
<1>10. CASE r = S
  <2>1. Payload(s) = SubSeq(S, IF LengthNibble(S[1]) = 1 THEN 3 ELSE 2, Len(S) - 1)
    BY <1>10 DEF Payload, PayloadStart
  <2>2. Payload(s) = o.value
    BY <1>8, <2>1, Responses
  <2> QED
    BY <1>6, <2>2
<1>11. CASE ~Detectable(S)
  BY <1>8, <1>11
<1> QED
  BY <1>9, <1>10, <1>11
-----------------------------------------------------------------------------
(* Receiving a response.                                                   *)

Pending(s) == s.abort_pending \/ s.idle_pending

\* A response of which octets are there, but not all that it declares.
Gathering(s) ==
    /\ s.phase = "response" /\ ~s.done /\ ~Pending(s) /\ Len(s.response) >= 1
    /\ s.expected_len = DeclaredBy(s.response)
    /\ \/ Len(s.response) < s.expected_len
       \/ (Len(s.response) = 1 /\ LengthNibble(s.response[1]) = 1)

\* A service that has ended, with an IDLE or an ABORT still to be sent or none.
Over(s) == s.phase = "none" /\ s.done /\ ~(s.abort_pending /\ s.idle_pending)

SameIsdu(s, t) == /\ t.op = s.op /\ t.index = s.index /\ t.request = s.request
                  /\ t.request_pos = s.request_pos

Grown(s, x) ==
    [s EXCEPT !.response = Append(s.response, x),
              !.expected_len = DeclaredBy(Append(s.response, x))]

LEMMA DeclaredType ==
    ASSUME NEW r \in Seq(Octets), Len(r) >= 1
    PROVE  DeclaredBy(r) \in Nat
<1>1. r[1] \in Octets /\ (Len(r) >= 2 => r[2] \in Octets)
  OBVIOUS
<1>2. LengthNibble(r[1]) \in Nat /\ (Len(r) >= 2 => Number(r[2]) \in Nat)
  BY <1>1, OctetNumbers, Zenon
<1> QED
  BY <1>2 DEF DeclaredBy

LEMMA AppendOctet ==
    ASSUME NEW r \in Seq(Octets), NEW x \in Octets
    PROVE  /\ Append(r, x) \in Seq(Octets) /\ Len(Append(r, x)) = Len(r) + 1
           /\ Len(r) >= 1 => Append(r, x)[1] = r[1]
           /\ Len(r) >= 2 => /\ Append(r, x)[2] = r[2]
                             /\ DeclaredBy(Append(r, x)) = DeclaredBy(r)
           /\ Len(r) >= 1 /\ LengthNibble(r[1]) # 1
                => DeclaredBy(Append(r, x)) = DeclaredBy(r)
<1> DEFINE q == Append(r, x)
<1>1. /\ q \in Seq(Octets) /\ Len(q) = Len(r) + 1
      /\ \A i \in 1..Len(r) : q[i] = r[i]
  BY AppendProperties
<1> HIDE DEF q
<1>2. Len(r) >= 1 => q[1] = r[1]
  BY <1>1
<1>3. Len(r) >= 2 => q[2] = r[2] /\ Len(q) >= 2
  BY <1>1
<1>4. Len(r) >= 2 => DeclaredBy(q) = DeclaredBy(r)
  BY <1>2, <1>3 DEF DeclaredBy
<1>5. Len(r) >= 1 /\ LengthNibble(r[1]) # 1 => DeclaredBy(q) = DeclaredBy(r)
  BY <1>2 DEF DeclaredBy
<1> QED
  BY <1>1, <1>2, <1>3, <1>4, <1>5 DEF q

LEMMA GrownFields ==
    ASSUME NEW s \in IsduFits, NEW x \in Octets, Len(s.response) < BufferSize
    PROVE  /\ Grown(s, x) \in IsduFits
           /\ Grown(s, x).response = Append(s.response, x)
           /\ Grown(s, x).expected_len = DeclaredBy(Append(s.response, x))
           /\ Grown(s, x).flowctrl = s.flowctrl /\ Grown(s, x).phase = s.phase
           /\ Grown(s, x).done = s.done
           /\ Grown(s, x).abort_pending = s.abort_pending
           /\ Grown(s, x).idle_pending = s.idle_pending
           /\ SameIsdu(s, Grown(s, x))
<1> DEFINE q == Append(s.response, x)
           n == DeclaredBy(q)
<1>1. s.response \in Seq(Octets) /\ s \in IsduStates
  BY Fields
<1>2. q \in Seq(Octets) /\ Len(q) = Len(s.response) + 1
  BY <1>1, AppendOctet
<1>3. Len(q) >= 1 /\ Len(q) <= BufferSize
  BY <1>1, <1>2, BufferAssumption
<1> HIDE DEF q
<1>4. n \in Nat
  BY <1>2, <1>3, DeclaredType
<1>5. Grown(s, x) = [s EXCEPT !.response = q, !.expected_len = n]
  BY DEF Grown, q
<1> HIDE DEF n
<1> DEFINE u == [s EXCEPT !.response = q, !.expected_len = n]
<1>6. u \in IsduStates /\ u.response = q /\ u.expected_len = n
  BY <1>1, <1>2, <1>4 DEF IsduStates
<1>7. /\ u.flowctrl = s.flowctrl /\ u.phase = s.phase /\ u.done = s.done
      /\ u.abort_pending = s.abort_pending /\ u.idle_pending = s.idle_pending
      /\ u.op = s.op /\ u.index = s.index /\ u.request = s.request
      /\ u.request_pos = s.request_pos
  BY <1>1 DEF IsduStates
<1> HIDE DEF u
<1>8. u \in IsduFits
  BY <1>3, <1>6 DEF IsduFits
<1> QED
  BY <1>5, <1>6, <1>7, <1>8 DEF u, n, q, SameIsdu

LEMMA SegmentationEnds ==
    ASSUME NEW s \in IsduFits, ~Pending(s)
    PROVE  /\ Over(Segmentation(s)) /\ SameIsdu(s, Segmentation(s))
           /\ Segmentation(s).error = "segmentation" /\ ~Pending(Segmentation(s))
<1>1. s \in IsduStates
  BY Fields
<1> DEFINE t == Segmentation(s)
<1>2. /\ t.error = "segmentation" /\ t.done = TRUE /\ t.phase = "none"
      /\ t.abort_pending = s.abort_pending /\ t.idle_pending = s.idle_pending
      /\ t.op = s.op /\ t.index = s.index /\ t.request = s.request
      /\ t.request_pos = s.request_pos
  BY <1>1 DEF Segmentation, IsduStates
<1> HIDE DEF t
<1> QED
  BY <1>2 DEF Over, SameIsdu, Pending, t

LEMMA DecodeEnds ==
    ASSUME NEW s \in IsduFits, ~Pending(s)
    PROVE  /\ Over(DecodeResponse(s)) /\ SameIsdu(s, DecodeResponse(s))
           /\ Pending(DecodeResponse(s))
<1>1. s \in IsduStates
  BY Fields
<1> DEFINE t == DecodeResponse(s)
           Kept == /\ t.op = s.op /\ t.index = s.index /\ t.request = s.request
                   /\ t.request_pos = s.request_pos
<1>2. CASE Chkpdu(s.response) # {}
  <2> DEFINE g == Segmentation(s)
  <2>1. t = [g EXCEPT !.abort_pending = TRUE]
    BY <1>2 DEF DecodeResponse
  <2>2. g \in IsduStates /\ g.done /\ g.phase = "none" /\ ~g.idle_pending
        /\ SameIsdu(s, g)
    BY SegmentationFits, SegmentationEnds, Fields DEF Over, Pending
  <2> HIDE DEF g
  <2>3. /\ t.abort_pending = TRUE /\ t.idle_pending = g.idle_pending
        /\ t.done = g.done /\ t.phase = g.phase /\ t.op = g.op /\ t.index = g.index
        /\ t.request = g.request /\ t.request_pos = g.request_pos
    BY <2>1, <2>2 DEF IsduStates
  <2> HIDE DEF t
  <2> QED
    BY <2>2, <2>3 DEF Over, Pending, SameIsdu, t
<1>3. CASE ~(Chkpdu(s.response) # {}) /\ Negative(s)
  <2> DEFINE e == IF Len(s.response) >= 4 THEN "device" ELSE "segmentation"
  <2>1. t = [s EXCEPT !.error = e, !.done = TRUE, !.idle_pending = TRUE,
                      !.phase = "none"]
    BY <1>3 DEF DecodeResponse
  <2> HIDE DEF e
  <2>2. /\ t.abort_pending = s.abort_pending /\ t.idle_pending = TRUE
        /\ t.done = TRUE /\ t.phase = "none" /\ Kept
    BY <1>1, <2>1 DEF IsduStates
  <2> HIDE DEF t
  <2> QED
    BY <2>2 DEF Over, Pending, SameIsdu, t
<1>4. CASE ~(Chkpdu(s.response) # {}) /\ ~Negative(s)
  <2> DEFINE p == Payload(s)
  <2>1. t = [s EXCEPT !.response = p, !.done = TRUE, !.idle_pending = TRUE,
                      !.phase = "none"]
    BY <1>4 DEF DecodeResponse
  <2> HIDE DEF p
  <2>2. /\ t.abort_pending = s.abort_pending /\ t.idle_pending = TRUE
        /\ t.done = TRUE /\ t.phase = "none" /\ Kept
    BY <1>1, <2>1 DEF IsduStates
  <2> HIDE DEF t
  <2> QED
    BY <2>2 DEF Over, Pending, SameIsdu, t
<1> QED
  BY <1>2, <1>3, <1>4

\* What the next octet of a response does.
LEMMA NextOctet ==
    ASSUME NEW s \in IsduFits, Gathering(s), NEW x \in Octets
    PROVE  \/ /\ Len(s.response) >= BufferSize /\ s.expected_len > BufferSize
              /\ OnOctet(s, x) = Segmentation(s)
           \/ /\ Len(s.response) < BufferSize
              /\ Len(s.response) + 1 >= DeclaredBy(Append(s.response, x))
              /\ OnOctet(s, x) = DecodeResponse(Grown(s, x))
           \/ /\ Len(s.response) < BufferSize
              /\ OnOctet(s, x) = Grown(s, x) /\ Gathering(Grown(s, x))
<1> DEFINE r == s.response
           q == Append(r, x)
           t == [s EXCEPT !.response = Append(@, x)]
           u == [t EXCEPT !.expected_len = Declared(t)]
           waiting == LengthNibble(t.response[1]) = 1 /\ Len(t.response) = 1
<1>1. r \in Seq(Octets) /\ Len(r) \in Nat /\ Len(r) <= BufferSize /\ s \in IsduStates
      /\ s.expected_len \in Nat /\ Len(r) >= 1
  BY Fields DEF Gathering
<1>2. /\ q \in Seq(Octets) /\ Len(q) = Len(r) + 1 /\ q[1] = r[1]
      /\ Len(r) >= 2 => DeclaredBy(q) = DeclaredBy(r)
      /\ LengthNibble(r[1]) # 1 => DeclaredBy(q) = DeclaredBy(r)
  BY <1>1, AppendOctet
<1>3. s.phase = "response" /\ ~s.done /\ s.expected_len = DeclaredBy(r)
      /\ (Len(r) < s.expected_len \/ (Len(r) = 1 /\ LengthNibble(r[1]) = 1))
  BY DEF Gathering
<1>4. t.response = q /\ t.expected_len = s.expected_len
  BY <1>1 DEF IsduStates
<1>5. OnOctet(s, x) = IF BufferFull(s) THEN Segmentation(s)
                      ELSE IF LengthNibble(t.response[1]) = 0 THEN Segmentation(t)
                      ELSE IF ~waiting /\ Len(u.response) >= u.expected_len
                      THEN DecodeResponse(u)
                      ELSE u
  BY <1>3 DEF OnOctet
<1>6. LengthNibble(r[1]) # 0
  <2>1. CASE LengthNibble(r[1]) = 0
    <3>1. DeclaredBy(r) = 0
      BY <2>1 DEF DeclaredBy
    <3> QED
      BY <1>1, <1>3, <2>1, <3>1
  <2> QED
    BY <2>1
<1>7. Declared(t) = DeclaredBy(q)
  <2>1. CASE s.expected_len # 0
    <3>1. Declared(t) = s.expected_len
      BY <1>4, <2>1 DEF Declared
    <3>2. Len(r) >= 2 \/ LengthNibble(r[1]) # 1
      <4>1. CASE ~(Len(r) >= 2) /\ LengthNibble(r[1]) = 1
        <5>1. DeclaredBy(r) = 0
          BY <4>1 DEF DeclaredBy
        <5> QED
          BY <1>3, <2>1, <5>1
      <4> QED
        BY <4>1
    <3> QED
      BY <1>2, <1>3, <3>1, <3>2
  <2>2. CASE s.expected_len = 0
    <3>1. Len(r) = 1 /\ LengthNibble(r[1]) = 1
      BY <1>1, <1>3, <2>2
    <3>2. Len(q) = 2 /\ LengthNibble(q[1]) = 1
      BY <1>1, <1>2, <3>1
    <3>3. Declared(t) = Number(q[2])
      BY <1>4, <2>2, <3>2 DEF Declared
    <3>4. DeclaredBy(q) = Number(q[2])
      BY <3>2 DEF DeclaredBy
    <3> QED
      BY <3>3, <3>4
  <2> QED
    BY <2>1, <2>2
<1>8. u = Grown(s, x)
  <2>1. Grown(s, x) = [s EXCEPT !.response = q, !.expected_len = DeclaredBy(q)]
    BY DEF Grown
  <2>2. u = [t EXCEPT !.expected_len = DeclaredBy(q)]
    BY <1>7
  <2>3. t = [s EXCEPT !.response = q]
    OBVIOUS
  <2> QED
    BY <1>1, <2>1, <2>2, <2>3 DEF IsduStates
<1>9. ~waiting
  BY <1>1, <1>2, <1>4
<1> HIDE DEF t, u, waiting, q
<1>10. CASE BufferFull(s)
  <2>1. Len(r) >= BufferSize /\ Len(r) # 1
    <3>1. Len(r) >= BufferSize
      BY <1>10 DEF BufferFull
    <3> DEFINE m == Len(r)
    <3>2. m \in Nat /\ m >= BufferSize
      BY <1>1, <3>1
    <3> HIDE DEF m
    <3>3. m # 1
      BY <3>2, BufferAssumption
    <3> QED
      BY <3>1, <3>3 DEF m
  <2>2. s.expected_len > BufferSize
    BY <1>1, <1>3, <2>1, BufferAssumption
  <2> QED
    BY <1>5, <1>10, <2>1, <2>2
<1>11. CASE ~BufferFull(s)
  <2>1. Len(r) < BufferSize
    BY <1>1, <1>11, BufferAssumption DEF BufferFull
  <2>2. OnOctet(s, x) = IF Len(u.response) >= u.expected_len THEN DecodeResponse(u)
                        ELSE u
    BY <1>2, <1>4, <1>5, <1>6, <1>9, <1>11
  <2>3. u.response = q /\ u.expected_len = DeclaredBy(q) /\ u.phase = s.phase
        /\ u.done = s.done /\ u.abort_pending = s.abort_pending
        /\ u.idle_pending = s.idle_pending
    BY <1>8, <2>1, GrownFields DEF q
  <2>4. CASE Len(u.response) >= u.expected_len
    BY <1>2, <1>8, <2>1, <2>2, <2>3, <2>4 DEF q
  <2>5. CASE ~(Len(u.response) >= u.expected_len)
    <3>1. DeclaredBy(q) \in Nat
      <4>1. Len(q) >= 1
        BY <1>1, <1>2
      <4> QED
        BY <1>2, <4>1, DeclaredType
    <3>2. Len(q) < DeclaredBy(q) /\ Len(q) >= 1
      BY <1>1, <1>2, <2>3, <2>5, <3>1
    <3>3. ~Pending(u)
      BY <2>3 DEF Gathering, Pending
    <3>4. Gathering(u)
      BY <1>3, <2>3, <3>2, <3>3 DEF Gathering
    <3> QED
      BY <1>8, <2>1, <2>2, <2>5, <3>4
  <2> QED
    BY <2>4, <2>5
<1> QED
  BY <1>10, <1>11

\* The first octet of a response ends the wait.
LEMMA FirstOctet ==
    ASSUME NEW s \in IsduFits, s.phase = "wait", ~s.done, ~Pending(s),
           NEW x \in Octets, x \notin {NoService, Busy}, LengthNibble(x) >= 1
    PROVE  /\ Gathering(OnOctet(s, x)) /\ OnOctet(s, x).response = <<x>>
           /\ OnOctet(s, x).flowctrl = 1 /\ SameIsdu(s, OnOctet(s, x))
<1> DEFINE r == ResponseStarts(s)
           t == [r EXCEPT !.response = Append(@, x)]
           u == [t EXCEPT !.expected_len = Declared(t)]
           waiting == LengthNibble(t.response[1]) = 1 /\ Len(t.response) = 1
<1>1. s \in IsduStates
  BY Fields
<1>2. /\ r.phase = "response" /\ r.response = <<>> /\ r.expected_len = 0
      /\ r.flowctrl = 1 /\ r.done = s.done /\ r.abort_pending = s.abort_pending
      /\ r.idle_pending = s.idle_pending /\ SameIsdu(s, r)
      /\ r \in IsduStates
  <2>1. 1 \in FlowCtrl /\ <<>> \in Seq(Octets)
    BY DEF FlowCtrl, CountMod
  <2>2. /\ r.phase = "response" /\ r.response = <<>> /\ r.expected_len = 0
        /\ r.flowctrl = 1 /\ r.done = s.done /\ r.abort_pending = s.abort_pending
        /\ r.idle_pending = s.idle_pending /\ SameIsdu(s, r)
    BY <1>1 DEF ResponseStarts, IsduStates, SameIsdu
  <2>3. r \in IsduStates
    BY <1>1, <2>1 DEF ResponseStarts, IsduStates
  <2> QED
    BY <2>2, <2>3
<1>3. OnOctet(s, x) = IF BufferFull(r) THEN Segmentation(r)
                      ELSE IF LengthNibble(t.response[1]) = 0 THEN Segmentation(t)
                      ELSE IF ~waiting /\ Len(u.response) >= u.expected_len
                      THEN DecodeResponse(u)
                      ELSE u
  BY DEF OnOctet
<1> HIDE DEF r
<1>4. Append(<<>>, x) = <<x>>
  OBVIOUS
<1>5. /\ t.response = <<x>> /\ t.expected_len = 0 /\ t.phase = "response"
      /\ t.flowctrl = 1 /\ t.done = s.done /\ t.abort_pending = s.abort_pending
      /\ t.idle_pending = s.idle_pending /\ SameIsdu(s, t)
  BY <1>2, <1>4 DEF SameIsdu, IsduStates
<1>6. t.response[1] = x /\ Len(t.response) = 1
  BY <1>5
<1>7. LengthNibble(x) \in Nat
  BY OctetNumbers
<1>8. Declared(t) = DeclaredBy(<<x>>)
      /\ DeclaredBy(<<x>>) = IF LengthNibble(x) # 1 THEN LengthNibble(x) ELSE 0
  BY <1>5, <1>6 DEF Declared, DeclaredBy
<1>9. /\ u.response = <<x>> /\ u.expected_len = DeclaredBy(<<x>>)
      /\ u.phase = "response" /\ u.flowctrl = 1 /\ u.done = s.done
      /\ u.abort_pending = s.abort_pending /\ u.idle_pending = s.idle_pending
      /\ SameIsdu(s, u)
  <2>1. t = [r EXCEPT !.response = <<x>>]
    BY <1>2, <1>4
  <2>3. t \in IsduStates
    <3>1. <<x>> \in Seq(Octets)
      OBVIOUS
    <3> QED
      BY <1>2, <2>1, <3>1 DEF IsduStates
  <2> HIDE DEF t
  <2>2. u = [t EXCEPT !.expected_len = DeclaredBy(<<x>>)]
    BY <1>8
  <2> QED
    BY <1>5, <2>2, <2>3 DEF SameIsdu, IsduStates
<1> HIDE DEF t, u
<1>10. ~BufferFull(r)
  <2>1. Len(<<>>) = 0 /\ ~(0 >= BufferSize)
    BY BufferAssumption
  <2> QED
    BY <1>2, <2>1 DEF BufferFull
<1>11. waiting \/ ~(Len(u.response) >= u.expected_len)
  <2>1. CASE LengthNibble(x) = 1
    BY <1>6, <2>1
  <2>2. CASE LengthNibble(x) # 1
    <3>1. u.expected_len = LengthNibble(x) /\ Len(u.response) = 1
      BY <1>8, <1>9, <2>2
    <3> QED
      BY <1>7, <2>2, <3>1
  <2> QED
    BY <2>1, <2>2
<1>12. OnOctet(s, x) = u
  BY <1>3, <1>6, <1>7, <1>10, <1>11
<1>13. Gathering(u)
  <2>1. Len(u.response) = 1 /\ u.response[1] = x
    BY <1>9
  <2>2. ~Pending(u)
    BY <1>9 DEF Pending
  <2>3. 1 < u.expected_len \/ LengthNibble(x) = 1
    BY <1>7, <1>8, <1>9
  <2> QED
    BY <1>9, <2>1, <2>2, <2>3 DEF Gathering
<1> QED
  BY <1>9, <1>12, <1>13

\* Whatever holds of the transport from octet to octet holds at the end.
LEMMA Segments ==
    ASSUME NEW s \in IsduFits, NEW od \in Seq(Octets), NEW good, s \in good[0],
           \A n \in 1..Len(od) : \A x \in IsduFits :
              x \in good[n - 1] => OnOctet(x, od[n]) \in good[n]
    PROVE  IsduOnOd(s, od) \in good[Len(od)]
<1>1. PICK at :
        /\ at[0] = s
        /\ \A n \in 1..Len(od) : at[n] = OnOctet(at[n - 1], od[n])
        /\ \A n \in 0..Len(od) : at[n] \in IsduFits
        /\ IsduOnOd(s, od) = at[Len(od)]
  BY IsduWalk
<1>2. Len(od) \in Nat
  OBVIOUS
<1> DEFINE fine == {n \in 0..Len(od) : at[n] \in good[n]}
<1>3. 0 \in fine
  BY <1>1, <1>2
<1>4. ASSUME NEW n \in 1..Len(od), n - 1 \in fine PROVE n \in fine
  <2>1. n \in 0..Len(od) /\ n - 1 \in 0..Len(od)
    BY <1>2
  <2>2. at[n - 1] \in IsduFits /\ at[n - 1] \in good[n - 1]
    BY <1>1, <1>4, <2>1
  <2>3. OnOctet(at[n - 1], od[n]) \in good[n]
    BY <2>2
  <2> QED
    BY <1>1, <2>1, <2>3
<1> HIDE DEF fine
<1>5. \A n \in 0..Len(od) : n \in fine
  BY <1>2, <1>3, <1>4, AllAlong
<1>6. Len(od) \in fine
  BY <1>2, <1>5
<1> QED
  BY <1>1, <1>6 DEF fine
-----------------------------------------------------------------------------
(* Segments of a response.                                                 *)

\* Octets that do not end a wait.
Idles(q) == \A i \in 1..Len(q) : q[i] \in {NoService, Busy}

\* A service that waits for no octets, or is given none that count.
LEMMA OctetsIgnored ==
    ASSUME NEW s \in IsduFits, NEW od \in Seq(Octets),
           \/ s.phase \notin {"wait", "response"} \/ s.done
           \/ (s.phase = "wait" /\ Idles(od))
           \/ od = <<>>
    PROVE  IsduOnOd(s, od) = s
<1> DEFINE good == [n \in 0..Len(od) |-> {s}]
<1>1. Len(od) \in Nat
  OBVIOUS
<1>2. \A n \in 0..Len(od) : good[n] = {s}
  OBVIOUS
<1>3. \A n \in 1..Len(od) : OnOctet(s, od[n]) = s
  BY DEF OnOctet, Idles
<1> HIDE DEF good
<1>4. ASSUME NEW n \in 1..Len(od), NEW x \in IsduFits, x \in good[n - 1]
      PROVE  OnOctet(x, od[n]) \in good[n]
  <2>1. n - 1 \in 0..Len(od) /\ n \in 0..Len(od)
    BY <1>1
  <2>2. x = s /\ good[n] = {s}
    BY <1>2, <1>4, <2>1
  <2> QED
    BY <1>3, <2>2
<1>5. s \in good[0] /\ Len(od) \in 0..Len(od)
  BY <1>1, <1>2
<1>6. IsduOnOd(s, od) \in good[Len(od)]
  BY <1>4, <1>5, Segments
<1> QED
  BY <1>2, <1>5, <1>6

\* What any octets make of a response that is gathered: it goes on, or is over.
\* A response that is over without an IDLE or ABORT is longer than the buffer,
\* and one that is longer than the buffer fails.
Went(s, x) ==
    /\ SameIsdu(s, x)
    /\ \/ /\ Gathering(x) /\ x.flowctrl = s.flowctrl
          /\ Len(s.response) >= 2 =>
                /\ Len(x.response) >= 2 /\ x.response[1] = s.response[1]
                /\ x.response[2] = s.response[2] /\ x.expected_len = s.expected_len
       \/ /\ Over(x)
          /\ Len(s.response) >= 2 =>
                /\ Pending(x) \/ s.expected_len > BufferSize
                /\ s.expected_len > BufferSize => x.error # "none"

LEMMA WentOn ==
    ASSUME NEW s \in IsduFits, NEW x \in IsduFits, Went(s, x), NEW o \in Octets
    PROVE  Went(s, OnOctet(x, o))
<1> DEFINE t == OnOctet(x, o)
           r == x.response
           q == Append(r, o)
           g == Grown(x, o)
<1>1. r \in Seq(Octets) /\ Len(r) \in Nat /\ x.expected_len \in Nat
      /\ s.expected_len \in Nat /\ BufferSize \in Nat
  BY Fields, BufferAssumption
<1>2. CASE Over(x)
  <2>1. t = x
    BY <1>2 DEF Over, OnOctet
  <2> QED
    BY <2>1
<1>3. CASE Gathering(x)
  <2>1. /\ SameIsdu(s, x) /\ x.flowctrl = s.flowctrl /\ ~Pending(x)
        /\ Len(r) >= 1 /\ x.expected_len = DeclaredBy(r)
        /\ Len(s.response) >= 2 =>
              /\ Len(r) >= 2 /\ r[1] = s.response[1]
              /\ r[2] = s.response[2] /\ x.expected_len = s.expected_len
    BY <1>3 DEF Went, Gathering, Over
  <2>2. /\ q \in Seq(Octets) /\ Len(q) = Len(r) + 1
        /\ q[1] = r[1]
        /\ Len(r) >= 2 => q[2] = r[2] /\ DeclaredBy(q) = DeclaredBy(r)
    BY <1>1, <2>1, AppendOctet
  <2> HIDE DEF q
  <2>3. CASE x.expected_len > BufferSize /\ t = Segmentation(x)
    <3>1. Over(t) /\ SameIsdu(x, t) /\ t.error = "segmentation"
      BY <2>1, <2>3, SegmentationEnds
    <3>2. Len(s.response) >= 2 => s.expected_len > BufferSize
      BY <2>1, <2>3
    <3> HIDE DEF t
    <3>3. SameIsdu(s, t)
      BY <2>1, <3>1 DEF SameIsdu
    <3>4. Went(s, t)
      BY <3>1, <3>2, <3>3 DEF Went
    <3> QED
      BY <3>4 DEF t
  <2>4. CASE Len(r) < BufferSize /\ Len(r) + 1 >= DeclaredBy(q) /\ t = DecodeResponse(g)
    <3>1. g \in IsduFits /\ SameIsdu(x, g) /\ ~Pending(g)
      BY <2>1, <2>4, GrownFields DEF Pending
    <3> HIDE DEF g
    <3>2. Over(t) /\ SameIsdu(g, t) /\ Pending(t)
      BY <2>4, <3>1, DecodeEnds
    <3>3. Len(s.response) >= 2 => ~(s.expected_len > BufferSize)
      BY <1>1, <2>1, <2>2, <2>4
    <3> HIDE DEF t
    <3>4. SameIsdu(s, t)
      BY <2>1, <3>1, <3>2 DEF SameIsdu
    <3>5. Went(s, t)
      BY <3>2, <3>3, <3>4 DEF Went
    <3> QED
      BY <3>5 DEF t
  <2>5. CASE Len(r) < BufferSize /\ t = g /\ Gathering(g)
    <3>1. /\ g.response = q /\ g.expected_len = DeclaredBy(q)
          /\ g.flowctrl = x.flowctrl /\ SameIsdu(x, g)
      BY <2>5, GrownFields DEF q
    <3> HIDE DEF g
    <3>2. Len(s.response) >= 2 =>
              /\ Len(g.response) >= 2 /\ g.response[1] = s.response[1]
              /\ g.response[2] = s.response[2] /\ g.expected_len = s.expected_len
      BY <1>1, <2>1, <2>2, <3>1
    <3>3. SameIsdu(s, g)
      BY <2>1, <3>1 DEF SameIsdu
    <3> QED
      BY <2>1, <2>5, <3>1, <3>2, <3>3 DEF Went
  <2> QED
    BY <1>3, <2>3, <2>4, <2>5, NextOctet DEF q
<1> QED
  BY <1>2, <1>3 DEF Went

LEMMA AnySegment ==
    ASSUME NEW s \in IsduFits, Gathering(s), NEW od \in Seq(Octets)
    PROVE  Went(s, IsduOnOd(s, od))
<1> DEFINE good == [n \in 0..Len(od) |-> {x \in IsduFits : Went(s, x)}]
<1>1. Len(od) \in Nat /\ \A n \in 1..Len(od) : od[n] \in Octets
  OBVIOUS
<1>2. \A n \in 0..Len(od) : \A x : x \in good[n] <=> x \in IsduFits /\ Went(s, x)
  OBVIOUS
<1> HIDE DEF good
<1>3. ASSUME NEW n \in 1..Len(od), NEW x \in IsduFits, x \in good[n - 1]
      PROVE  OnOctet(x, od[n]) \in good[n]
  <2>1. n - 1 \in 0..Len(od) /\ n \in 0..Len(od) /\ od[n] \in Octets
    BY <1>1
  <2>2. Went(s, x)
    BY <1>2, <1>3, <2>1
  <2>3. Went(s, OnOctet(x, od[n])) /\ OnOctet(x, od[n]) \in IsduFits
    BY <2>1, <2>2, WentOn, OnOctetFits
  <2> QED
    BY <1>2, <2>1, <2>3
<1>4. Went(s, s)
  BY DEF Went, SameIsdu
<1>5. s \in good[0] /\ Len(od) \in 0..Len(od)
  BY <1>1, <1>2, <1>4
<1>6. IsduOnOd(s, od) \in good[Len(od)]
  BY <1>3, <1>5, Segments
<1> QED
  BY <1>2, <1>5, <1>6

\* The master's octets and the first n of the device's.
Follows(s, S, n) == s.response[1] = S[1] /\ Tracks(s.response, S, n)
Cap(n, S) == IF n <= Len(S) THEN n ELSE Len(S)

\* A response that is still gathered is not the whole stream.
LEMMA NotWhole ==
    ASSUME NEW s, Gathering(s), NEW S, Stream(S)
    PROVE  s.response # S
<1>1. SUFFICES ASSUME s.response = S PROVE FALSE
  OBVIOUS
<1>2. S \in Seq(Octets) /\ Len(S) >= 2 /\ DeclaredBy(S) <= Len(S) /\ Len(S) \in Nat
  BY DEF Stream
<1>3. DeclaredBy(S) \in Nat
  BY <1>2, DeclaredType
<1>4. Len(S) < DeclaredBy(S) \/ Len(S) = 1
  BY <1>1 DEF Gathering
<1> DEFINE m == Len(S)
           k == DeclaredBy(S)
<1>5. m \in Nat /\ k \in Nat /\ m >= 2 /\ k <= m /\ (m < k \/ m = 1)
  BY <1>2, <1>3, <1>4
<1> HIDE DEF m, k
<1> QED
  BY <1>5

LEMMA NextInStream ==
    ASSUME NEW o \in ObsStates, NEW s \in IsduFits, Gathering(s),
           NEW n \in 1..Len(Answered(o)), Follows(s, Answered(o), n), NEW x \in Octets,
           x = IF n < Len(Answered(o)) THEN Answered(o)[n + 1] ELSE {}
    PROVE  \/ /\ Gathering(OnOctet(s, x))
              /\ Follows(OnOctet(s, x), Answered(o), Cap(n + 1, Answered(o)))
           \/ Over(OnOctet(s, x)) /\ Judged(OnOctet(s, x), o)
<1> DEFINE S == Answered(o)
           r == s.response
           q == Append(r, x)
           m == Cap(n + 1, S)
           t == OnOctet(s, x)
           g == Grown(s, x)
<1>1. Stream(S) /\ S \in Seq(Octets) /\ Len(S) \in Nat
  BY AnsweredStream DEF Stream
<1>2. r \in Seq(Octets) /\ Len(r) >= 1 /\ r[1] = S[1] /\ Tracks(r, S, n)
      /\ n \in 1..Len(S) /\ x = IF n < Len(S) THEN S[n + 1] ELSE {}
  BY Fields DEF Gathering, Follows
<1>3. q \in Seq(Octets) /\ q[1] = S[1] /\ Len(q) >= 1
  <2>1. q \in Seq(Octets) /\ Len(q) = Len(r) + 1 /\ q[1] = r[1]
    BY <1>2, AppendOctet
  <2> QED
    BY <1>2, <2>1
<1>4. r # S
  BY <1>1, NotWhole
<1> HIDE DEF S, r
<1>5. m \in 1..Len(S) /\ Tracks(q, S, m)
  <2>1. CASE n < Len(S)
    <3>a. n + 1 <= Len(S) /\ n \in Nat
      BY <1>1, <1>2, <2>1
    <3>b. m = n + 1
      BY <3>a DEF Cap
    <3>1. m = n + 1 /\ n + 1 <= Len(S) /\ n \in Nat /\ x = S[n + 1]
      BY <1>2, <2>1, <3>a, <3>b
    <3>2. Tracks(Append(r, S[n + 1]), S, n + 1)
      BY <1>1, <1>2, <3>1, GotOctet
    <3>3. n + 1 \in 1..Len(S)
      BY <1>1, <1>2, <3>1
    <3> QED
      BY <3>1, <3>2, <3>3
  <2>2. CASE ~(n < Len(S))
    <3>1. n = Len(S) /\ m = Len(S) /\ x = {} /\ m \in 1..Len(S)
      BY <1>1, <1>2, <2>2 DEF Cap
    <3>2. Tracks(r, S, Len(S))
      BY <1>2, <3>1
    <3>3. Tracks(Append(r, {}), S, Len(S))
      BY <1>1, <1>2, <1>4, <3>2, PaddedOctet
    <3> QED
      BY <3>1, <3>3
  <2> QED
    BY <2>1, <2>2
<1> HIDE DEF q, m
<1>6. ~Pending(s)
  BY DEF Gathering
<1>7. CASE t = Segmentation(s)
  <2>1. Over(t) /\ t.error = "segmentation"
    BY <1>6, <1>7, SegmentationEnds
  <2> HIDE DEF t
  <2>2. Over(t) /\ Judged(t, o)
    BY <2>1 DEF Judged
  <2> QED
    BY <2>2 DEF t
<1>8. CASE Len(r) < BufferSize /\ t = DecodeResponse(g)
  <2>1. g \in IsduFits /\ g.response = q /\ ~Pending(g)
    BY <1>6, <1>8, GrownFields DEF Pending, q, r
  <2> HIDE DEF g
  <2>2. Over(t)
    BY <1>8, <2>1, DecodeEnds
  <2>3. Len(g.response) >= 1 /\ g.response[1] = S[1] /\ Tracks(g.response, S, m)
    BY <1>3, <1>5, <2>1
  <2>4. Judged(DecodeResponse(g), o)
    BY <1>5, <2>1, <2>3, DecodedJudged DEF S
  <2> QED
    BY <1>8, <2>2, <2>4
<1>9. CASE Len(r) < BufferSize /\ t = g /\ Gathering(g)
  <2>1. g.response = q
    BY <1>9, GrownFields DEF q, r
  <2> HIDE DEF g
  <2>2. Follows(g, S, m)
    BY <1>3, <1>5, <2>1 DEF Follows
  <2> QED
    BY <1>9, <2>2 DEF S, m
<1> QED
  BY <1>7, <1>8, <1>9, NextOctet DEF r

LEMMA NextSegment ==
    ASSUME NEW o \in ObsStates, NEW s \in IsduFits, Gathering(s),
           NEW from \in Nat, from >= 1, NEW w \in Nat,
           Follows(s, Answered(o), Cap(from, Answered(o)))
    PROVE  LET x == IsduOnOd(s, SegmentOf(Answered(o), from, w))
           IN  \/ Gathering(x) /\ Follows(x, Answered(o), Cap(from + w, Answered(o)))
               \/ Over(x) /\ Judged(x, o)
<1> DEFINE S == Answered(o)
           od == SegmentOf(S, from, w)
           Fine(n, x) == \/ Gathering(x) /\ Follows(x, S, Cap(from + n, S))
                         \/ Over(x) /\ Judged(x, o)
           good == [n \in 0..w |-> {x \in IsduFits : Fine(n, x)}]
<1>1. S \in Seq(Octets) /\ Len(S) \in Nat /\ Len(S) >= 2
  BY AnsweredStream DEF Stream
<1>2. od \in Seq(Octets)
  BY <1>1, PaddingTypes
<1>3. Len(od) = w
      /\ \A i \in 1..w : od[i] = IF from + i <= Len(S) THEN S[from + i] ELSE {}
  BY DEF SegmentOf
<1> HIDE DEF S, od, Fine
<1>4. \A n \in 0..w : \A x : x \in good[n] <=> x \in IsduFits /\ Fine(n, x)
  OBVIOUS
<1> HIDE DEF good
<1>5. ASSUME NEW n \in 1..Len(od), NEW x \in IsduFits, x \in good[n - 1]
      PROVE  OnOctet(x, od[n]) \in good[n]
  <2> DEFINE k == Cap(from + (n - 1), S)
  <2>1. n - 1 \in 0..w /\ n \in 0..w /\ n \in 1..w /\ od[n] \in Octets
    BY <1>2, <1>3
  <2>2. Fine(n - 1, x) /\ OnOctet(x, od[n]) \in IsduFits
    BY <1>4, <1>5, <2>1, OnOctetFits
  <2>3. k \in 1..Len(S) /\ Cap(k + 1, S) = Cap(from + n, S)
        /\ (k < Len(S) => k + 1 = from + n)
        /\ (k < Len(S) <=> from + n <= Len(S))
    BY <1>1, <2>1 DEF Cap
  <2>4. od[n] = IF k < Len(S) THEN S[k + 1] ELSE {}
    BY <1>3, <2>1, <2>3
  <2>5. Fine(n, OnOctet(x, od[n]))
    <3>1. CASE Gathering(x) /\ Follows(x, S, k)
      <4> DEFINE y == od[n]
      <4>1. y \in Octets /\ y = IF k < Len(S) THEN S[k + 1] ELSE {}
        BY <2>1, <2>4
      <4> HIDE DEF y, k
      <4>2. \/ Gathering(OnOctet(x, y)) /\ Follows(OnOctet(x, y), S, Cap(k + 1, S))
            \/ Over(OnOctet(x, y)) /\ Judged(OnOctet(x, y), o)
        BY <2>3, <3>1, <4>1, NextInStream DEF S
      <4> QED
        BY <2>3, <4>2 DEF Fine, y
    <3>2. CASE Over(x) /\ Judged(x, o)
      <4>1. OnOctet(x, od[n]) = x
        BY <3>2 DEF Over, OnOctet
      <4> QED
        BY <3>2, <4>1 DEF Fine
    <3> QED
      BY <2>2, <3>1, <3>2 DEF Fine
  <2> QED
    BY <1>4, <2>1, <2>2, <2>5
<1>6. Fine(0, s)
  <2>1. from + 0 = from
    OBVIOUS
  <2> QED
    BY <2>1 DEF Fine, S
<1>7. s \in good[0] /\ w \in 0..w
  BY <1>4, <1>6
<1>8. IsduOnOd(s, od) \in good[w]
  BY <1>2, <1>3, <1>5, <1>7, Segments
<1>9. Fine(w, IsduOnOd(s, od))
  BY <1>4, <1>7, <1>8
<1> QED
  BY <1>9 DEF Fine, od, S
-----------------------------------------------------------------------------
(* The first segment of a response.                                        *)

\* A response that does not fit the buffer.
Hopeless(S) == DeclaredBy(S) > BufferSize

LEMMA PrefixDeclared ==
    ASSUME NEW S \in Seq(Octets), NEW n \in 2..Len(S)
    PROVE  /\ Len(SubSeq(S, 1, n)) = n
           /\ SubSeq(S, 1, n)[1] = S[1] /\ SubSeq(S, 1, n)[2] = S[2]
           /\ DeclaredBy(SubSeq(S, 1, n)) = DeclaredBy(S)
<1> DEFINE p == SubSeq(S, 1, n)
<1>1. Len(S) \in Nat /\ n \in Nat /\ n >= 2 /\ Len(S) >= 2
  OBVIOUS
<1>2. \A i \in 1..n : S[i] \in Octets
  BY <1>1
<1>3. /\ Len(p) = IF 1 <= n THEN n - 1 + 1 ELSE 0
      /\ \A i \in 1..(n - 1 + 1) : p[i] = S[1 + i - 1]
  BY <1>1, <1>2, SubSeqProperties
<1> HIDE DEF p
<1>4. Len(p) = n /\ p[1] = S[1] /\ p[2] = S[2]
  BY <1>1, <1>3
<1>5. DeclaredBy(p) = DeclaredBy(S)
  BY <1>1, <1>4 DEF DeclaredBy
<1> QED
  BY <1>4, <1>5 DEF p

\* What the first n octets of a stream make of a transport that waits for it.
Began(s, S, n, x) ==
    /\ SameIsdu(s, x)
    /\ \/ /\ Gathering(x) /\ x.flowctrl = 1 /\ n <= Len(S)
          /\ x.response = SubSeq(S, 1, n)
       \/ /\ Over(x) /\ (Pending(x) \/ Hopeless(S))
          /\ Hopeless(S) => x.error # "none"
          /\ \A o \in ObsStates : S = Answered(o) => Judged(x, o)

LEMMA Begins ==
    ASSUME NEW s \in IsduFits, s.phase = "wait", ~s.done, ~Pending(s),
           NEW S, Stream(S)
    PROVE  Began(s, S, 1, OnOctet(s, S[1]))
<1>1. S \in Seq(Octets) /\ Len(S) >= 2 /\ S[1] \notin {NoService, Busy}
      /\ LengthNibble(S[1]) >= 1
  BY DEF Stream
<1>2. S[1] \in Octets
  BY <1>1
<1> DEFINE x == OnOctet(s, S[1])
<1>3. Gathering(x) /\ x.response = <<S[1]>> /\ x.flowctrl = 1 /\ SameIsdu(s, x)
  BY <1>1, <1>2, FirstOctet
<1> HIDE DEF x
<1>4. SubSeq(S, 1, 1) = <<S[1]>>
  <2>1. 0 \in Nat /\ 0 + 1 <= Len(S) /\ 0 + 1 = 1
    BY <1>1
  <2>2. SubSeq(S, 1, 0 + 1) = Append(SubSeq(S, 1, 0), S[0 + 1])
    BY <1>1, <2>1, PrefixNext
  <2>3. SubSeq(S, 1, 0) = <<>> /\ Append(<<>>, S[1]) = <<S[1]>>
    BY SubSeqEmpty
  <2> QED
    BY <2>1, <2>2, <2>3
<1>5. 1 <= Len(S)
  BY <1>1
<1>6. Began(s, S, 1, x)
  BY <1>3, <1>4, <1>5 DEF Began
<1> QED
  BY <1>6 DEF x

LEMMA BeginsOn ==
    ASSUME NEW s \in IsduFits, NEW S, Stream(S), NEW n \in Nat, n >= 1,
           NEW x \in IsduFits, Began(s, S, n, x), NEW y \in Octets,
           n + 1 <= Len(S) => y = S[n + 1]
    PROVE  Began(s, S, n + 1, OnOctet(x, y))
<1> DEFINE t == OnOctet(x, y)
           r == x.response
           g == Grown(x, y)
<1>1. S \in Seq(Octets) /\ Len(S) \in Nat /\ BufferSize \in Nat /\ BufferSize >= 8
      /\ SameIsdu(s, x)
  BY BufferAssumption DEF Stream, Began
<1>2. CASE Over(x)
  <2>1. t = x
    BY <1>2 DEF Over, OnOctet
  <2>2. Began(s, S, n + 1, x)
    BY <1>2 DEF Began, Gathering, Over
  <2> QED
    BY <2>1, <2>2
<1>3. CASE Gathering(x) /\ x.flowctrl = 1 /\ n <= Len(S) /\ r = SubSeq(S, 1, n)
  <2>1. n + 1 <= Len(S)
    <3>1. r # S
      BY <1>3, NotWhole
    <3>2. SubSeq(S, 1, Len(S)) = S
      BY <1>1, SubSeqFull
    <3>3. n # Len(S)
      BY <1>3, <3>1, <3>2
    <3> QED
      BY <1>1, <1>3, <3>3
  <2>2. y = S[n + 1]
    BY <2>1
  <2>3. Append(r, y) = SubSeq(S, 1, n + 1) /\ Len(r) = n
    BY <1>1, <1>3, <2>1, <2>2, PrefixNext
  <2> DEFINE m == n + 1
  <2>4. m \in 2..Len(S) /\ m \in Nat /\ m = n + 1
    BY <1>1, <2>1
  <2>5. Append(r, y) = SubSeq(S, 1, m)
    BY <2>3
  <2> HIDE DEF m
  <2>6. Len(SubSeq(S, 1, m)) = m /\ SubSeq(S, 1, m)[1] = S[1]
        /\ DeclaredBy(SubSeq(S, 1, m)) = DeclaredBy(S)
    BY <1>1, <2>4, PrefixDeclared
  <2>7. ~Pending(x) /\ x.expected_len = DeclaredBy(r)
    BY <1>3 DEF Gathering
  <2>8. DeclaredBy(S) \in Nat
    <3>1. Len(S) >= 1
      BY DEF Stream
    <3> QED
      BY <1>1, <3>1, DeclaredType
  <2>9. CASE Len(r) >= BufferSize /\ x.expected_len > BufferSize /\ t = Segmentation(x)
    <3>1. Over(t) /\ SameIsdu(x, t) /\ t.error = "segmentation"
      BY <2>7, <2>9, SegmentationEnds
    <3>2. n \in 2..Len(S)
      BY <1>1, <1>3, <2>3, <2>9
    <3>3. DeclaredBy(r) = DeclaredBy(S)
      BY <1>1, <1>3, <3>2, PrefixDeclared
    <3>4. Hopeless(S)
      BY <2>7, <2>9, <3>3 DEF Hopeless
    <3> HIDE DEF t
    <3>5. SameIsdu(s, t)
      BY <1>1, <3>1 DEF SameIsdu
    <3>6. \A o : Judged(t, o)
      BY <3>1 DEF Judged
    <3>7. Began(s, S, n + 1, t)
      BY <3>1, <3>4, <3>5, <3>6 DEF Began
    <3> QED
      BY <3>7 DEF t
  <2>10. CASE /\ Len(r) < BufferSize /\ Len(r) + 1 >= DeclaredBy(Append(r, y))
              /\ t = DecodeResponse(g)
    <3>1. g \in IsduFits /\ SameIsdu(x, g) /\ ~Pending(g) /\ g.response = SubSeq(S, 1, m)
      <4>1. /\ g \in IsduFits /\ SameIsdu(x, g) /\ g.response = Append(r, y)
            /\ g.abort_pending = x.abort_pending /\ g.idle_pending = x.idle_pending
        BY <2>10, GrownFields
      <4> HIDE DEF g, r
      <4> QED
        BY <2>5, <2>7, <4>1 DEF Pending
    <3> HIDE DEF g
    <3>2. Over(t) /\ SameIsdu(g, t) /\ Pending(t)
      BY <2>10, <3>1, DecodeEnds
    <3>3. ~Hopeless(S)
      <4> DEFINE a == Len(r)
                 b == DeclaredBy(S)
      <4>1. DeclaredBy(Append(r, y)) = b
        BY <2>5, <2>6
      <4>2. a = n /\ a < BufferSize /\ a + 1 >= b /\ b \in Nat
        BY <2>3, <2>8, <2>10, <4>1
      <4> HIDE DEF a, b
      <4>3. ~(b > BufferSize)
        BY <1>1, <4>2
      <4> QED
        BY <4>3 DEF Hopeless, b
    <3>4. ASSUME NEW o \in ObsStates, S = Answered(o) PROVE Judged(t, o)
      <4>1. m \in 1..Len(S)
        BY <2>4
      <4>2. Len(g.response) >= 1 /\ g.response[1] = S[1]
        BY <2>4, <2>6, <3>1
      <4>3. Tracks(g.response, S, m)
        BY <1>1, <2>4, <3>1, PrefixTracks
      <4>4. Judged(DecodeResponse(g), o)
        BY <3>1, <3>4, <4>1, <4>2, <4>3, DecodedJudged
      <4> QED
        BY <2>10, <4>4
    <3> HIDE DEF t
    <3>5. SameIsdu(s, t)
      BY <1>1, <3>1, <3>2 DEF SameIsdu
    <3>6. Began(s, S, n + 1, t)
      BY <3>2, <3>3, <3>4, <3>5 DEF Began
    <3> QED
      BY <3>6 DEF t
  <2>11. CASE Len(r) < BufferSize /\ t = g /\ Gathering(g)
    <3>1. /\ g.response = SubSeq(S, 1, m) /\ g.flowctrl = x.flowctrl
          /\ SameIsdu(x, g)
      BY <2>5, <2>11, GrownFields
    <3> HIDE DEF g
    <3>2. SameIsdu(s, g)
      BY <1>1, <3>1 DEF SameIsdu
    <3>3. m <= Len(S)
      BY <2>4
    <3>4. Began(s, S, m, g)
      BY <1>3, <2>11, <3>1, <3>2, <3>3 DEF Began
    <3> QED
      BY <2>4, <2>11, <3>4
  <2> QED
    BY <1>3, <2>9, <2>10, <2>11, NextOctet
<1> QED
  BY <1>2, <1>3 DEF Began

LEMMA FirstSegment ==
    ASSUME NEW s \in IsduFits, s.phase = "wait", ~s.done, ~Pending(s),
           NEW S, Stream(S), NEW w \in 1..8
    PROVE  Began(s, S, w, IsduOnOd(s, SegmentOf(S, 0, w)))
<1> DEFINE od == SegmentOf(S, 0, w)
           Fine(n, x) == IF n = 0 THEN x = s ELSE Began(s, S, n, x)
           good == [n \in 0..w |-> {x \in IsduFits : Fine(n, x)}]
<1>1. S \in Seq(Octets) /\ Len(S) \in Nat /\ Len(S) >= 2
  BY DEF Stream
<1>2. od \in Seq(Octets)
  <2>1. 0 \in Nat /\ w \in Nat
    OBVIOUS
  <2> QED
    BY <1>1, <2>1, PaddingTypes, Zenon
<1>3. Len(od) = w
      /\ \A i \in 1..w : i <= Len(S) => od[i] = S[i]
  BY DEF SegmentOf
<1> HIDE DEF od
<1>4. \A n \in 0..w : \A x : x \in good[n] <=> x \in IsduFits /\ Fine(n, x)
  OBVIOUS
<1> HIDE DEF good
<1>5. ASSUME NEW n \in 1..Len(od), NEW x \in IsduFits, x \in good[n - 1]
      PROVE  OnOctet(x, od[n]) \in good[n]
  <2>1. n - 1 \in 0..w /\ n \in 0..w /\ n \in 1..w /\ od[n] \in Octets /\ n # 0
    BY <1>2, <1>3
  <2>2. Fine(n - 1, x) /\ OnOctet(x, od[n]) \in IsduFits
    BY <1>4, <1>5, <2>1, OnOctetFits
  <2>3. Fine(n, OnOctet(x, od[n]))
    <3>1. CASE n = 1
      <4>1. x = s /\ od[n] = S[1]
        BY <1>1, <1>3, <2>1, <2>2, <3>1
      <4> QED
        BY <3>1, <4>1, Begins
    <3>2. CASE n # 1
      <4> DEFINE k == n - 1
                 y == od[n]
      <4>1. k \in Nat /\ k >= 1 /\ k # 0 /\ k + 1 = n
        BY <2>1, <3>2
      <4>2. Began(s, S, k, x)
        BY <2>2, <4>1
      <4>3. y \in Octets /\ (k + 1 <= Len(S) => y = S[k + 1])
        BY <1>3, <2>1, <4>1
      <4> HIDE DEF k, y
      <4>4. Began(s, S, k + 1, OnOctet(x, y))
        BY <4>1, <4>2, <4>3, BeginsOn
      <4> QED
        BY <2>1, <4>1, <4>4 DEF y
    <3> QED
      BY <3>1, <3>2
  <2> HIDE DEF Fine
  <2> QED
    BY <1>4, <2>1, <2>2, <2>3
<1>6. s \in good[0] /\ w \in 0..w /\ w # 0
  BY <1>4
<1>7. IsduOnOd(s, od) \in good[w]
  BY <1>2, <1>3, <1>5, <1>6, Segments
<1>8. Fine(w, IsduOnOd(s, od))
  BY <1>4, <1>6, <1>7
<1> QED
  BY <1>6, <1>8 DEF od

\* A device that has fallen silent answers zeros, as behind the end of a stream.
LEMMA SilentSegment ==
    ASSUME NEW o \in ObsStates, NEW s \in IsduFits, Gathering(s),
           Follows(s, Answered(o), Len(Answered(o))), NEW q \in Seq(Octets),
           \A i \in 1..Len(q) : q[i] = {}
    PROVE  \/ /\ Gathering(IsduOnOd(s, q))
              /\ Follows(IsduOnOd(s, q), Answered(o), Len(Answered(o)))
           \/ Over(IsduOnOd(s, q)) /\ Judged(IsduOnOd(s, q), o)
<1> DEFINE S == Answered(o)
           from == Len(S)
           w == Len(q)
<1>1. S \in Seq(Octets) /\ from \in Nat /\ from >= 1 /\ w \in Nat
  BY AnsweredStream DEF Stream
<1> HIDE DEF S
<1>2. Cap(from, S) = Len(S)
  BY DEF Cap
<1>3. Cap(from + w, S) = Len(S)
  <2>1. CASE w = 0
    BY <1>1, <2>1 DEF Cap
  <2>2. CASE w # 0
    <3>1. ~(from + w <= Len(S))
      BY <1>1, <2>2
    <3> QED
      BY <3>1 DEF Cap
  <2> QED
    BY <2>1, <2>2
<1> DEFINE z == SegmentOf(S, from, w)
<1>4. z = q
  <2>1. z \in Seq(Octets)
    BY <1>1, PaddingTypes
  <2>2. Len(z) = w
    BY <1>1 DEF SegmentOf
  <2>3. \A i \in 1..w : z[i] = {}
    <3>1. \A i \in 1..w : ~(from + i <= Len(S))
      BY <1>1
    <3> QED
      BY <1>1, <3>1 DEF SegmentOf
  <2> HIDE DEF z
  <2> QED
    BY <2>1, <2>2, <2>3, SeqEqual
<1> HIDE DEF from, w, z
<1>5. \/ Gathering(IsduOnOd(s, z)) /\ Follows(IsduOnOd(s, z), S, Cap(from + w, S))
      \/ Over(IsduOnOd(s, z)) /\ Judged(IsduOnOd(s, z), o)
  <2>1. Follows(s, S, Cap(from, S))
    BY <1>2 DEF S
  <2> QED
    BY <1>1, <2>1, NextSegment DEF S, z
<1> QED
  BY <1>3, <1>4, <1>5 DEF S
-----------------------------------------------------------------------------
(* The transport, the device and the line.                                 *)

Headed(s, S) == /\ Len(s.response) >= 2 /\ s.response[1] = S[1]
                /\ s.response[2] = S[2]

\* The first segment of a response is on its way.
First(d, q, w) == /\ d.phase = "answering" /\ q = SegmentOf(d.response, 0, w)
                  /\ d.flow = 1 /\ d.pos = w /\ d.sent = 0

\* No service, or one whose request has not been sent.  A device that still
\* answers has not seen the IDLE of the last service.
Settled(s, d, L, w) ==
    /\ d.phase \in {"idle", "answering"}
    /\ L = 0 /\ d.phase = "answering" /\ ~Pending(s) /\ w >= 3
          => Hopeless(d.response)
    /\ s.phase = "request" => s.flowctrl = Start

Requesting(s, d, o, L) ==
    /\ s.flowctrl \in 0..15
    /\ s.op = "read" =>
          /\ d.phase \in {"receiving", "busy"} => d.request[1] = s.request[1]
          /\ L = 0 /\ d.phase = "answering" => d.response = Answered(o)

Waiting(s, d, o, q, w) ==
    /\ s.flowctrl = Start
    /\ Idles(q) \/ First(d, q, w)
    /\ s.op = "read" =>
          /\ d.phase = "busy" => ServiceNibble(d.request[1]) >= 8
          /\ d.phase = "answering" => \/ d.response = Answered(o)
                                      \/ (w >= 3 /\ Hopeless(d.response))

\* The response that is gathered: in step with the device, cut off from it, or
\* too long for the buffer.
Sync(s, d, o, q, w) ==
    /\ d.phase = "answering" /\ d.response = Answered(o) /\ s.flowctrl = d.flow
    /\ d.pos = d.sent + w
    /\ \/ q = <<>> /\ Follows(s, Answered(o), Cap(d.pos, Answered(o)))
       \/ /\ q = SegmentOf(Answered(o), d.sent, w) /\ d.sent >= 1
          /\ Follows(s, Answered(o), Cap(d.sent, Answered(o)))

Lost(s, d, o, L, q) ==
    /\ Follows(s, Answered(o), Len(Answered(o)))
    /\ \A i \in 1..Len(q) : q[i] = {}
    /\ d.phase = "idle" \/ (L = 1 /\ s.flowctrl = (d.flow + 1) % 16)

Doomed(s) == Len(s.response) >= 2 /\ s.expected_len > BufferSize

Responding(s, d, o, L, q, w) ==
    /\ Gathering(s) /\ s.flowctrl \in 0..15
    /\ d.phase \in {"idle", "answering"}
    /\ L = 0 /\ d.phase = "answering" /\ w >= 3 => Headed(s, d.response)
    /\ s.op = "read" => Sync(s, d, o, q, w) \/ Lost(s, d, o, L, q) \/ Doomed(s)

Ordered(s) ==
    /\ s.op = "none" => s.phase = "none" /\ ~s.done
    /\ s.phase = "none" => s.op = "none" \/ s.done
    /\ s.done => s.phase = "none"
    /\ Pending(s) => s.done
    /\ s.phase = "request" /\ s.op = "read" =>
          s.index \in Objects /\ s.request = ReadRequest(s.index)

\* s: the transport, d: the device, o: the observer, L: the messages lost, q: the
\* octets on their way to the transport, w: their number.
Together(s, d, o, L, q, w) ==
    /\ Ordered(s)
    /\ d.phase = "answering" => Stream(d.response)
    /\ s.op = "read" /\ s.done => Judged(s, o)
    /\ s.phase = "none" \/ (s.phase = "request" /\ s.request_pos = 0)
          => Settled(s, d, L, w)
    /\ s.phase = "request" /\ s.request_pos > 0 => Requesting(s, d, o, L)
    /\ s.phase = "wait" => Waiting(s, d, o, q, w)
    /\ s.phase = "response" => Responding(s, d, o, L, q, w)

Routable == IF EventActive(ev) THEN <<>> ELSE reply.od

LossInv == /\ ~Pending(isdu)
           /\ Together(isdu, dev, obs, spent.losses, Routable, od_len)

LEMMA OnlyTheFields ==
    ASSUME NEW s, NEW d, NEW o, NEW L, NEW q, NEW w, Together(s, d, o, L, q, w),
           NEW e, e.phase = d.phase, e.request = d.request, e.response = d.response,
           e.flow = d.flow, e.pos = d.pos, e.sent = d.sent,
           NEW p, p.made = o.made, p.value = o.value
    PROVE  Together(s, e, p, L, q, w)
<1>1. Answered(p) = Answered(o)
  BY DEF Answered
<1>2. Judged(s, o) => Judged(s, p)
  BY DEF Judged
<1>3. Settled(s, d, L, w) => Settled(s, e, L, w)
  BY DEF Settled
<1>4. Requesting(s, d, o, L) => Requesting(s, e, p, L)
  BY <1>1 DEF Requesting
<1>5. Waiting(s, d, o, q, w) => Waiting(s, e, p, q, w)
  BY <1>1 DEF Waiting, First
<1>6. Responding(s, d, o, L, q, w) => Responding(s, e, p, L, q, w)
  <2>1. Sync(s, d, o, q, w) => Sync(s, e, p, q, w)
    BY <1>1 DEF Sync
  <2>2. Lost(s, d, o, L, q) => Lost(s, e, p, L, q)
    BY <1>1 DEF Lost
  <2> QED
    BY <2>1, <2>2 DEF Responding
<1> QED
  BY <1>2, <1>3, <1>4, <1>5, <1>6 DEF Together

\* A loss that concerns neither the device nor the transport.
LEMMA OneMoreLost ==
    ASSUME NEW s, NEW d, NEW o, NEW q, NEW w, Together(s, d, o, 0, q, w)
    PROVE  Together(s, d, o, 1, q, w)
<1>3. Settled(s, d, 0, w) => Settled(s, d, 1, w)
  BY DEF Settled
<1>4. Requesting(s, d, o, 0) => Requesting(s, d, o, 1)
  BY DEF Requesting
<1>6. Responding(s, d, o, 0, q, w) => Responding(s, d, o, 1, q, w)
  <2>1. Lost(s, d, o, 0, q) => Lost(s, d, o, 1, q)
    BY DEF Lost
  <2> QED
    BY <2>1 DEF Responding
<1> QED
  BY <1>3, <1>4, <1>6 DEF Together

LEMMA Capped ==
    ASSUME NEW S \in Seq(Octets), Len(S) >= 1, NEW n \in Nat, n >= 1
    PROVE  Cap(n, S) \in Nat /\ Cap(n, S) >= 1 /\ Cap(n, S) <= Len(S)
BY DEF Cap

LEMMA FurtherOn ==
    ASSUME NEW o \in ObsStates, NEW s \in IsduFits, NEW n \in Nat, n >= 1,
           Follows(s, Answered(o), Cap(n, Answered(o)))
    PROVE  /\ \A m \in Nat : m >= n => Follows(s, Answered(o), Cap(m, Answered(o)))
           /\ Follows(s, Answered(o), Len(Answered(o)))
<1> DEFINE S == Answered(o)
           a == Cap(n, S)
<1>1. S \in Seq(Octets) /\ Len(S) \in Nat /\ Len(S) >= 1 /\ s.response \in Seq(Octets)
  BY AnsweredStream, Fields DEF Stream
<1>2. a \in Nat /\ a >= 1 /\ a <= Len(S)
  BY <1>1, Capped
<1>3. s.response[1] = S[1] /\ Tracks(s.response, S, a)
  BY DEF Follows
<1>4. ASSUME NEW b \in Nat, a <= b, b <= Len(S) PROVE Follows(s, S, b)
  <2> HIDE DEF a, S
  <2>1. Tracks(s.response, S, b)
    BY <1>1, <1>2, <1>3, <1>4, SkippedOctets
  <2> QED
    BY <1>3, <2>1 DEF Follows
<1>5. ASSUME NEW m \in Nat, m >= n PROVE Follows(s, S, Cap(m, S))
  <2>1. Cap(m, S) \in Nat /\ a <= Cap(m, S) /\ Cap(m, S) <= Len(S)
    BY <1>1, <1>5 DEF Cap
  <2> QED
    BY <1>4, <2>1
<1>6. Follows(s, S, Len(S))
  BY <1>1, <1>2, <1>4
<1> QED
  BY <1>5, <1>6

\* A response in step with the device is cut off from it, or loses a segment.
LEMMA SyncLoses ==
    ASSUME NEW s \in IsduFits, NEW d \in SoundDevices, NEW o \in ObsStates,
           NEW w \in 1..8, NEW q, Sync(s, d, o, q, w)
    PROVE  /\ Sync(s, d, o, <<>>, w)
           /\ d.pos \in Nat /\ d.pos >= 1
           /\ Follows(s, Answered(o), Len(Answered(o)))
<1>1. d.pos \in Nat /\ d.sent \in Nat /\ d.pos = d.sent + w
  BY DeviceFields DEF Sync
<1>2. d.pos >= 1 /\ d.pos >= d.sent
  BY <1>1
<1>3. Follows(s, Answered(o), Cap(d.pos, Answered(o)))
  <2>1. CASE q = SegmentOf(Answered(o), d.sent, w) /\ d.sent >= 1
             /\ Follows(s, Answered(o), Cap(d.sent, Answered(o)))
    <3> DEFINE a == d.sent
    <3>1. a \in Nat /\ a >= 1 /\ Follows(s, Answered(o), Cap(a, Answered(o)))
      BY <1>1, <2>1
    <3> HIDE DEF a
    <3>2. \A m \in Nat : m >= a => Follows(s, Answered(o), Cap(m, Answered(o)))
      BY <3>1, FurtherOn
    <3> QED
      BY <1>1, <1>2, <3>2 DEF a
  <2> QED
    BY <2>1 DEF Sync
<1>4. Follows(s, Answered(o), Len(Answered(o)))
  <2> DEFINE a == d.pos
  <2>1. a \in Nat /\ a >= 1 /\ Follows(s, Answered(o), Cap(a, Answered(o)))
    BY <1>1, <1>2, <1>3
  <2> HIDE DEF a
  <2> QED
    BY <2>1, FurtherOn
<1> QED
  BY <1>1, <1>2, <1>3, <1>4 DEF Sync

\* The octets on their way are dropped (iolink_master_route_od while an event
\* service is active).
LEMMA DroppedTogether ==
    ASSUME NEW s \in IsduFits, NEW d \in SoundDevices, NEW o \in ObsStates,
           NEW w \in 1..8, NEW L, NEW q, Together(s, d, o, L, q, w)
    PROVE  Together(s, d, o, L, <<>>, w)
<1>1. Waiting(s, d, o, q, w) => Waiting(s, d, o, <<>>, w)
  BY DEF Waiting, Idles
<1>2. Responding(s, d, o, L, q, w) => Responding(s, d, o, L, <<>>, w)
  <2>1. Sync(s, d, o, q, w) => Sync(s, d, o, <<>>, w)
    BY SyncLoses
  <2>2. Lost(s, d, o, L, q) => Lost(s, d, o, L, <<>>)
    BY DEF Lost
  <2> QED
    BY <2>1, <2>2 DEF Responding
<1> QED
  BY <1>1, <1>2 DEF Together
-----------------------------------------------------------------------------
(* The octets that arrive are taken.                                       *)

\* A service that is over, whatever was left of the response.
LEMMA OverTogether ==
    ASSUME NEW s, NEW x, NEW d, NEW o, NEW L, NEW w, Ordered(s), s.op # "none",
           SameIsdu(s, x), Over(x), d.phase \in {"idle", "answering"},
           d.phase = "answering" => Stream(d.response),
           L = 0 /\ d.phase = "answering" /\ w >= 3 => Pending(x) \/ Hopeless(d.response),
           x.op = "read" => Judged(x, o)
    PROVE  Together(x, d, o, L, <<>>, w)
<1>1. x.op # "none" /\ x.phase = "none" /\ x.done
  BY DEF SameIsdu, Over
<1>2. Ordered(x)
  BY <1>1 DEF Ordered
<1>3. Settled(x, d, L, w)
  BY <1>1 DEF Settled
<1> QED
  BY <1>1, <1>2, <1>3 DEF Together

LEMMA GatheringTogether ==
    ASSUME NEW s, NEW x, NEW d, NEW o, NEW L, NEW w, Ordered(s), s.op # "none",
           SameIsdu(s, x), Gathering(x),
           d.phase = "answering" => Stream(d.response),
           Responding(x, d, o, L, <<>>, w)
    PROVE  Together(x, d, o, L, <<>>, w)
<1>1. x.op # "none" /\ x.phase = "response" /\ ~x.done /\ ~Pending(x)
  BY DEF SameIsdu, Gathering
<1>2. Ordered(x)
  BY <1>1 DEF Ordered
<1> QED
  BY <1>1, <1>2 DEF Together

LEMMA WaitRouted ==
    ASSUME NEW s \in IsduFits, NEW d \in SoundDevices, NEW o \in ObsStates,
           NEW w \in 1..8, NEW L, NEW q \in Seq(Octets), ~Pending(s),
           Together(s, d, o, L, q, w), s.phase = "wait"
    PROVE  LET x == IsduOnOd(s, q)
           IN  Together(x, d, o, L, <<>>, w) /\ ~(x.abort_pending /\ x.idle_pending)
<1> DEFINE x == IsduOnOd(s, q)
           S == d.response
<1>1. /\ Ordered(s) /\ Waiting(s, d, o, q, w)
      /\ d.phase = "answering" => Stream(S)
  BY DEF Together
<1>2. s.op # "none" /\ ~s.done
  BY <1>1 DEF Ordered
<1>3. CASE Idles(q)
  <2>1. x = s
    BY <1>3, OctetsIgnored
  <2>2. Together(s, d, o, L, <<>>, w)
    BY DroppedTogether
  <2> QED
    BY <2>1, <2>2 DEF Pending
<1>4. CASE First(d, q, w)
  <2>1. /\ d.phase = "answering" /\ q = SegmentOf(S, 0, w) /\ d.flow = 1
        /\ d.pos = w /\ d.sent = 0 /\ Stream(S)
    BY <1>1, <1>4 DEF First
  <2>2. Began(s, S, w, x)
    BY <1>2, <2>1, FirstSegment
  <2>3. s.op = "read" => S = Answered(o) \/ (w >= 3 /\ Hopeless(S))
    BY <1>1, <2>1 DEF Waiting
  <2>4. S \in Seq(Octets) /\ Len(S) \in Nat /\ Len(S) >= 2 /\ w \in Nat
    BY <2>1 DEF Stream
  <2>5. SameIsdu(s, x)
    BY <2>2 DEF Began
  <2>6. x.op = s.op
    BY <2>5 DEF SameIsdu
  <2> HIDE DEF x
  <2>7. CASE Gathering(x) /\ x.flowctrl = 1 /\ w <= Len(S) /\ x.response = SubSeq(S, 1, w)
    <3>1. w >= 2 => /\ Len(x.response) >= 2 /\ x.response[1] = S[1]
                    /\ x.response[2] = S[2] /\ x.expected_len = DeclaredBy(S)
      <4>1. SUFFICES ASSUME w >= 2
                     PROVE  /\ Len(x.response) >= 2 /\ x.response[1] = S[1]
                            /\ x.response[2] = S[2] /\ x.expected_len = DeclaredBy(S)
        OBVIOUS
      <4>2. w \in 2..Len(S)
        BY <2>4, <2>7, <4>1
      <4> HIDE DEF S
      <4>3. /\ Len(SubSeq(S, 1, w)) = w
            /\ SubSeq(S, 1, w)[1] = S[1] /\ SubSeq(S, 1, w)[2] = S[2]
            /\ DeclaredBy(SubSeq(S, 1, w)) = DeclaredBy(S)
        BY <2>4, <4>2, PrefixDeclared
      <4>4. x.expected_len = DeclaredBy(x.response)
        BY <2>7 DEF Gathering
      <4> QED
        BY <2>7, <4>1, <4>3, <4>4
    <3>2. w >= 3 => Headed(x, S)
      BY <3>1 DEF Headed
    <3>3. ASSUME S = Answered(o) PROVE Sync(x, d, o, <<>>, w)
      <4>1. Cap(w, S) = w
        BY <2>7 DEF Cap
      <4>2. Tracks(x.response, S, w)
        BY <2>4, <2>7, PrefixTracks
      <4>3. x.response[1] = S[1]
        <5>1. CASE w >= 2
          BY <3>1, <5>1
        <5>2. CASE w = 1
          <6>1. \A i \in 1..1 : S[i] \in Octets
            BY <2>4
          <6>2. SubSeq(S, 1, 1)[1] = S[1 + 1 - 1]
            BY <6>1, SubSeqProperties
          <6> QED
            BY <2>7, <5>2, <6>2
        <5> QED
          BY <5>1, <5>2
      <4>4. Follows(x, S, Cap(d.pos, S))
        BY <2>1, <4>1, <4>2, <4>3 DEF Follows
      <4>5. d.pos = d.sent + w /\ x.flowctrl = d.flow
        BY <2>1, <2>7
      <4> QED
        BY <2>1, <3>3, <4>4, <4>5 DEF Sync
    <3>4. ASSUME w >= 3, Hopeless(S) PROVE Doomed(x)
      BY <3>1, <3>4 DEF Doomed, Hopeless
    <3>5. Responding(x, d, o, L, <<>>, w)
      <4>1. x.op = "read" => Sync(x, d, o, <<>>, w) \/ Doomed(x)
        BY <2>3, <2>6, <3>3, <3>4
      <4> QED
        BY <2>1, <2>7, <3>2, <4>1 DEF Responding
    <3>6. Together(x, d, o, L, <<>>, w)
      BY <1>1, <1>2, <2>1, <2>5, <2>7, <3>5, GatheringTogether
    <3> QED
      BY <2>7, <3>6 DEF x, Gathering, Pending
  <2>8. CASE /\ Over(x) /\ (Pending(x) \/ Hopeless(S))
             /\ Hopeless(S) => x.error # "none"
             /\ \A p \in ObsStates : S = Answered(p) => Judged(x, p)
    <3>1. x.op = "read" => Judged(x, o)
      BY <2>3, <2>6, <2>8 DEF Judged
    <3>2. Together(x, d, o, L, <<>>, w)
      BY <1>1, <1>2, <2>1, <2>5, <2>8, <3>1, OverTogether
    <3> QED
      BY <2>8, <3>2 DEF x, Over
  <2> QED
    BY <2>2, <2>7, <2>8 DEF Began
<1> QED
  BY <1>1, <1>3, <1>4 DEF Waiting

LEMMA ResponseRouted ==
    ASSUME NEW s \in IsduFits, NEW d \in SoundDevices, NEW o \in ObsStates,
           NEW w \in 1..8, NEW L, NEW q \in Seq(Octets), ~Pending(s),
           Together(s, d, o, L, q, w), s.phase = "response"
    PROVE  LET x == IsduOnOd(s, q)
           IN  Together(x, d, o, L, <<>>, w) /\ ~(x.abort_pending /\ x.idle_pending)
<1> DEFINE x == IsduOnOd(s, q)
           S == Answered(o)
<1>1. /\ Ordered(s) /\ Responding(s, d, o, L, q, w)
      /\ d.phase = "answering" => Stream(d.response)
  BY DEF Together
<1>2. s.op # "none" /\ ~s.done
  BY <1>1 DEF Ordered
<1>3. /\ Gathering(s) /\ s.flowctrl \in 0..15 /\ d.phase \in {"idle", "answering"}
      /\ L = 0 /\ d.phase = "answering" /\ w >= 3 => Headed(s, d.response)
      /\ s.op = "read" => Sync(s, d, o, q, w) \/ Lost(s, d, o, L, q) \/ Doomed(s)
  BY <1>1 DEF Responding
<1>4. Went(s, x)
  BY <1>3, AnySegment
<1>5. SameIsdu(s, x)
  BY <1>4 DEF Went
<1>6. x.op = s.op
  BY <1>5 DEF SameIsdu
\* In step, one segment further.
<1>7. ASSUME Sync(s, d, o, q, w)
      PROVE  \/ Gathering(x) /\ (x.flowctrl = s.flowctrl => Sync(x, d, o, <<>>, w))
             \/ Over(x) /\ Judged(x, o)
  <2>1. /\ d.phase = "answering" /\ d.response = S /\ s.flowctrl = d.flow
        /\ d.pos = d.sent + w /\ d.sent \in Nat
    BY <1>7, DeviceFields DEF Sync
  <2>2. CASE q = <<>>
    <3>1. x = s
      BY <2>2, OctetsIgnored
    <3>2. Sync(s, d, o, <<>>, w)
      BY <1>7, SyncLoses
    <3> QED
      BY <1>3, <3>1, <3>2
  <2>3. CASE q = SegmentOf(S, d.sent, w) /\ d.sent >= 1 /\ Follows(s, S, Cap(d.sent, S))
    <3> DEFINE a == d.sent
    <3>1. a \in Nat /\ a >= 1 /\ q = SegmentOf(S, a, w) /\ Follows(s, S, Cap(a, S))
          /\ w \in Nat
      BY <2>1, <2>3
    <3> HIDE DEF a
    <3>2. \/ Gathering(x) /\ Follows(x, S, Cap(a + w, S))
          \/ Over(x) /\ Judged(x, o)
      BY <1>3, <3>1, NextSegment
    <3>3. Follows(x, S, Cap(a + w, S)) /\ x.flowctrl = s.flowctrl
            => Sync(x, d, o, <<>>, w)
      BY <2>1 DEF Sync, a
    <3> QED
      BY <3>2, <3>3
  <2> QED
    BY <1>7, <2>2, <2>3 DEF Sync
<1>8. ASSUME Lost(s, d, o, L, q)
      PROVE  \/ Gathering(x) /\ (x.flowctrl = s.flowctrl => Lost(x, d, o, L, <<>>))
             \/ Over(x) /\ Judged(x, o)
  <2>1. /\ Follows(s, S, Len(S)) /\ \A i \in 1..Len(q) : q[i] = {}
        /\ d.phase = "idle" \/ (L = 1 /\ s.flowctrl = (d.flow + 1) % 16)
    BY <1>8 DEF Lost
  <2>2. \/ Gathering(x) /\ Follows(x, S, Len(S))
        \/ Over(x) /\ Judged(x, o)
    BY <1>3, <2>1, SilentSegment
  <2>3. Follows(x, S, Len(S)) /\ x.flowctrl = s.flowctrl => Lost(x, d, o, L, <<>>)
    BY <2>1 DEF Lost
  <2> QED
    BY <2>2, <2>3
<1> HIDE DEF x
<1>9. CASE /\ Gathering(x) /\ x.flowctrl = s.flowctrl
           /\ Len(s.response) >= 2 =>
                 /\ Len(x.response) >= 2 /\ x.response[1] = s.response[1]
                 /\ x.response[2] = s.response[2] /\ x.expected_len = s.expected_len
  <2>1. ~Over(x)
    BY <1>9 DEF Over, Gathering
  <2>2. L = 0 /\ d.phase = "answering" /\ w >= 3 => Headed(x, d.response)
    BY <1>3, <1>9 DEF Headed
  <2>3. Doomed(s) => Doomed(x)
    BY <1>9 DEF Doomed
  <2>4. x.op = "read" => \/ Sync(x, d, o, <<>>, w) \/ Lost(x, d, o, L, <<>>)
                         \/ Doomed(x)
    BY <1>3, <1>6, <1>7, <1>8, <1>9, <2>1, <2>3
  <2>5. Responding(x, d, o, L, <<>>, w)
    BY <1>3, <1>9, <2>2, <2>4 DEF Responding
  <2>6. Together(x, d, o, L, <<>>, w)
    BY <1>1, <1>2, <1>5, <1>9, <2>5, GatheringTogether
  <2> QED
    BY <1>9, <2>6 DEF x, Gathering, Pending
<1>10. CASE /\ Over(x)
            /\ Len(s.response) >= 2 =>
                  /\ Pending(x) \/ s.expected_len > BufferSize
                  /\ s.expected_len > BufferSize => x.error # "none"
  <2>1. ~Gathering(x)
    BY <1>10 DEF Over, Gathering
  <2>2. Doomed(s) => Judged(x, o)
    BY <1>10 DEF Doomed, Judged
  <2>3. x.op = "read" => Judged(x, o)
    BY <1>3, <1>6, <1>7, <1>8, <2>1, <2>2
  <2>4. L = 0 /\ d.phase = "answering" /\ w >= 3 => Pending(x) \/ Hopeless(d.response)
    <3>1. SUFFICES ASSUME L = 0, d.phase = "answering", w >= 3, ~Pending(x)
                   PROVE  Hopeless(d.response)
      OBVIOUS
    <3>2. Headed(s, d.response) /\ Stream(d.response)
      BY <1>1, <1>3, <3>1
    <3>3. /\ s.expected_len > BufferSize /\ s.expected_len = DeclaredBy(s.response)
          /\ Len(s.response) >= 2 /\ Len(d.response) >= 2
          /\ s.response[1] = d.response[1] /\ s.response[2] = d.response[2]
      BY <1>3, <1>10, <3>1, <3>2 DEF Headed, Stream, Gathering
    <3>4. DeclaredBy(s.response) = DeclaredBy(d.response)
      BY <3>3 DEF DeclaredBy
    <3> QED
      BY <3>3, <3>4 DEF Hopeless
  <2>5. Together(x, d, o, L, <<>>, w)
    BY <1>1, <1>2, <1>3, <1>5, <1>10, <2>3, <2>4, OverTogether
  <2> QED
    BY <1>10, <2>5 DEF x, Over
<1> QED
  BY <1>4, <1>9, <1>10 DEF Went

LEMMA RoutedTogether ==
    ASSUME NEW s \in IsduFits, NEW d \in SoundDevices, NEW o \in ObsStates,
           NEW w \in 1..8, NEW L, NEW q \in Seq(Octets), ~Pending(s),
           Together(s, d, o, L, q, w)
    PROVE  LET x == IsduOnOd(s, q)
           IN  Together(x, d, o, L, <<>>, w) /\ ~(x.abort_pending /\ x.idle_pending)
<1>1. s.phase \in {"none", "request", "wait", "response"}
  BY DEF IsduFits, IsduStates
<1>2. CASE s.phase \in {"none", "request"}
  <2>1. IsduOnOd(s, q) = s
    BY <1>2, OctetsIgnored
  <2>2. Together(s, d, o, L, <<>>, w)
    BY DroppedTogether
  <2> QED
    BY <2>1, <2>2 DEF Pending
<1> QED
  BY <1>1, <1>2, WaitRouted, ResponseRouted
-----------------------------------------------------------------------------
(* A frame of the ISDU channel is sent, and reaches the device or does not. *)

LEMMA RestingFields ==
    ASSUME NEW d \in SoundDevices
    PROVE  Resting(d).phase = "idle" /\ Resting(d).flow = 0
BY DEF Resting, SoundDevices, Devices

\* What the device makes of a read.
LEMMA DeviceReadCases ==
    ASSUME NEW d \in SoundDevices, NEW ctrl \in 0..31, NEW w \in 1..8
    PROVE  LET h == DeviceRead(d, ctrl, w)
           IN  \/ /\ d.phase = "busy" /\ h.dev = d
                  /\ h.od = <<Busy>> \o Zeros(w - 1)
               \/ /\ d.phase = "answering" /\ h.dev.phase = "answering"
                  /\ h.dev.response = d.response
                  /\ h.od = SegmentOf(d.response, h.dev.sent, w)
                  /\ h.dev.pos = h.dev.sent + w
                  /\ \/ ctrl = Start /\ h.dev.sent = 0 /\ h.dev.flow = 1
                     \/ /\ ctrl = d.flow /\ h.dev.sent = d.pos
                        /\ h.dev.flow = (ctrl + 1) % 16
                     \/ (ctrl + 1) % 16 = d.flow /\ ctrl # d.flow
               \/ /\ h.dev = Resting(d) /\ h.od = Zeros(w)
                  /\ ~(d.phase = "answering" /\ ctrl = d.flow)
<1> DEFINE h == DeviceRead(d, ctrl, w)
           c == IF ctrl = Start THEN 1 ELSE (ctrl + 1) % CountMod
           give(from) == [dev |-> [d EXCEPT !.sent = from, !.pos = from + w, !.flow = c],
                          od |-> SegmentOf(d.response, from, w)]
<1>1. d \in Devices /\ d.pos \in Nat /\ d.sent \in Nat /\ d.flow \in 0..15
  BY DeviceFields
<1>2. h = IF ctrl = Start /\ d.phase = "busy"
          THEN [dev |-> d, od |-> <<Busy>> \o Zeros(w - 1)]
          ELSE IF ctrl = Start /\ d.phase = "answering" THEN give(0)
          ELSE IF d.phase = "answering" /\ ctrl = d.flow THEN give(d.pos)
          ELSE IF /\ d.phase = "answering" /\ ctrl \in 0..(CountMod - 1)
                  /\ (ctrl + 1) % CountMod = d.flow
          THEN give(d.sent)
          ELSE [dev |-> Resting(d), od |-> Zeros(w)]
  BY DEF DeviceRead
<1>3. ASSUME NEW from
      PROVE  /\ give(from).dev.phase = d.phase /\ give(from).dev.response = d.response
             /\ give(from).dev.sent = from /\ give(from).dev.pos = from + w
             /\ give(from).dev.flow = c
             /\ give(from).od = SegmentOf(d.response, from, w)
  BY <1>1 DEF Devices
<1> HIDE DEF h, give
<1>4. ctrl = d.flow => ctrl # Start
  BY <1>1 DEF Start
<1>5. CASE ctrl = Start /\ d.phase = "busy"
  BY <1>2, <1>5 DEF h
<1>6. CASE ctrl = Start /\ d.phase = "answering"
  <2>1. h = give(0) /\ c = 1
    BY <1>2, <1>6
  <2> HIDE DEF c
  <2> QED
    BY <1>3, <1>6, <2>1 DEF h
<1>7. CASE ctrl # Start /\ d.phase = "answering" /\ ctrl = d.flow
  <2>1. h = give(d.pos) /\ c = (ctrl + 1) % 16
    BY <1>2, <1>7 DEF CountMod
  <2> HIDE DEF c
  <2> QED
    BY <1>3, <1>7, <2>1 DEF h
<1>8. CASE /\ ctrl # Start /\ d.phase = "answering" /\ ctrl # d.flow
           /\ ctrl \in 0..(CountMod - 1) /\ (ctrl + 1) % CountMod = d.flow
  <2>1. h = give(d.sent) /\ (ctrl + 1) % 16 = d.flow
    BY <1>2, <1>8 DEF CountMod
  <2> HIDE DEF c
  <2> QED
    BY <1>3, <1>8, <2>1 DEF h
<1>9. CASE /\ ~(ctrl = Start /\ d.phase = "busy")
           /\ ~(ctrl = Start /\ d.phase = "answering")
           /\ ~(d.phase = "answering" /\ ctrl = d.flow)
           /\ ~(/\ d.phase = "answering" /\ ctrl \in 0..(CountMod - 1)
                /\ (ctrl + 1) % CountMod = d.flow)
  <2>1. h = [dev |-> Resting(d), od |-> Zeros(w)]
    BY <1>2, <1>9
  <2> QED
    BY <1>9, <2>1 DEF h
<1> QED
  BY <1>4, <1>5, <1>6, <1>7, <1>8, <1>9

LEMMA ReceivedFirst ==
    ASSUME NEW d \in SoundDevices, d.phase = "receiving", d.request # <<>>
    PROVE  /\ Received(d).phase \in {"receiving", "busy", "idle"}
           /\ Received(d).phase # "idle" => Received(d).request[1] = d.request[1]
<1> DEFINE q == d.request
           n == DeclaredBy(q)
           whole == SubSeq(q, 1, n)
           b == [d EXCEPT !.phase = "busy", !.request = whole]
<1>1. q \in Seq(Octets) /\ Len(q) \in Nat /\ Len(q) >= 1 /\ d \in Devices
  BY DeviceFields
<1>2. Received(d) = IF n = 0 \/ Len(q) < n THEN d
                    ELSE IF Chkpdu(whole) # {} THEN Resting(d)
                    ELSE b
  BY DEF Received
<1>3. n \in Nat
  BY <1>1, DeclaredType
<1>4. b.phase = "busy" /\ b.request = whole
  BY <1>1 DEF Devices
<1> HIDE DEF q, n
<1>5. ASSUME ~(n = 0 \/ Len(q) < n) PROVE whole[1] = q[1]
  <2>1. \A i \in 1..n : q[i] \in Octets
    BY <1>1, <1>3, <1>5
  <2>2. \A i \in 1..(n - 1 + 1) : whole[i] = q[1 + i - 1]
    BY <1>3, <2>1, SubSeqProperties
  <2> HIDE DEF whole
  <2>3. 1 \in 1..(n - 1 + 1) /\ 1 + 1 - 1 = 1
    BY <1>3, <1>5
  <2> QED
    BY <2>2, <2>3
<1> HIDE DEF whole, b
<1>6. CASE n = 0 \/ Len(q) < n
  BY <1>2, <1>6
<1>7. CASE ~(n = 0 \/ Len(q) < n) /\ Chkpdu(whole) # {}
  BY <1>2, <1>7, RestingFields
<1>8. CASE ~(n = 0 \/ Len(q) < n) /\ ~(Chkpdu(whole) # {})
  BY <1>2, <1>4, <1>5, <1>8 DEF q
<1> QED
  BY <1>6, <1>7, <1>8

\* What the device makes of a write.
LEMMA DeviceWriteCases ==
    ASSUME NEW d \in SoundDevices, NEW ctrl \in 0..31, NEW od \in Seq(Octets), od # <<>>
    PROVE  LET e == DeviceWrite(d, ctrl, od)
           IN  /\ e.phase \in {"receiving", "busy", "idle"}
               /\ e.phase # "idle" /\ ctrl = Start => e.request[1] = od[1]
               /\ e.phase # "idle" /\ ctrl # Start =>
                     d.phase = "receiving" /\ e.request[1] = d.request[1]
<1> DEFINE e == DeviceWrite(d, ctrl, od)
           z == Resting(d)
           x == [z EXCEPT !.phase = "receiving", !.request = od, !.flow = 1]
           q == d.request \o od
           c == (d.flow + 1) % CountMod
           y == [d EXCEPT !.request = q, !.flow = c]
<1>1. d \in Devices /\ d.request \in Seq(Octets) /\ d.flow \in 0..15
      /\ (d.phase \in {"receiving", "busy"} => d.request # <<>>)
  BY DeviceFields DEF SoundDevices
<1>2. x \in SoundDevices /\ x.phase = "receiving" /\ x.request = od
  <2>1. 1 \in 0..(CountMod - 1)
    BY DEF CountMod
  <2>2. z \in SoundDevices
    BY RestingSound
  <2> HIDE DEF z
  <2> QED
    BY <2>1, <2>2 DEF SoundDevices, Devices
<1>3. ASSUME d.phase = "receiving"
      PROVE  /\ y \in SoundDevices /\ y.phase = "receiving" /\ y.request # <<>>
             /\ y.request[1] = d.request[1]
  <2> DEFINE a == d.request
  <2>1. a \in Seq(Octets) /\ a # <<>> /\ q = a \o od
    BY <1>1, <1>3
  <2>2. c \in 0..(CountMod - 1)
    <3>1. \A k \in 0..15 : (k + 1) % CountMod \in 0..(CountMod - 1)
      BY DEF CountMod
    <3> QED
      BY <1>1, <3>1, Zenon
  <2>3. q \in Seq(Octets) /\ q # <<>> /\ q[1] = a[1]
    <3> HIDE DEF a, q
    <3>1. /\ a \o od \in Seq(Octets) /\ Len(a \o od) = Len(a) + Len(od)
          /\ \A i \in 1..(Len(a) + Len(od)) :
                (a \o od)[i] = IF i <= Len(a) THEN a[i] ELSE od[i - Len(a)]
      BY <2>1, ConcatProperties
    <3>2. Len(a) >= 1 /\ Len(a) \in Nat /\ Len(od) \in Nat
      BY <2>1
    <3>3. q \in Seq(Octets) /\ Len(q) = Len(a) + Len(od)
          /\ \A i \in 1..(Len(a) + Len(od)) :
                q[i] = IF i <= Len(a) THEN a[i] ELSE od[i - Len(a)]
      BY <2>1, <3>1
    <3>4. Len(q) >= 1 /\ q[1] = a[1]
      BY <3>2, <3>3
    <3> QED
      BY <3>3, <3>4
  <2> HIDE DEF q, c
  <2>4. y \in SoundDevices /\ y.phase = d.phase /\ y.request = q
    BY <1>1, <2>2, <2>3 DEF SoundDevices, Devices
  <2> HIDE DEF y
  <2> QED
    BY <1>3, <2>3, <2>4
<1>4. e = IF ctrl = Start THEN Received(x)
          ELSE IF d.phase = "receiving" /\ ctrl = d.flow THEN Received(y)
          ELSE z
  BY DEF DeviceWrite
<1>5. z.phase = "idle"
  BY RestingFields
<1> HIDE DEF e, x, y, z
<1>6. CASE ctrl = Start
  <2>1. e = Received(x)
    BY <1>4, <1>6
  <2>2. /\ Received(x).phase \in {"receiving", "busy", "idle"}
        /\ Received(x).phase # "idle" => Received(x).request[1] = x.request[1]
    BY <1>2, ReceivedFirst
  <2> QED
    BY <1>2, <1>6, <2>1, <2>2 DEF e
<1>7. CASE ctrl # Start /\ d.phase = "receiving" /\ ctrl = d.flow
  <2>1. e = Received(y)
    BY <1>4, <1>7
  <2>2. /\ Received(y).phase \in {"receiving", "busy", "idle"}
        /\ Received(y).phase # "idle" => Received(y).request[1] = y.request[1]
    BY <1>3, <1>7, ReceivedFirst
  <2> QED
    BY <1>3, <1>7, <2>1, <2>2 DEF e
<1>8. CASE ctrl # Start /\ ~(d.phase = "receiving" /\ ctrl = d.flow)
  BY <1>4, <1>5, <1>8 DEF e
<1> QED
  BY <1>6, <1>7, <1>8

\* What the transport is after the concluding IDLE, or an ABORT.
LEMMA ConcludedFields ==
    ASSUME NEW s \in IsduFits, NEW w \in 1..8, Ordered(s), Pending(s),
           ~(s.abort_pending /\ s.idle_pending)
    PROVE  LET t == IsduSent(s, w)
           IN  /\ t.op = s.op /\ t.phase = s.phase /\ t.done = s.done
               /\ t.error = s.error /\ t.response = s.response
               /\ t.request = s.request /\ t.index = s.index /\ ~Pending(t)
<1> DEFINE t == IsduSent(s, w)
<1>1. s \in IsduStates /\ s.done /\ s.phase = "none"
  BY Fields DEF Ordered
<1>2. t = IF s.abort_pending THEN [s EXCEPT !.abort_pending = FALSE]
          ELSE [s EXCEPT !.idle_pending = FALSE]
  BY <1>1 DEF IsduSent, Pending
<1>3. /\ t.op = s.op /\ t.phase = s.phase /\ t.done = s.done /\ t.error = s.error
      /\ t.response = s.response /\ t.request = s.request /\ t.index = s.index
      /\ ~Pending(t)
  <2>1. CASE s.abort_pending
    <3>1. t = [s EXCEPT !.abort_pending = FALSE]
      BY <1>2, <2>1
    <3>2. /\ t.op = s.op /\ t.phase = s.phase /\ t.done = s.done /\ t.error = s.error
          /\ t.response = s.response /\ t.request = s.request /\ t.index = s.index
          /\ ~t.abort_pending /\ t.idle_pending = s.idle_pending
      BY <1>1, <3>1 DEF IsduStates
    <3> HIDE DEF t
    <3> QED
      BY <2>1, <3>2 DEF Pending
  <2>2. CASE ~s.abort_pending
    <3>1. t = [s EXCEPT !.idle_pending = FALSE]
      BY <1>2, <2>2
    <3>2. /\ t.op = s.op /\ t.phase = s.phase /\ t.done = s.done /\ t.error = s.error
          /\ t.response = s.response /\ t.request = s.request /\ t.index = s.index
          /\ ~t.idle_pending /\ t.abort_pending = s.abort_pending
      BY <1>1, <3>1 DEF IsduStates
    <3> HIDE DEF t
    <3> QED
      BY <2>2, <3>2 DEF Pending
  <2> QED
    BY <2>1, <2>2
<1> QED
  BY <1>3 DEF t

\* The device rests, if it hears it.
LEMMA ConcludedTogether ==
    ASSUME NEW s \in IsduFits, NEW d \in SoundDevices, NEW o \in ObsStates,
           NEW w \in 1..8, NEW L, Together(s, d, o, L, <<>>, w),
           Pending(s), ~(s.abort_pending /\ s.idle_pending),
           NEW e, NEW M, NEW q,
           e = Resting(d) \/ (e = d /\ M = 1)
    PROVE  Together(IsduSent(s, w), e, o, M, q, w) /\ ~Pending(IsduSent(s, w))
<1> DEFINE t == IsduSent(s, w)
<1>1. s \in IsduStates /\ Ordered(s) /\ s.done /\ s.phase = "none"
  BY Fields DEF Together, Ordered
<1>2. /\ t.op = s.op /\ t.phase = s.phase /\ t.done = s.done /\ t.error = s.error
      /\ t.response = s.response /\ t.request = s.request /\ t.index = s.index
      /\ ~Pending(t)
  BY <1>1, ConcludedFields
<1> HIDE DEF t
<1>3. Ordered(t)
  BY <1>1, <1>2 DEF Ordered
<1>4. t.op = "read" /\ t.done => Judged(t, o)
  BY <1>2 DEF Together, Judged
<1>5. d.phase \in {"idle", "answering"} /\ (d.phase = "answering" => Stream(d.response))
  BY <1>1 DEF Together, Settled
<1>6. Resting(d).phase = "idle"
  BY RestingFields
<1>7. Settled(t, e, M, w) /\ (e.phase = "answering" => Stream(e.response))
  BY <1>1, <1>2, <1>5, <1>6 DEF Settled
<1>8. Together(t, e, o, M, q, w)
  BY <1>1, <1>2, <1>3, <1>4, <1>7 DEF Together
<1> QED
  BY <1>2, <1>8 DEF t

\* What the transport is after a segment.
LEMMA SentFields ==
    ASSUME NEW s \in IsduFits, NEW w \in 1..8, ~Pending(s)
    PROVE  LET t == IsduSent(s, w)
           IN  /\ t.op = s.op /\ t.index = s.index /\ t.request = s.request
               /\ t.response = s.response /\ t.expected_len = s.expected_len
               /\ t.done = s.done /\ t.error = s.error
               /\ t.abort_pending = s.abort_pending /\ t.idle_pending = s.idle_pending
               /\ s.phase = "request" /\ s.request_pos + w >= Len(s.request) =>
                     t.phase = "wait" /\ t.flowctrl = Start
               /\ s.phase = "request" /\ ~(s.request_pos + w >= Len(s.request)) =>
                     /\ t.phase = "request" /\ t.request_pos = s.request_pos + w
                     /\ t.flowctrl = NextCount(s.flowctrl)
               /\ s.phase = "wait" => t.phase = "wait" /\ t.flowctrl = Start
               /\ s.phase = "response" =>
                     t.phase = "response" /\ t.flowctrl = NextCount(s.flowctrl)
<1> DEFINE t == IsduSent(s, w)
           Kept == /\ t.op = s.op /\ t.index = s.index /\ t.request = s.request
                   /\ t.response = s.response /\ t.expected_len = s.expected_len
                   /\ t.done = s.done /\ t.error = s.error
                   /\ t.abort_pending = s.abort_pending
                   /\ t.idle_pending = s.idle_pending
<1>1. s \in IsduStates
  BY Fields
<1>2. t = FillOd(s, w)
  BY DEF IsduSent, Pending
<1>3. s.phase \in {"none", "request", "wait", "response"}
  BY <1>1 DEF IsduStates
<1>4. CASE s.phase = "request" /\ s.request_pos + w >= Len(s.request)
  <2>1. t = [s EXCEPT !.request_pos = Len(s.request), !.phase = "wait",
                      !.flowctrl = Start]
    BY <1>2, <1>4 DEF FillOd
  <2>2. Kept /\ t.phase = "wait" /\ t.flowctrl = Start
    BY <1>1, <2>1 DEF IsduStates
  <2> QED
    BY <1>4, <2>2
<1>5. CASE s.phase = "request" /\ ~(s.request_pos + w >= Len(s.request))
  <2>1. t = [s EXCEPT !.request_pos = s.request_pos + w,
                      !.flowctrl = NextCount(s.flowctrl)]
    BY <1>2, <1>5 DEF FillOd
  <2>2. Kept /\ t.phase = "request" /\ t.request_pos = s.request_pos + w
        /\ t.flowctrl = NextCount(s.flowctrl)
    BY <1>1, <1>5, <2>1 DEF IsduStates
  <2> QED
    BY <1>5, <2>2
<1>6. CASE s.phase = "wait"
  <2>1. t = [s EXCEPT !.flowctrl = Start]
    BY <1>2, <1>6 DEF FillOd
  <2>2. Kept /\ t.phase = "wait" /\ t.flowctrl = Start
    BY <1>1, <1>6, <2>1 DEF IsduStates
  <2> QED
    BY <1>6, <2>2
<1>7. CASE s.phase = "response"
  <2>1. t = [s EXCEPT !.flowctrl = NextCount(s.flowctrl)]
    BY <1>2, <1>7 DEF FillOd
  <2>2. Kept /\ t.phase = "response" /\ t.flowctrl = NextCount(s.flowctrl)
    BY <1>1, <1>7, <2>1 DEF IsduStates
  <2> QED
    BY <1>7, <2>2
<1>8. CASE s.phase = "none"
  <2>1. t = s
    BY <1>2, <1>8 DEF FillOd
  <2> QED
    BY <1>8, <2>1
<1> QED
  BY <1>3, <1>4, <1>5, <1>6, <1>7, <1>8

\* A segment of the request.
LEMMA RequestTogether ==
    ASSUME NEW s \in IsduFits, NEW d \in SoundDevices, NEW o \in ObsStates,
           NEW w \in 1..8, NEW L, Together(s, d, o, L, <<>>, w),
           ~Pending(s), s.phase = "request", NEW e, NEW M,
           \/ e = DeviceWrite(d, s.flowctrl, Segment(s, w))
           \/ (e = d /\ L = 0 /\ M = 1)
    PROVE  Together(IsduSent(s, w), e, o, M, <<>>, w) /\ ~Pending(IsduSent(s, w))
<1> DEFINE t == IsduSent(s, w)
           od == Segment(s, w)
           last == s.request_pos + w >= Len(s.request)
<1>1. /\ Ordered(s) /\ s.op # "none" /\ ~s.done
      /\ s.request_pos = 0 => Settled(s, d, L, w)
      /\ s.request_pos > 0 => Requesting(s, d, o, L)
      /\ d.phase = "answering" => Stream(d.response)
  BY DEF Together, Ordered
<1>2. s.request_pos \in Nat /\ s.request \in Seq(Octets) /\ s.index \in Objects \cup {NoObject}
  BY Fields DEF IsduStates, IsduFits
<1>3. /\ t.op = s.op /\ t.request = s.request /\ t.done = s.done /\ t.index = s.index
      /\ ~Pending(t)
      /\ last => t.phase = "wait" /\ t.flowctrl = Start
      /\ ~last => /\ t.phase = "request" /\ t.request_pos = s.request_pos + w
                  /\ t.flowctrl = NextCount(s.flowctrl)
  <2>1. /\ t.op = s.op /\ t.request = s.request /\ t.done = s.done /\ t.index = s.index
        /\ t.abort_pending = s.abort_pending /\ t.idle_pending = s.idle_pending
        /\ last => t.phase = "wait" /\ t.flowctrl = Start
        /\ ~last => /\ t.phase = "request" /\ t.request_pos = s.request_pos + w
                    /\ t.flowctrl = NextCount(s.flowctrl)
    BY SentFields
  <2> HIDE DEF t
  <2> QED
    BY <2>1 DEF Pending
<1>4. NextCount(s.flowctrl) \in 0..15
  BY Fields, NextCountType
<1>5. od \in Seq(Octets) /\ od # <<>>
  BY PaddingTypes, Zenon
\* The request of a read is told from its first octet.
<1>6. s.op = "read" => /\ Len(s.request) >= 3 /\ ServiceNibble(s.request[1]) >= 8
                       /\ (s.request_pos = 0 => od[1] = s.request[1])
  <2>1. SUFFICES ASSUME s.op = "read"
                 PROVE  /\ Len(s.request) >= 3 /\ ServiceNibble(s.request[1]) >= 8
                        /\ (s.request_pos = 0 => od[1] = s.request[1])
    OBVIOUS
  <2>2. s.index \in Objects /\ s.request = ReadRequest(s.index)
    BY <1>1, <2>1 DEF Ordered
  <2>4. Len(s.request) >= 3 /\ ServiceNibble(s.request[1]) >= 8
    BY <2>2, ReadRequests
  <2>5. od[1] = IF s.request_pos + 1 <= Len(s.request)
                THEN s.request[s.request_pos + 1] ELSE {}
    BY DEF Segment
  <2>6. s.request_pos = 0 => od[1] = s.request[1]
    BY <1>2, <2>4, <2>5
  <2> QED
    BY <2>4, <2>6
<1>7. s.flowctrl \in 0..31
  BY Fields DEF FlowCtrl, CountMod, Start, IdleCtrl, AbortCtrl
<1> HIDE DEF t, od, last
<1>8. Ordered(t)
  BY <1>1, <1>3 DEF Ordered
<1>9. s.request_pos = 0 \/ s.request_pos > 0
  BY <1>2
<1>10. /\ e.phase = "answering" => Stream(e.response)
       /\ t.op = "read" =>
             /\ e.phase \in {"receiving", "busy"} => e.request[1] = t.request[1]
             /\ e.phase = "answering" =>
                   /\ M = 1
                   /\ \/ e.response = Answered(o)
                      \/ (w >= 3 => Hopeless(e.response)) /\ s.request_pos = 0
  <2>1. CASE e = DeviceWrite(d, s.flowctrl, od)
    <3> DEFINE c == s.flowctrl
    <3>1. c \in 0..31 /\ e = DeviceWrite(d, c, od)
      BY <1>7, <2>1
    <3> HIDE DEF c
    <3>2. /\ e.phase \in {"receiving", "busy", "idle"}
          /\ e.phase # "idle" /\ c = Start => e.request[1] = od[1]
          /\ e.phase # "idle" /\ c # Start =>
                d.phase = "receiving" /\ e.request[1] = d.request[1]
      BY <1>5, <3>1, DeviceWriteCases
    <3>3. s.request_pos = 0 => c = Start
      BY <1>1 DEF Settled, c
    <3>4. s.request_pos > 0 => c # Start
      BY <1>1 DEF Requesting, c, Start
    <3>5. s.op = "read" /\ s.request_pos > 0 /\ d.phase = "receiving"
            => d.request[1] = s.request[1]
      BY <1>1 DEF Requesting
    <3> QED
      BY <1>3, <1>6, <1>9, <3>2, <3>3, <3>4, <3>5
  <2>2. CASE e = d /\ L = 0 /\ M = 1
    <3>1. CASE s.request_pos = 0
      <4>1. /\ d.phase \in {"idle", "answering"}
            /\ d.phase = "answering" /\ w >= 3 => Hopeless(d.response)
        BY <1>1, <2>2, <3>1 DEF Settled
      <4> QED
        BY <1>1, <2>2, <3>1, <4>1
    <3>2. CASE s.request_pos > 0
      <4>1. s.op = "read" =>
              /\ d.phase \in {"receiving", "busy"} => d.request[1] = s.request[1]
              /\ d.phase = "answering" => d.response = Answered(o)
        BY <1>1, <2>2, <3>2 DEF Requesting
      <4> QED
        BY <1>1, <1>3, <2>2, <4>1
    <3> QED
      BY <1>9, <3>1, <3>2
  <2> QED
    BY <2>1, <2>2 DEF od
<1>11. CASE last
  <2>1. s.op = "read" /\ s.request_pos = 0 => w >= 3
    BY <1>2, <1>6, <1>11 DEF last
  <2>2. Idles(<<>>)
    BY DEF Idles
  <2>3. t.op = "read" =>
          /\ e.phase = "busy" => ServiceNibble(e.request[1]) >= 8
          /\ e.phase = "answering" => \/ e.response = Answered(o)
                                      \/ (w >= 3 /\ Hopeless(e.response))
    BY <1>3, <1>6, <1>10, <2>1
  <2>4. Waiting(t, e, o, <<>>, w)
    BY <1>3, <1>11, <2>2, <2>3 DEF Waiting
  <2>5. Together(t, e, o, M, <<>>, w)
    BY <1>1, <1>3, <1>8, <1>10, <1>11, <2>4 DEF Together
  <2> QED
    BY <1>3, <2>5 DEF t
<1>12. CASE ~last
  <2>1. t.request_pos > 0 /\ t.flowctrl \in 0..15 /\ t.phase = "request"
    BY <1>2, <1>3, <1>4, <1>12
  <2>2. Requesting(t, e, o, M)
    BY <1>10, <2>1 DEF Requesting
  <2>3. t.request_pos # 0
    BY <1>2, <2>1
  <2>4. Together(t, e, o, M, <<>>, w)
    BY <1>1, <1>3, <1>8, <1>10, <2>1, <2>2, <2>3 DEF Together
  <2> QED
    BY <1>3, <2>4 DEF t
<1> QED
  BY <1>11, <1>12

\* A read with START.
LEMMA StartRead ==
    ASSUME NEW d \in SoundDevices, NEW w \in 1..8
    PROVE  LET h == DeviceRead(d, Start, w)
           IN  \/ /\ d.phase = "busy" /\ h.dev = d
                  /\ h.od = <<Busy>> \o Zeros(w - 1)
               \/ /\ d.phase = "answering" /\ h.dev.phase = "answering"
                  /\ h.dev.response = d.response
                  /\ h.od = SegmentOf(d.response, h.dev.sent, w)
                  /\ h.dev.pos = h.dev.sent + w
                  /\ h.dev.sent = 0 /\ h.dev.flow = 1
               \/ h.dev = Resting(d) /\ h.od = Zeros(w)
<1> DEFINE f == [d EXCEPT !.sent = 0, !.pos = 0 + w, !.flow = 1]
           h == DeviceRead(d, Start, w)
<1>1. h = IF d.phase = "busy"
          THEN [dev |-> d, od |-> <<Busy>> \o Zeros(w - 1)]
          ELSE IF d.phase = "answering"
          THEN [dev |-> f, od |-> SegmentOf(d.response, 0, w)]
          ELSE [dev |-> Resting(d), od |-> Zeros(w)]
  BY DEF DeviceRead
<1>2. /\ f.phase = d.phase /\ f.response = d.response /\ f.sent = 0
      /\ f.pos = 0 + w /\ f.flow = 1
  BY DEF SoundDevices, Devices
<1> HIDE DEF f, h
<1> QED
  BY <1>1, <1>2 DEF h

LEMMA BusyIdles ==
    ASSUME NEW w \in 1..8
    PROVE  Idles(<<Busy>> \o Zeros(w - 1)) /\ Idles(Zeros(w))
<1>1. \A n \in Nat : Zeros(n) \in Seq(Octets) /\ Len(Zeros(n)) = n
                     /\ \A i \in 1..n : Zeros(n)[i] = {}
  BY PaddingTypes DEF Zeros
<1>2. w - 1 \in Nat /\ w \in Nat
  OBVIOUS
<1>3. Idles(Zeros(w))
  BY <1>1, <1>2 DEF Idles, NoService
<1> DEFINE z == Zeros(w - 1)
           b == <<Busy>>
           q == b \o z
<1>4. z \in Seq(Octets) /\ \A i \in 1..Len(z) : z[i] = {}
  BY <1>1, <1>2
<1>5. b \in Seq(Octets) /\ Len(b) = 1 /\ b[1] = Busy
  BY DEF Busy, Octets, Bits
<1> HIDE DEF z, b
<1>6. /\ Len(q) = Len(b) + Len(z)
      /\ \A i \in 1..(Len(b) + Len(z)) :
            q[i] = IF i <= Len(b) THEN b[i] ELSE z[i - Len(b)]
  BY <1>4, <1>5, ConcatProperties
<1> HIDE DEF q
<1>7. ASSUME NEW i \in 1..Len(q) PROVE q[i] \in {NoService, Busy}
  <2>1. Len(z) \in Nat /\ i \in 1..(1 + Len(z))
    BY <1>4, <1>5, <1>6
  <2>2. q[i] = IF i <= 1 THEN b[i] ELSE z[i - 1]
    BY <1>5, <1>6, <2>1
  <2>3. CASE i <= 1
    <3>1. i = 1
      BY <2>1, <2>3
    <3> QED
      BY <1>5, <2>2, <3>1
  <2>4. CASE ~(i <= 1)
    <3>1. i - 1 \in 1..Len(z)
      BY <2>1, <2>4
    <3> QED
      BY <1>4, <2>2, <2>4, <3>1 DEF NoService
  <2> QED
    BY <2>3, <2>4
<1>8. Idles(q)
  BY <1>7 DEF Idles
<1> QED
  BY <1>3, <1>8 DEF q, b, z

\* START asks for the response.
LEMMA WaitTogether ==
    ASSUME NEW s \in IsduFits, NEW d \in SoundDevices, NEW o \in ObsStates,
           NEW w \in 1..8, NEW L, Together(s, d, o, L, <<>>, w),
           ~Pending(s), s.phase = "wait", NEW e, NEW M, NEW q,
           \/ /\ e = DeviceRead(d, Start, w).dev
              /\ q = DeviceRead(d, Start, w).od \/ q = <<>>
           \/ e = d /\ q = <<>>
    PROVE  Together(IsduSent(s, w), e, o, M, q, w) /\ ~Pending(IsduSent(s, w))
<1> DEFINE t == IsduSent(s, w)
           h == DeviceRead(d, Start, w)
<1>1. /\ Ordered(s) /\ s.op # "none" /\ ~s.done /\ Waiting(s, d, o, <<>>, w)
      /\ d.phase = "answering" => Stream(d.response)
  BY DEF Together, Ordered
<1>2. /\ t.op = s.op /\ t.request = s.request /\ t.done = s.done /\ t.index = s.index
      /\ ~Pending(t) /\ t.phase = "wait" /\ t.flowctrl = Start
  <2>1. /\ t.op = s.op /\ t.request = s.request /\ t.done = s.done /\ t.index = s.index
        /\ t.abort_pending = s.abort_pending /\ t.idle_pending = s.idle_pending
        /\ t.phase = "wait" /\ t.flowctrl = Start
    BY SentFields
  <2> HIDE DEF t
  <2> QED
    BY <2>1 DEF Pending
<1> HIDE DEF t
<1>3. Ordered(t)
  BY <1>1, <1>2 DEF Ordered
<1>4. \A r : r = <<>> => Idles(r)
  BY DEF Idles
<1>5. s.op = "read" =>
          /\ d.phase = "busy" => ServiceNibble(d.request[1]) >= 8
          /\ d.phase = "answering" => \/ d.response = Answered(o)
                                      \/ (w >= 3 /\ Hopeless(d.response))
  BY <1>1 DEF Waiting
<1>6. /\ Idles(q) \/ First(e, q, w)
      /\ e.phase = "answering" => d.phase = "answering" /\ e.response = d.response
      /\ e.phase = "busy" => d.phase = "busy" /\ e.request = d.request
  <2>1. CASE e = d /\ q = <<>>
    BY <1>4, <2>1
  <2>2. CASE e = h.dev /\ (q = h.od \/ q = <<>>)
    <3>2. \/ /\ d.phase = "busy" /\ h.dev = d
             /\ h.od = <<Busy>> \o Zeros(w - 1)
          \/ /\ d.phase = "answering" /\ h.dev.phase = "answering"
             /\ h.dev.response = d.response
             /\ h.od = SegmentOf(d.response, h.dev.sent, w)
             /\ h.dev.pos = h.dev.sent + w
             /\ h.dev.sent = 0 /\ h.dev.flow = 1
          \/ h.dev = Resting(d) /\ h.od = Zeros(w)
      BY StartRead
    <3> HIDE DEF h
    <3>3. CASE /\ d.phase = "busy" /\ h.dev = d
               /\ h.od = <<Busy>> \o Zeros(w - 1)
      <4>1. Idles(<<Busy>> \o Zeros(w - 1))
        BY BusyIdles
      <4> QED
        BY <1>4, <2>2, <3>3, <4>1
    <3>4. CASE /\ d.phase = "answering" /\ h.dev.phase = "answering"
               /\ h.dev.response = d.response
               /\ h.od = SegmentOf(d.response, h.dev.sent, w)
               /\ h.dev.pos = h.dev.sent + w
               /\ h.dev.sent = 0 /\ h.dev.flow = 1
      <4>1. 0 + w = w
        OBVIOUS
      <4>2. First(e, h.od, w)
        BY <2>2, <3>4, <4>1 DEF First
      <4> QED
        BY <1>4, <2>2, <3>4, <4>2
    <3>5. CASE h.dev = Resting(d) /\ h.od = Zeros(w)
      <4>1. Idles(Zeros(w))
        BY BusyIdles
      <4>2. Resting(d).phase = "idle"
        BY RestingFields
      <4> QED
        BY <1>4, <2>2, <3>5, <4>1, <4>2
    <3> QED
      BY <3>2, <3>3, <3>4, <3>5
  <2> QED
    BY <2>1, <2>2
<1>7. Waiting(t, e, o, q, w)
  BY <1>2, <1>5, <1>6 DEF Waiting
<1>8. Together(t, e, o, M, q, w)
  BY <1>1, <1>2, <1>3, <1>6, <1>7 DEF Together
<1> QED
  BY <1>2, <1>8 DEF t

\* COUNT asks for the next segment of the response.
LEMMA ResponseTogether ==
    ASSUME NEW s \in IsduFits, NEW d \in SoundDevices, NEW o \in ObsStates,
           NEW w \in 1..8, NEW L, Together(s, d, o, L, <<>>, w),
           ~Pending(s), s.phase = "response", NEW e, NEW M, NEW q,
           \/ /\ e = DeviceRead(d, s.flowctrl, w).dev /\ M = L
              /\ q = DeviceRead(d, s.flowctrl, w).od
           \/ /\ e = DeviceRead(d, s.flowctrl, w).dev /\ L = 0 /\ M = 1 /\ q = <<>>
           \/ e = d /\ L = 0 /\ M = 1 /\ q = <<>>
    PROVE  Together(IsduSent(s, w), e, o, M, q, w) /\ ~Pending(IsduSent(s, w))
<1> DEFINE t == IsduSent(s, w)
           c == s.flowctrl
           h == DeviceRead(d, c, w)
           S == Answered(o)
<1>1. /\ Ordered(s) /\ s.op # "none" /\ ~s.done /\ Responding(s, d, o, L, <<>>, w)
      /\ d.phase = "answering" => Stream(d.response)
  BY DEF Together, Ordered
<1>2. /\ Gathering(s) /\ c \in 0..15 /\ d.phase \in {"idle", "answering"}
      /\ L = 0 /\ d.phase = "answering" /\ w >= 3 => Headed(s, d.response)
      /\ s.op = "read" => Sync(s, d, o, <<>>, w) \/ Lost(s, d, o, L, <<>>) \/ Doomed(s)
  BY <1>1 DEF Responding
<1>3. NextCount(c) = (c + 1) % 16 /\ NextCount(c) \in 0..15
  BY <1>2 DEF NextCount, Start, IdleCtrl, CountMod
<1>4. /\ t.op = s.op /\ t.request = s.request /\ t.done = s.done /\ t.index = s.index
      /\ t.response = s.response /\ t.expected_len = s.expected_len
      /\ t.abort_pending = s.abort_pending /\ t.idle_pending = s.idle_pending
      /\ t.phase = "response" /\ t.flowctrl = NextCount(c)
  BY SentFields
<1>5. c \in 0..31 /\ d.flow \in 0..15 /\ c # Start
  BY <1>2, DeviceFields DEF Start
<1>6. \/ /\ d.phase = "answering" /\ h.dev.phase = "answering"
         /\ h.dev.response = d.response
         /\ h.od = SegmentOf(d.response, h.dev.sent, w)
         /\ h.dev.pos = h.dev.sent + w
         /\ \/ c = d.flow /\ h.dev.sent = d.pos /\ h.dev.flow = (c + 1) % 16
            \/ (c + 1) % 16 = d.flow /\ c # d.flow
      \/ /\ h.dev = Resting(d) /\ h.od = Zeros(w)
         /\ ~(d.phase = "answering" /\ c = d.flow)
  <2> HIDE DEF c
  <2> QED
    BY <1>2, <1>5, DeviceReadCases
<1> HIDE DEF t, h, c
<1>7. ~Pending(t) /\ Gathering(t)
  BY <1>2, <1>4 DEF Pending, Gathering
<1>8. Ordered(t)
  BY <1>1, <1>4, <1>7 DEF Ordered
<1>9. /\ e.phase \in {"idle", "answering"}
      /\ e.phase = "answering" => d.phase = "answering" /\ e.response = d.response
      /\ M = 0 => L = 0
  <2>1. Resting(d).phase = "idle"
    BY RestingFields
  <2> QED
    BY <1>2, <1>6, <2>1 DEF h, c
<1>10. M = 0 /\ e.phase = "answering" /\ w >= 3 => Headed(t, e.response)
  BY <1>2, <1>4, <1>9 DEF Headed
<1>11. \A n : Follows(s, S, n) => Follows(t, S, n)
  BY <1>4 DEF Follows
<1>12. \A i \in 1..Len(Zeros(w)) : Zeros(w)[i] = {}
  BY DEF Zeros
<1>13. Resting(d).phase = "idle"
  BY RestingFields
<1>14. ASSUME Sync(s, d, o, <<>>, w)
       PROVE  Sync(t, e, o, q, w) \/ Lost(t, e, o, M, q)
  <2>1. /\ d.phase = "answering" /\ d.response = S /\ c = d.flow
        /\ d.pos \in Nat /\ d.pos >= 1 /\ Follows(s, S, Len(S))
    BY <1>14, SyncLoses DEF Sync, c
  <2>2. Follows(s, S, Cap(d.pos, S))
    <3>1. \/ Follows(s, S, Cap(d.pos, S))
          \/ <<>> = SegmentOf(S, d.sent, w)
      BY <1>14 DEF Sync
    <3>2. Len(SegmentOf(S, d.sent, w)) = w /\ Len(<<>>) = 0
      BY DEF SegmentOf
    <3> QED
      BY <3>1, <3>2
  <2>3. /\ h.dev.phase = "answering" /\ h.dev.response = S
        /\ h.od = SegmentOf(S, h.dev.sent, w) /\ h.dev.pos = h.dev.sent + w
        /\ h.dev.sent = d.pos /\ h.dev.flow = (c + 1) % 16
    BY <1>6, <2>1
  <2>4. CASE e = h.dev /\ q = h.od
    <3>1. Follows(t, S, Cap(e.sent, S)) /\ e.sent >= 1 /\ t.flowctrl = e.flow
      BY <1>3, <1>4, <1>11, <2>1, <2>2, <2>3, <2>4
    <3> QED
      BY <2>3, <2>4, <3>1 DEF Sync
  <2>5. CASE e = h.dev /\ q = <<>>
    <3> DEFINE a == d.pos
               b == a + w
    <3>1. a \in Nat /\ a >= 1 /\ b \in Nat /\ b >= a
      BY <2>1
    <3>2. Follows(s, S, Cap(a, S))
      BY <2>2
    <3>3. e.pos = b
      BY <2>3, <2>5
    <3> HIDE DEF a, b
    <3>4. Follows(s, S, Cap(b, S))
      BY <3>1, <3>2, FurtherOn
    <3>5. Follows(t, S, Cap(e.pos, S)) /\ t.flowctrl = e.flow
      BY <1>3, <1>4, <1>11, <2>3, <2>5, <3>3, <3>4
    <3> QED
      BY <2>3, <2>5, <3>5 DEF Sync
  <2>6. CASE e = d /\ L = 0 /\ M = 1 /\ q = <<>>
    <3>1. t.flowctrl = (e.flow + 1) % 16
      BY <1>3, <1>4, <2>1, <2>6
    <3>2. \A i \in 1..Len(q) : q[i] = {}
      BY <2>6
    <3> QED
      BY <1>11, <2>1, <2>6, <3>1, <3>2 DEF Lost
  <2> QED
    BY <2>4, <2>5, <2>6 DEF h, c
<1>15. ASSUME Lost(s, d, o, L, <<>>) PROVE Lost(t, e, o, M, q)
  <2>1. /\ Follows(s, S, Len(S))
        /\ d.phase = "idle" \/ (L = 1 /\ c = (d.flow + 1) % 16)
    BY <1>15 DEF Lost, c
  <2>2. ~(c = d.flow) \/ d.phase = "idle"
    BY <1>5, <2>1
  <2>3. ~((c + 1) % 16 = d.flow) \/ d.phase = "idle"
    <3>1. \A k \in 0..15 : (k + 1) % 16 = IF k = 15 THEN 0 ELSE k + 1
      OBVIOUS
    <3> DEFINE k == d.flow
    <3>2. k \in 0..15 /\ c \in 0..15
      BY <1>2, <1>5
    <3>3. (c + 1) % 16 = IF c = 15 THEN 0 ELSE c + 1
      BY <3>1, <3>2
    <3>4. (k + 1) % 16 = IF k = 15 THEN 0 ELSE k + 1
      BY <3>1, <3>2
    <3>5. d.phase = "idle" \/ c = IF k = 15 THEN 0 ELSE k + 1
      BY <2>1, <3>4
    <3> HIDE DEF k
    <3>6. c = (IF k = 15 THEN 0 ELSE k + 1)
            => (IF c = 15 THEN 0 ELSE c + 1) # k
      BY <3>2
    <3> QED
      BY <3>3, <3>5, <3>6 DEF k
  <2>4. h.dev = Resting(d) /\ h.od = Zeros(w)
    BY <1>6, <2>2, <2>3
  <2>5. \A i \in 1..Len(q) : q[i] = {}
    BY <1>12, <2>4 DEF h, c
  <2>6. e.phase = "idle"
    BY <1>2, <1>13, <2>1, <2>4 DEF h, c
  <2> QED
    BY <1>11, <2>1, <2>5, <2>6 DEF Lost
<1>16. Doomed(s) => Doomed(t)
  BY <1>4 DEF Doomed
<1>17. t.op = "read" => Sync(t, e, o, q, w) \/ Lost(t, e, o, M, q) \/ Doomed(t)
  BY <1>2, <1>4, <1>14, <1>15, <1>16
<1>18. Responding(t, e, o, M, q, w)
  BY <1>3, <1>4, <1>7, <1>9, <1>10, <1>17 DEF Responding
<1>19. Together(t, e, o, M, q, w)
  BY <1>1, <1>4, <1>8, <1>9, <1>18 DEF Together
<1> QED
  BY <1>7, <1>19 DEF t
-----------------------------------------------------------------------------
(* One lemma per action: one lost message, or lost connection, is survived. *)

LEMMA FrameFields ==
    ASSUME NEW s \in IsduFits, NEW w \in 1..8
    PROVE  LET f == IsduFrame(s, w)
           IN  /\ f.channel = "isdu"
               /\ Pending(s) => f.read /\ f.ctrl \in {AbortCtrl, IdleCtrl}
               /\ ~Pending(s) => f.ctrl = s.flowctrl
               /\ ~Pending(s) /\ s.phase # "request" => f.read
               /\ ~Pending(s) /\ s.phase = "request" => ~f.read /\ f.od = Segment(s, w)
<1> DEFINE f == IsduFrame(s, w)
<1>1. s.abort_pending \in BOOLEAN /\ s.idle_pending \in BOOLEAN
  BY DEF IsduFits, IsduStates
<1>2. f.channel = "isdu"
  BY DEF IsduFrame
<1>3. f.read = (s.abort_pending \/ s.idle_pending \/ s.phase # "request")
  BY DEF IsduFrame
<1>4. f.ctrl = CASE s.abort_pending -> AbortCtrl
                 [] s.idle_pending /\ ~s.abort_pending -> IdleCtrl
                 [] OTHER -> s.flowctrl
  BY DEF IsduFrame
<1>5. f.od = IF s.abort_pending \/ s.idle_pending \/ s.phase # "request"
             THEN <<>> ELSE Segment(s, w)
  BY DEF IsduFrame
<1> HIDE DEF f
<1>6. Pending(s) => f.ctrl \in {AbortCtrl, IdleCtrl}
  BY <1>1, <1>4 DEF Pending
<1>7. ~Pending(s) => f.ctrl = s.flowctrl
  BY <1>1, <1>4 DEF Pending
<1> QED
  BY <1>2, <1>3, <1>5, <1>6, <1>7 DEF f, Pending

\* A read that is no segment of a response ends the service in the device.
LEMMA EndingRead ==
    ASSUME NEW d \in SoundDevices, NEW ctrl \in {AbortCtrl, IdleCtrl}, NEW w
    PROVE  DeviceRead(d, ctrl, w).dev = Resting(d)
<1>1. ctrl # Start /\ ctrl \notin 0..15
  BY DEF AbortCtrl, IdleCtrl, Start
<1>2. d.flow \in 0..15
  BY DeviceFields
<1> QED
  BY <1>1, <1>2 DEF DeviceRead, CountMod

\* A frame of the ISDU channel, whatever becomes of it.
LEMMA SentTogether ==
    ASSUME NEW s \in IsduFits, NEW d \in SoundDevices, NEW o \in ObsStates,
           od_len \in 1..8, NEW L, Together(s, d, o, L, <<>>, od_len),
           ~(s.abort_pending /\ s.idle_pending), IsduActive(s),
           NEW f, f = IsduFrame(s, od_len), NEW lost \in {"none", "request", "reply"},
           NEW M, IF lost = "none" THEN M = L ELSE L = 0 /\ M = 1,
           NEW e, e = IF lost = "request" THEN d ELSE Handle(d, f).dev,
           NEW q, q = IF lost = "none" THEN Handle(d, f).od ELSE <<>>
    PROVE  /\ Together(IsduSent(s, od_len), e, o, M, q, od_len)
           /\ ~Pending(IsduSent(s, od_len))
<1>1. /\ f.channel = "isdu"
      /\ Pending(s) => f.read /\ f.ctrl \in {AbortCtrl, IdleCtrl}
      /\ ~Pending(s) => f.ctrl = s.flowctrl
      /\ ~Pending(s) /\ s.phase # "request" => f.read
      /\ ~Pending(s) /\ s.phase = "request" => ~f.read /\ f.od = Segment(s, od_len)
  BY FrameFields
<1>2. f.read => Handle(d, f) = DeviceRead(d, f.ctrl, od_len)
  BY <1>1 DEF Handle
<1>3. ~f.read => Handle(d, f) = [dev |-> DeviceWrite(d, f.ctrl, f.od), od |-> <<>>]
  BY <1>1 DEF Handle
<1>4. Ordered(s) /\ s.phase \in {"none", "request", "wait", "response"}
  BY DEF Together, IsduFits, IsduStates
<1>5. CASE Pending(s)
  <2>1. e = Resting(d) \/ (e = d /\ M = 1)
    <3> DEFINE c == f.ctrl
    <3>1. c \in {AbortCtrl, IdleCtrl} /\ Handle(d, f) = DeviceRead(d, c, od_len)
      BY <1>1, <1>2, <1>5
    <3> HIDE DEF c
    <3>2. Handle(d, f).dev = Resting(d)
      BY <3>1, EndingRead
    <3> QED
      BY <3>2
  <2> QED
    BY <1>5, <2>1, ConcludedTogether
<1>6. CASE ~Pending(s)
  <2>1. s.phase # "none"
    BY <1>4, <1>6 DEF IsduActive, IsduBusy, Pending, Ordered
  <2>2. CASE s.phase = "request"
    <3>1. Handle(d, f) = [dev |-> DeviceWrite(d, s.flowctrl, Segment(s, od_len)),
                          od |-> <<>>]
      BY <1>1, <1>3, <1>6, <2>2
    <3>2. q = <<>> /\ (\/ e = DeviceWrite(d, s.flowctrl, Segment(s, od_len))
                       \/ (e = d /\ L = 0 /\ M = 1))
      BY <3>1
    <3>3. Together(IsduSent(s, od_len), e, o, M, <<>>, od_len)
          /\ ~Pending(IsduSent(s, od_len))
      BY <1>6, <2>2, <3>2, RequestTogether
    <3> QED
      BY <3>2, <3>3
  <2>3. CASE s.phase = "wait"
    <3>1. s.flowctrl = Start
      BY <2>3 DEF Together, Waiting
    <3>2. Handle(d, f) = DeviceRead(d, Start, od_len)
      BY <1>1, <1>2, <1>6, <2>3, <3>1
    <3>3. \/ /\ e = DeviceRead(d, Start, od_len).dev
             /\ q = DeviceRead(d, Start, od_len).od \/ q = <<>>
          \/ e = d /\ q = <<>>
      BY <3>2
    <3> QED
      BY <1>6, <2>3, <3>3, WaitTogether
  <2>4. CASE s.phase = "response"
    <3>1. Handle(d, f) = DeviceRead(d, s.flowctrl, od_len)
      BY <1>1, <1>2, <1>6, <2>4
    <3>2. \/ /\ e = DeviceRead(d, s.flowctrl, od_len).dev /\ M = L
             /\ q = DeviceRead(d, s.flowctrl, od_len).od
          \/ /\ e = DeviceRead(d, s.flowctrl, od_len).dev
             /\ L = 0 /\ M = 1 /\ q = <<>>
          \/ e = d /\ L = 0 /\ M = 1 /\ q = <<>>
      BY <3>1
    <3> QED
      BY <1>6, <2>4, <3>2, ResponseTogether
  <2> QED
    BY <1>4, <2>1, <2>2, <2>3, <2>4
<1> QED
  BY <1>5, <1>6

LEMMA TickTogether ==
    ASSUME Inv, LossInv, MaxLosses <= 1, NEW lost \in {"none", "request", "reply"},
           Tick(lost)
    PROVE  LossInv'
<1> DEFINE r == RouteOd(ev, isdu, reply.od)
           x == r.isdu
           f == DueFrame(r.ev, r.isdu)
           h == Handle(dev, f)
           L == spent.losses
           M == spent'.losses
           w == od_len
<1>1. /\ isdu \in IsduFits /\ dev \in SoundDevices /\ obs \in ObsStates /\ w \in 1..8
      /\ ev \in EventStates(Octets) /\ reply.od \in Seq(Octets)
      /\ spent \in [losses : 0..MaxLosses, calls : 0..MaxEventCalls]
  BY DEF Inv, Types, Replies
<1>2. /\ lost # "none" => spent.losses < MaxLosses /\ f.channel # "process"
      /\ ev' = IF f.channel = "diagnosis" THEN EventSent(r.ev) ELSE r.ev
      /\ isdu' = IF f.channel = "isdu" THEN IsduSent(x, w) ELSE x
      /\ dev' = IF lost = "request" THEN dev ELSE h.dev
      /\ reply' = IF lost = "none" THEN [channel |-> f.channel, od |-> h.od]
                  ELSE NoReply
      /\ spent' = IF lost = "none" THEN spent ELSE [spent EXCEPT !.losses = @ + 1]
      /\ od_len' = w
  BY DEF Tick
<1>3. /\ L \in {0, 1}
      /\ IF lost = "none" THEN M = L ELSE L = 0 /\ M = 1
  <2>1. L \in 0..MaxLosses /\ MaxLosses \in Nat
    BY <1>1, ServicesAssumption
  <2>2. lost # "none" => spent'.losses = L + 1
    BY <1>1, <1>2
  <2> QED
    BY <1>2, <2>1, <2>2
<1>4. obs'.made = obs.made /\ obs'.value = obs.value
  <2> DEFINE m == obs.missed \/ (/\ EventActive(ev) /\ isdu.phase = "response"
                                 /\ reply.channel = "isdu" /\ reply.od # <<>>)
  <2>1. obs' = Noted([obs EXCEPT !.missed = m], x, f, lost)
    BY DEF Tick
  <2>2. obs \in ObsStates
    BY <1>1
  <2> DEFINE n == Noted([obs EXCEPT !.missed = m], x, f, lost)
  <2> HIDE DEF m, x, f
  <2>3. n.made = obs.made /\ n.value = obs.value
    BY <2>2 DEF Noted, ObsStates
  <2> HIDE DEF n
  <2>4. obs' = n
    BY <2>1 DEF n, m, x, f
  <2> QED
    BY <2>3, <2>4
<1>5. /\ x \in IsduFits /\ Together(x, dev, obs, L, <<>>, w)
      /\ ~(x.abort_pending /\ x.idle_pending)
      /\ EventActive(r.ev) => ~Pending(x)
      /\ r.ev \in EventStates(Octets)
  <2>1. x \in IsduFits /\ r.ev \in EventStates(Octets)
    BY Routed
  <2>2. ~Pending(isdu) /\ Together(isdu, dev, obs, L, Routable, w)
    BY DEF LossInv
  <2>3. CASE EventActive(ev)
    <3>1. x = isdu /\ Routable = <<>>
      BY <2>3, Routed DEF Routable
    <3> QED
      BY <2>1, <2>2, <3>1 DEF Pending
  <2>4. CASE ~EventActive(ev)
    <3> DEFINE q == reply.od
    <3>1. x = IsduOnOd(isdu, q) /\ r.ev = ev
      BY <2>4 DEF RouteOd
    <3>2. Together(isdu, dev, obs, L, q, w) /\ q \in Seq(Octets)
      BY <1>1, <2>2, <2>4 DEF Routable
    <3> HIDE DEF q, L
    <3>3. /\ Together(IsduOnOd(isdu, q), dev, obs, L, <<>>, w)
          /\ ~(IsduOnOd(isdu, q).abort_pending /\ IsduOnOd(isdu, q).idle_pending)
      BY <1>1, <2>2, <3>2, RoutedTogether
    <3> QED
      BY <2>1, <2>4, <3>1, <3>3 DEF L
  <2> QED
    BY <2>3, <2>4
<1>6. reply'.od = IF lost = "none" THEN h.od ELSE <<>>
  BY <1>2 DEF NoReply
<1> DEFINE e == r.ev
<1>7. /\ EventActive(e) => f = EventFrame(e)
      /\ ~EventActive(e) /\ IsduActive(x) => f = IsduFrame(x, w)
      /\ ~EventActive(e) /\ ~IsduActive(x) => f = CyclicFrame
  BY DEF DueFrame
<1> SUFFICES /\ ~Pending(isdu')
             /\ Together(isdu', dev', obs, M, Routable', w)
  <2>1. ASSUME ~Pending(isdu'), Together(isdu', dev', obs, M, Routable', w)
        PROVE  LossInv'
    <3> HIDE DEF M
    <3>1. Together(isdu', dev', obs', M, Routable', w)
      BY <1>4, <2>1, OnlyTheFields
    <3> QED
      BY <1>2, <2>1, <3>1 DEF LossInv, M
  <2> QED
    BY <2>1
<1>8. Together(x, dev, obs, M, <<>>, w)
  <2>1. L = 0 => Together(x, dev, obs, 1, <<>>, w)
    BY <1>5, OneMoreLost
  <2> QED
    BY <1>3, <1>5, <2>1
<1> HIDE DEF r, x, f, h, L, M, e
<1>9. CASE EventActive(e)
  <2>1. f.channel = "diagnosis" /\ f.read = (e.phase = "read")
    <3>1. f = EventFrame(e)
      BY <1>7, <1>9
    <3>2. EventFrame(e).channel = "diagnosis"
      BY DEF EventFrame
    <3>3. EventFrame(e).read = (e.phase = "read")
      BY DEF EventFrame
    <3> QED
      BY <3>1, <3>2, <3>3
  <2>2. isdu' = x /\ ~Pending(x)
    BY <1>2, <1>5, <1>9, <2>1 DEF e
  <2>3. /\ dev'.phase = dev.phase /\ dev'.request = dev.request
        /\ dev'.response = dev.response /\ dev'.flow = dev.flow
        /\ dev'.pos = dev.pos /\ dev'.sent = dev.sent
    <3>1. h.dev = dev \/ h.dev = [dev EXCEPT !.events = NoEvents]
      BY <2>1 DEF Handle, h
    <3>2. dev \in Devices
      BY <1>1 DEF SoundDevices
    <3> QED
      BY <1>2, <3>1, <3>2 DEF Devices
  <2>4. Routable' = <<>>
    <3>1. CASE e.phase = "read"
      <4>1. ev' = [e EXCEPT !.od_expected = TRUE]
        BY <1>2, <2>1, <3>1 DEF EventSent, e
      <4>2. ev'.phase = "read"
        BY <1>5, <3>1, <4>1 DEF EventStates, e
      <4> QED
        BY <4>2 DEF Routable, EventActive
    <3>2. CASE e.phase # "read"
      <4>1. h.od = <<>>
        BY <2>1, <3>2 DEF Handle, h
      <4> QED
        BY <1>6, <4>1 DEF Routable
    <3> QED
      BY <3>1, <3>2
  <2>5. Together(x, dev', obs, M, <<>>, w)
    BY <1>8, <2>3, OnlyTheFields
  <2> QED
    BY <2>2, <2>4, <2>5
<1>10. CASE ~EventActive(e) /\ IsduActive(x)
  <2>1. f = IsduFrame(x, w) /\ f.channel = "isdu"
    BY <1>1, <1>5, <1>7, <1>10, FrameFields
  <2>2. isdu' = IsduSent(x, w) /\ ev' = e
    BY <1>2, <2>1 DEF e
  <2>3. Routable' = reply'.od
    BY <1>10, <2>2 DEF Routable
  <2> DEFINE d2 == dev'
             q2 == reply'.od
  <2>4. /\ d2 = IF lost = "request" THEN dev ELSE Handle(dev, f).dev
        /\ q2 = IF lost = "none" THEN Handle(dev, f).od ELSE <<>>
    BY <1>2, <1>6 DEF h
  <2> HIDE DEF d2, q2
  <2>5. Together(IsduSent(x, w), d2, obs, M, q2, w) /\ ~Pending(IsduSent(x, w))
    BY <1>1, <1>3, <1>5, <1>10, <2>1, <2>4, SentTogether
  <2> QED
    BY <2>2, <2>3, <2>5 DEF d2, q2
<1>11. CASE ~EventActive(e) /\ ~IsduActive(x)
  <2>1. f = CyclicFrame /\ f.channel = "process"
    BY <1>7, <1>11 DEF CyclicFrame
  <2>2. h = [dev |-> dev, od |-> <<>>]
    BY <2>1 DEF Handle, h
  <2>3. isdu' = x /\ dev' = dev /\ Routable' = <<>>
    BY <1>2, <1>6, <2>1, <2>2 DEF Routable
  <2>4. ~Pending(x)
    BY <1>11 DEF IsduActive, Pending
  <2> QED
    BY <1>8, <2>3, <2>4
<1> QED
  BY <1>9, <1>10, <1>11

-----------------------------------------------------------------------------
(* The application, the connection and the device.                         *)

LEMMA ClearFields ==
    /\ IsduClear.op = "none" /\ IsduClear.phase = "none" /\ ~IsduClear.done
    /\ ~Pending(IsduClear)
BY DEF IsduClear, Pending

LEMMA FinishFields ==
    ASSUME NEW s, ~Pending(s)
    PROVE  LET t == IsduFinish(s)
           IN  t.op = "none" /\ t.phase = "none" /\ ~t.done /\ ~Pending(t)
BY DEF IsduFinish, IsduClear, Pending

LEMMA StartFields ==
    ASSUME NEW op, NEW object, NEW request
    PROVE  LET t == IsduStart(op, object, request)
           IN  /\ t.op = op /\ t.index = object /\ t.phase = "request"
               /\ t.request = request /\ t.request_pos = 0 /\ t.flowctrl = Start
               /\ ~t.done /\ ~Pending(t)
BY DEF IsduStart, IsduClear, Pending

\* A service is collected or begins: the device is where the last one left it.
LEMMA AnewTogether ==
    ASSUME NEW s, NEW d, NEW o, NEW L, NEW q, NEW w, Together(s, d, o, L, q, w),
           s.phase = "none", ~Pending(s), NEW t, ~Pending(t), ~t.done, NEW p,
           \/ t.op = "none" /\ t.phase = "none"
           \/ /\ t.op \in {"read", "write"} /\ t.phase = "request"
              /\ t.request_pos = 0 /\ t.flowctrl = Start
              /\ t.op = "read" => t.index \in Objects
                                  /\ t.request = ReadRequest(t.index)
    PROVE  Together(t, d, p, L, q, w)
<1>1. Settled(s, d, L, w) /\ (d.phase = "answering" => Stream(d.response))
  BY DEF Together
<1>2. Settled(t, d, L, w)
  BY <1>1 DEF Settled
<1>3. Ordered(t)
  BY DEF Ordered
<1>4. ~(t.phase = "request" /\ t.request_pos > 0)
  BY SMT
<1> QED
  BY <1>1, <1>2, <1>3, <1>4 DEF Together

LEMMA ReadTogether ==
    ASSUME Inv, LossInv, NEW object \in Objects, Read(object)
    PROVE  LossInv'
<1> DEFINE s == isdu
           t == isdu'
<1>1. /\ t = ReadIsdu(s, object, BufferSize).isdu
      /\ obs' = IF s.op = "none" \/ t.op = "none" THEN Fresh(obs, <<>>) ELSE obs
      /\ UNCHANGED <<dev, od_len, spent>> /\ Routable' = Routable
  BY DEF Read, Routable
<1>2. ~Pending(s) /\ Together(s, dev, obs, spent.losses, Routable, od_len)
  BY DEF LossInv
<1>3. Ordered(s)
  BY <1>2 DEF Together
<1> DEFINE go == IsduStart("read", object, ReadRequest(object))
<1>4. \/ t = s /\ s.op # "none"
      \/ t = IsduFinish(s) /\ s.done
      \/ t = go /\ ~IsduBusy(s) /\ ~s.done
  BY <1>1, <1>3 DEF ReadIsdu, IsduBusy, Ordered
<1> HIDE DEF s, t
<1>5. CASE t = s /\ s.op # "none"
  BY <1>1, <1>2, <1>5 DEF LossInv, s, t
<1>6. CASE t = IsduFinish(s) /\ s.done
  <2>1. t.op = "none" /\ t.phase = "none" /\ ~t.done /\ ~Pending(t)
    BY <1>2, <1>6, FinishFields
  <2>2. s.phase = "none"
    BY <1>3, <1>6 DEF Ordered
  <2>3. Together(t, dev, obs', spent.losses, Routable, od_len)
    BY <1>2, <2>1, <2>2, AnewTogether
  <2> QED
    BY <1>1, <2>1, <2>3 DEF LossInv, t
<1>7. CASE t = go /\ ~IsduBusy(s) /\ ~s.done
  <2>1. /\ t.op = "read" /\ t.index = object /\ t.phase = "request"
        /\ t.request = ReadRequest(object) /\ t.request_pos = 0
        /\ t.flowctrl = Start /\ ~t.done /\ ~Pending(t)
    BY <1>7, StartFields
  <2>2. s.phase = "none"
    BY <1>3, <1>7 DEF Ordered, IsduBusy
  <2>3. Together(t, dev, obs', spent.losses, Routable, od_len)
    BY <1>2, <2>1, <2>2, AnewTogether
  <2> QED
    BY <1>1, <2>1, <2>3 DEF LossInv, t
<1> QED
  BY <1>4, <1>5, <1>6, <1>7

LEMMA WriteTogether ==
    ASSUME Inv, LossInv, NEW w \in Writes, Write(w[1], w[2])
    PROVE  LossInv'
<1> DEFINE s == isdu
           t == isdu'
           go == IsduStart("write", w[1], WriteRequest(w[1], w[2]))
<1>1. /\ t = WriteIsdu(s, w[1], w[2]).isdu
      /\ obs' = IF t.op = "none" THEN Fresh(obs, <<>>)
                ELSE IF s.op = "none" THEN Fresh(obs, w[2]) ELSE obs
      /\ UNCHANGED <<dev, od_len, spent>> /\ Routable' = Routable
  BY DEF Write, Routable
<1>2. ~Pending(s) /\ Together(s, dev, obs, spent.losses, Routable, od_len)
  BY DEF LossInv
<1>3. Ordered(s)
  BY <1>2 DEF Together
<1>4. \/ t = s
      \/ t = IsduFinish(s) /\ s.done
      \/ t = go /\ ~IsduBusy(s) /\ ~s.done
  BY <1>1 DEF WriteIsdu
<1> HIDE DEF s, t
<1>5. CASE t = s /\ s.op # "none"
  BY <1>1, <1>2, <1>5 DEF LossInv, s, t
<1>6. CASE t = s /\ s.op = "none"
  <2>1. s.phase = "none" /\ ~s.done
    BY <1>3, <1>6 DEF Ordered
  <2>2. Together(t, dev, obs', spent.losses, Routable, od_len)
    BY <1>2, <1>6, <2>1, AnewTogether
  <2> QED
    BY <1>1, <1>2, <1>6, <2>2 DEF LossInv, t
<1>7. CASE t = IsduFinish(s) /\ s.done
  <2>1. t.op = "none" /\ t.phase = "none" /\ ~t.done /\ ~Pending(t)
    BY <1>2, <1>7, FinishFields
  <2>2. s.phase = "none"
    BY <1>3, <1>7 DEF Ordered
  <2>3. Together(t, dev, obs', spent.losses, Routable, od_len)
    BY <1>2, <2>1, <2>2, AnewTogether
  <2> QED
    BY <1>1, <2>1, <2>3 DEF LossInv, t
<1>8. CASE t = go /\ ~IsduBusy(s) /\ ~s.done
  <2>1. /\ t.op = "write" /\ t.phase = "request" /\ t.request_pos = 0
        /\ t.flowctrl = Start /\ ~t.done /\ ~Pending(t)
    BY <1>8, StartFields
  <2>2. s.phase = "none"
    BY <1>3, <1>8 DEF Ordered, IsduBusy
  <2>3. Together(t, dev, obs', spent.losses, Routable, od_len)
    BY <1>2, <2>1, <2>2, AnewTogether
  <2> QED
    BY <1>1, <2>1, <2>3 DEF LossInv, t
<1> QED
  BY <1>4, <1>5, <1>6, <1>7, <1>8

\* A readout that begins drops the octets on their way to the transport.
LEMMA CallEventTogether ==
    ASSUME Inv, LossInv, NEW request \in EventCalls, CallEvent(request)
    PROVE  LossInv'
<1> DEFINE L == spent.losses
<1>1. /\ isdu \in IsduFits /\ dev \in SoundDevices /\ obs \in ObsStates
      /\ od_len \in 1..8
  BY DEF Inv, Types
<1>2. /\ ev' = EventCall(ev, request).event
      /\ UNCHANGED <<isdu, dev, reply, od_len>>
      /\ spent' = spent \/ spent' = [spent EXCEPT !.calls = @ + 1]
      /\ obs' = obs \/ obs' = [obs EXCEPT !.spliced = FALSE, !.snapshot = {}]
  BY DEF CallEvent
<1>3. spent'.losses = L
  BY <1>2 DEF Inv, Types
<1>4. obs'.made = obs.made /\ obs'.value = obs.value
  BY <1>1, <1>2 DEF ObsStates
<1>5. ~Pending(isdu) /\ Together(isdu, dev, obs, L, Routable, od_len)
  BY DEF LossInv
<1>6. Routable' = Routable \/ Routable' = <<>>
  <2>1. CASE EventActive(ev)
    BY <1>2, <2>1 DEF EventCall, Routable
  <2>2. CASE ~EventActive(ev)
    BY <1>2, <2>2 DEF Routable
  <2> QED
    BY <2>1, <2>2
<1> HIDE DEF L
<1>7. Together(isdu, dev, obs, L, Routable', od_len)
  BY <1>1, <1>5, <1>6, DroppedTogether
<1>8. Together(isdu, dev, obs', L, Routable', od_len)
  BY <1>4, <1>7, OnlyTheFields
<1> QED
  BY <1>2, <1>3, <1>5, <1>8 DEF LossInv

\* The device forgets the communication, and with it the service.
LEMMA ForgottenTogether ==
    ASSUME NEW s \in IsduFits, NEW d \in SoundDevices, NEW o \in ObsStates,
           NEW w \in 1..8, NEW L, NEW q, Together(s, d, o, L, q, w),
           NEW e, e.phase = "idle", NEW M
    PROVE  Together(s, e, o, M, <<>>, w)
<1>1. Settled(s, d, L, w) => Settled(s, e, M, w)
  BY DEF Settled
<1>2. Requesting(s, d, o, L) => Requesting(s, e, o, M)
  BY DEF Requesting
<1>3. Waiting(s, d, o, q, w) => Waiting(s, e, o, <<>>, w)
  BY DEF Waiting, Idles
<1>4. Responding(s, d, o, L, q, w) => Responding(s, e, o, M, <<>>, w)
  <2>1. Sync(s, d, o, q, w) => Follows(s, Answered(o), Len(Answered(o)))
    BY SyncLoses
  <2>2. Sync(s, d, o, q, w) \/ Lost(s, d, o, L, q) => Lost(s, e, o, M, <<>>)
    BY <2>1 DEF Lost
  <2> QED
    BY <2>2 DEF Responding
<1> QED
  BY <1>1, <1>2, <1>3, <1>4 DEF Together

LEMMA LoseTogether ==
    ASSUME Inv, LossInv, NEW exchanged \in BOOLEAN, LoseConnection(exchanged)
    PROVE  LossInv'
<1> DEFINE L == spent.losses
           M == spent'.losses
<1>1. /\ isdu \in IsduFits /\ dev \in SoundDevices /\ obs \in ObsStates
      /\ od_len \in 1..8
  BY DEF Inv, Types
<1>2. /\ reply' = NoReply /\ UNCHANGED <<isdu, ev, od_len>>
      /\ dev' = IF exchanged THEN [Resting(dev) EXCEPT !.events = NoEvents]
                ELSE Resting(dev)
      /\ obs' = [obs EXCEPT !.missed = @ \/ isdu.phase = "response",
                            !.cut = @ \/ isdu.phase \in {"request", "wait"},
                            !.spliced = @ \/ (exchanged /\ EventActive(ev))]
  BY DEF LoseConnection
<1>3. dev'.phase = "idle"
  <2> DEFINE d == Resting(dev)
  <2>1. d \in Devices /\ d.phase = "idle"
    BY <1>1, RestingSound DEF SoundDevices
  <2> HIDE DEF d
  <2>2. dev' = d \/ dev' = [d EXCEPT !.events = NoEvents]
    BY <1>2 DEF d
  <2> QED
    BY <2>1, <2>2 DEF Devices
<1>4. obs'.made = obs.made /\ obs'.value = obs.value
  BY <1>1, <1>2 DEF ObsStates
<1>5. Routable' = <<>>
  BY <1>2 DEF Routable, NoReply
<1>6. ~Pending(isdu) /\ Together(isdu, dev, obs, L, Routable, od_len)
  BY DEF LossInv
<1> HIDE DEF L, M
<1>7. Together(isdu, dev', obs, M, <<>>, od_len)
  BY <1>1, <1>3, <1>6, ForgottenTogether
<1>8. Together(isdu, dev', obs', M, <<>>, od_len)
  BY <1>4, <1>7, OnlyTheFields
<1> QED
  BY <1>2, <1>5, <1>6, <1>8 DEF LossInv, M

\* No service and a device at rest: the start, and a restart of the port.
LEMMA RestTogether ==
    ASSUME NEW d, d.phase = "idle", NEW o, NEW L, NEW q, NEW w
    PROVE  Together(IsduClear, d, o, L, q, w)
BY ClearFields DEF Together, Ordered, Settled

LEMMA InitTogether == Init => LossInv
<1> SUFFICES ASSUME Init PROVE LossInv
  OBVIOUS
<1>1. isdu = IsduClear /\ dev.phase = "idle"
  BY DEF Init
<1> QED
  BY <1>1, ClearFields, RestTogether DEF LossInv

LEMMA RestartTogether ==
    ASSUME Inv, Restart
    PROVE  LossInv'
<1>1. isdu' = IsduClear /\ dev' = Resting(dev) /\ dev \in SoundDevices
  BY DEF Restart, Inv, Types
<1>2. dev'.phase = "idle"
  BY <1>1, RestingSound
<1> DEFINE M == spent'.losses
           q == Routable'
<1> HIDE DEF M, q
<1>3. Together(IsduClear, dev', obs', M, q, od_len')
  BY <1>2, RestTogether
<1> QED
  BY <1>1, <1>3, ClearFields DEF LossInv, M, q

\* What the device does with the request of a read is answered as a read.
LEMMA ExecuteTogether ==
    ASSUME Inv, LossInv, NEW accepts \in BOOLEAN, Execute(accepts)
    PROVE  LossInv'
<1> DEFINE s == isdu
           d == dev
           e == dev'
           L == spent.losses
           q == Routable
           w == od_len
           asked == Asked(d.request)
           value == IF asked.op = "read" THEN d.store[asked.object] ELSE <<>>
           response == IF accepts THEN PositiveResponse(asked.op, value)
                       ELSE NegativeResponse(asked.op)
           store == IF accepts /\ asked.op = "write"
                    THEN [d.store EXCEPT ![asked.object] = asked.data] ELSE d.store
<1>1. s \in IsduFits /\ d \in SoundDevices /\ obs \in ObsStates
  BY DEF Inv, Types
<1>2. /\ d.phase = "busy" /\ asked.object \in Objects
      /\ e = [d EXCEPT !.phase = "answering", !.request = <<>>, !.flow = 0,
                       !.response = response, !.store = store]
      /\ obs' = [obs EXCEPT !.made = IF accepts THEN "executed" ELSE "refused",
                            !.value = IF accepts THEN value ELSE <<>>]
      /\ UNCHANGED <<isdu, ev, reply, od_len, spent>>
  BY DEF Execute
<1>3. Routable' = q
  BY <1>2 DEF Routable
<1>4. ~Pending(s) /\ Together(s, d, obs, L, q, w)
  BY DEF LossInv
<1>5. asked.op = IF ServiceNibble(d.request[1]) >= 8 THEN "read" ELSE "write"
  BY DEF Asked
<1>6. value \in Seq(Octets)
  BY <1>1, <1>2, DeviceFields
<1>7. d \in Devices
  BY <1>1 DEF SoundDevices
<1> HIDE DEF asked, value, s, q, L
<1>8. Stream(response)
  BY <1>6, Responses
<1>9. asked.op = "read" => response = Answered(obs')
  <2>1. accepts => obs'.made = "executed" /\ obs'.value = value
    BY <1>1, <1>2 DEF ObsStates
  <2>2. ~accepts => obs'.made = "refused"
    BY <1>1, <1>2 DEF ObsStates
  <2> QED
    BY <2>1, <2>2 DEF Answered
<1> HIDE DEF response, store
<1>10. e.phase = "answering" /\ e.response = response
  BY <1>2, <1>7 DEF Devices
<1> HIDE DEF d, e
<1>11. /\ s.phase = "request" => s.request_pos > 0
       /\ s.phase \in {"request", "wait"}
  <2>1. s.phase \in {"none", "request", "wait", "response"} /\ s.request_pos \in Nat
    BY <1>1 DEF IsduFits, IsduStates
  <2>2. ~Settled(s, d, L, w) /\ ~Responding(s, d, obs, L, q, w)
    BY <1>2 DEF Settled, Responding
  <2>3. s.phase # "none" /\ s.phase # "response"
        /\ ~(s.phase = "request" /\ s.request_pos = 0)
    BY <1>4, <2>2 DEF Together
  <2> DEFINE a == s.request_pos
  <2>4. a \in Nat /\ (s.phase = "request" => a # 0)
    BY <2>1, <2>3
  <2> HIDE DEF a
  <2>5. s.phase = "request" => a > 0
    BY <2>4
  <2> QED
    BY <2>1, <2>3, <2>5 DEF a
<1>12. Ordered(s) /\ ~s.done
  BY <1>4, <1>11 DEF Together, Ordered
<1>13. ASSUME s.phase = "request" PROVE Requesting(s, e, obs', L)
  <2>1. Requesting(s, d, obs, L)
    BY <1>4, <1>11, <1>13 DEF Together
  <2>2. ASSUME s.op = "read" PROVE asked.op = "read"
    <3>1. d.request[1] = s.request[1]
      BY <1>2, <2>1, <2>2 DEF Requesting
    <3>2. s.index \in Objects /\ s.request = ReadRequest(s.index)
      BY <1>12, <1>13, <2>2 DEF Ordered
    <3>3. ServiceNibble(s.request[1]) >= 8
      BY <3>2, ReadRequests
    <3> QED
      BY <1>5, <3>1, <3>3
  <2> QED
    BY <1>9, <1>10, <2>1, <2>2 DEF Requesting
<1>14. ASSUME s.phase = "wait" PROVE Waiting(s, e, obs', q, w)
  <2>1. Waiting(s, d, obs, q, w)
    BY <1>4, <1>14 DEF Together
  <2>2. Idles(q)
    BY <1>2, <2>1 DEF Waiting, First
  <2>3. s.op = "read" => asked.op = "read"
    BY <1>2, <1>5, <2>1 DEF Waiting
  <2> QED
    BY <1>9, <1>10, <2>1, <2>2, <2>3 DEF Waiting
<1>15. Together(s, e, obs', L, q, w)
  <2>1. e.phase = "answering" => Stream(e.response)
    BY <1>8, <1>10
  <2>2. ~(s.phase = "none" \/ (s.phase = "request" /\ s.request_pos = 0))
    BY <1>11
  <2>3. s.phase # "response"
    BY <1>11
  <2> QED
    BY <1>12, <1>13, <1>14, <2>1, <2>2, <2>3 DEF Together
<1> QED
  BY <1>2, <1>3, <1>4, <1>15 DEF LossInv, s, e, L, q

LEMMA RaiseTogether ==
    ASSUME Inv, LossInv, NEW events \in Raisable, Raise(events)
    PROVE  LossInv'
<1>1. dev \in Devices
  BY DEF Inv, Types, SoundDevices
<1>2. /\ dev' = [dev EXCEPT !.events = events]
      /\ UNCHANGED <<isdu, od_len, spent, obs>> /\ Routable' = Routable
  BY DEF Raise, Routable
<1>3. /\ dev'.phase = dev.phase /\ dev'.request = dev.request
      /\ dev'.response = dev.response /\ dev'.flow = dev.flow
      /\ dev'.pos = dev.pos /\ dev'.sent = dev.sent
  BY <1>1, <1>2 DEF Devices
<1> DEFINE L == spent.losses
           q == Routable
<1>4. ~Pending(isdu) /\ Together(isdu, dev, obs, L, q, od_len)
  BY DEF LossInv
<1> HIDE DEF L, q
<1>5. Together(isdu, dev', obs, L, q, od_len)
  BY <1>3, <1>4, OnlyTheFields
<1> QED
  BY <1>2, <1>4, <1>5 DEF LossInv, L, q

LEMMA NextTogether ==
    ASSUME MaxLosses <= 1
    PROVE  Inv /\ LossInv /\ [Next]_vars => LossInv'
<1> SUFFICES ASSUME Inv, LossInv, [Next]_vars PROVE LossInv'
  OBVIOUS
<1>1. CASE UNCHANGED vars
  BY <1>1 DEF vars, LossInv, Routable
<1>2. ASSUME NEW lost \in {"none", "request", "reply"}, Tick(lost) PROVE LossInv'
  BY <1>2, TickTogether
<1>3. CASE Reestablish
  BY <1>3 DEF Reestablish, LossInv, Routable
<1>4. CASE Next
  BY <1>2, <1>3, <1>4, ReadTogether, WriteTogether, CallEventTogether,
     RestartTogether, LoseTogether, ExecuteTogether, RaiseTogether DEF Next
<1> QED
  BY <1>1, <1>4

\* The transport checks a response by its length and CHKPDU alone; FlowCTRL is
\* not compared with what was answered (isdu_on_od, decode_response).  With one
\* lost message, or one lost connection, that is enough: a read that ends
\* without an error returns the value of the object, or one that CHKPDU cannot
\* tell from it.  A second loss may hide the IDLE that concludes a service, and
\* the next read may then be given the response of the last one.
THEOREM ResponsesGenuine ==
    ASSUME MaxLosses <= 1
    PROVE  Spec => []LossDetected
<1>1. LossInv => LossDetected
  <2> SUFFICES ASSUME LossInv, ServiceOK, isdu.op = "read",
                      isdu.response # obs.value
               PROVE  ~Detectable(PositiveResponse("read", obs.value))
    BY DEF LossDetected
  <2>1. Judged(isdu, obs)
    BY DEF LossInv, Together, ServiceOK
  <2> QED
    BY <2>1 DEF Judged, ServiceOK
<1>2. Inv /\ LossInv /\ [Next]_vars => LossInv'
  BY NextTogether
<1> QED
  BY <1>1, <1>2, InitTogether, SpecInv, PTL DEF Spec

-----------------------------------------------------------------------------
(* Requests and responses that fit the buffer.                             *)

\* A stream that is as long as it says.
Whole(S) == Stream(S) /\ DeclaredBy(S) = Len(S)

Refusal(S) == ServiceNibble(S[1]) \in {4, 12}
PayloadOf(S) == SubSeq(S, IF LengthNibble(S[1]) = 1 THEN 3 ELSE 2, Len(S) - 1)

\* A value whose response fits the buffer, with header, ExtLength and CHKPDU,
\* and says its length in one octet.
Fits(v) == Len(v) + 3 <= BufferSize /\ Len(v) <= 252

LEMMA ReplyStreams ==
    ASSUME NEW op \in {"read", "write"}, NEW v \in Seq(Octets), Fits(v)
    PROVE  /\ Whole(PositiveResponse(op, v)) /\ ~Hopeless(PositiveResponse(op, v))
           /\ ~Refusal(PositiveResponse(op, v))
           /\ PayloadOf(PositiveResponse(op, v)) = v
           /\ Whole(NegativeResponse(op)) /\ ~Hopeless(NegativeResponse(op))
           /\ Refusal(NegativeResponse(op))
<1> DEFINE Sealing(k, y) == Sealed(Header(k, 2 + Len(y)) \o y)
<1>1. ASSUME NEW k \in 1..15, NEW y \in Seq(Octets), Fits(y)
      PROVE  /\ Whole(Sealing(k, y)) /\ ~Hopeless(Sealing(k, y))
             /\ ServiceNibble(Sealing(k, y)[1]) = k /\ PayloadOf(Sealing(k, y)) = y
  <2> DEFINE S == Sealing(k, y)
             m == Len(y)
             l == Len(S)
  <2>1. /\ Stream(S) /\ ServiceNibble(S[1]) = k /\ Len(S) <= 3 + Len(y)
        /\ PayloadOf(S) = y /\ (m <= 252 => DeclaredBy(S) = Len(S))
    BY SealedStream DEF PayloadOf
  <2>2. m \in Nat /\ m + 3 <= BufferSize /\ BufferSize \in 8..256
    BY <1>1, BufferAssumption DEF Fits
  <2>3. m <= 252
    BY <1>1 DEF Fits
  <2>4. l \in Nat /\ l <= 3 + m
    BY <2>1 DEF Stream
  <2> HIDE DEF S
  <2>5. l <= BufferSize
    <3> HIDE DEF m, l
    <3> QED
      BY <2>2, <2>4
  <2>6. DeclaredBy(S) = l /\ ~(l > BufferSize)
    <3> HIDE DEF m
    <3>1. DeclaredBy(S) = l
      BY <2>1, <2>3
    <3> HIDE DEF l
    <3> QED
      BY <2>2, <2>4, <2>5, <3>1
  <2> QED
    BY <2>1, <2>6 DEF S, Whole, Hopeless
<1>2. PositiveResponse(op, v) = Sealing(IF op = "read" THEN 13 ELSE 5, v)
  BY DEF PositiveResponse
<1> DEFINE y == <<{128}, {1, 16}>>
<1>3. y \in Seq(Octets) /\ Len(y) = 2 /\ Fits(y)
  BY BufferAssumption DEF Octets, Bits, Fits
<1>4. NegativeResponse(op) = Sealing(IF op = "read" THEN 12 ELSE 4, y)
  BY <1>3 DEF NegativeResponse
<1> HIDE DEF Sealing, y
<1> DEFINE p == IF op = "read" THEN 13 ELSE 5
           n == IF op = "read" THEN 12 ELSE 4
<1>5. p \in 1..15 /\ n \in 1..15 /\ p \notin {4, 12} /\ n \in {4, 12}
  OBVIOUS
<1>6. PositiveResponse(op, v) = Sealing(p, v) /\ NegativeResponse(op) = Sealing(n, y)
  BY <1>2, <1>4
<1> HIDE DEF p, n
<1>7. /\ Whole(Sealing(p, v)) /\ ~Hopeless(Sealing(p, v))
      /\ ServiceNibble(Sealing(p, v)[1]) = p /\ PayloadOf(Sealing(p, v)) = v
  BY <1>1, <1>5
<1>8. /\ Whole(Sealing(n, y)) /\ ~Hopeless(Sealing(n, y))
      /\ ServiceNibble(Sealing(n, y)[1]) = n
  BY <1>1, <1>3, <1>5
<1> QED
  BY <1>5, <1>6, <1>7, <1>8 DEF Refusal

\* The two parts of a payload.
LEMMA CutOut ==
    ASSUME NEW R, NEW a, NEW x, NEW y, R \in Seq(Octets), a \in 1..3,
           x \in Seq(Octets), Len(x) >= 1, y \in Seq(Octets),
           SubSeq(R, a, Len(R) - 1) = x \o y
    PROVE  /\ SubSeq(R, a, a + Len(x) - 1) = x
           /\ SubSeq(R, a + Len(x), Len(R) - 1) = y
<1> DEFINE v == x \o y
           m == Len(x)
           k == Len(y)
           b == Len(R) - 1
<1>1. m \in Nat /\ m >= 1 /\ k \in Nat /\ b \in Int
  OBVIOUS
<1>2. /\ v \in Seq(Octets) /\ Len(v) = m + k
      /\ \A i \in 1..(m + k) : v[i] = IF i <= m THEN x[i] ELSE y[i - m]
  BY ConcatProperties
<1> HIDE DEF v
<1>3. a <= b
  <2>1. CASE ~(a <= b)
    <3>1. SubSeq(R, a, b) = <<>>
      BY <1>1, <2>1
    <3>2. Len(v) = 0
      BY <3>1 DEF v
    <3> QED
      BY <1>1, <1>2, <3>2
  <2> QED
    BY <2>1
<1>4. \A i \in a..b : R[i] \in Octets
  <2>1. \A i \in a..b : i \in 1..Len(R)
    BY <1>1
  <2> QED
    BY <2>1
<1>5. /\ Len(SubSeq(R, a, b)) = b - a + 1
      /\ \A i \in 1..(b - a + 1) : SubSeq(R, a, b)[i] = R[a + i - 1]
  BY <1>1, <1>3, <1>4, SubSeqProperties
<1>6. b - a + 1 = m + k /\ \A i \in 1..(m + k) : v[i] = R[a + i - 1]
  BY <1>2, <1>5 DEF v
<1> HIDE DEF m, k, b
<1>7. SubSeq(R, a, a + m - 1) = x
  <2> DEFINE e == a + m - 1
             z == SubSeq(R, a, e)
  <2>1. e \in Int /\ a <= e /\ e - a + 1 = m /\ e <= b
    BY <1>1, <1>6
  <2> HIDE DEF e
  <2>2. \A i \in a..e : R[i] \in Octets
    BY <1>1, <1>4, <2>1
  <2>3. /\ z \in Seq(Octets) /\ Len(z) = m
        /\ \A i \in 1..m : z[i] = R[a + i - 1]
    <3>1. /\ z \in Seq(Octets) /\ Len(z) = e - a + 1
          /\ \A i \in 1..(e - a + 1) : z[i] = R[a + i - 1]
      BY <2>1, <2>2, SubSeqProperties
    <3> HIDE DEF z
    <3> QED
      BY <2>1, <3>1
  <2> HIDE DEF z
  <2>4. \A i \in 1..m : z[i] = x[i]
    <3>1. \A i \in 1..m : i \in 1..(m + k) /\ i <= m
      BY <1>1
    <3> QED
      BY <1>2, <1>6, <2>3, <3>1
  <2>5. z = x
    BY <2>3, <2>4, SeqEqual DEF m
  <2> QED
    BY <2>5 DEF z, e
<1>8. SubSeq(R, a + m, b) = y
  <2> DEFINE s == a + m
             z == SubSeq(R, s, b)
  <2>1. s \in Int /\ b - s + 1 = k /\ s >= a /\ (s <= b <=> 1 <= k)
    BY <1>1, <1>6
  <2> HIDE DEF s
  <2>2. \A i \in s..b : R[i] \in Octets
    BY <1>1, <1>4, <2>1
  <2>3. /\ z \in Seq(Octets) /\ Len(z) = IF s <= b THEN b - s + 1 ELSE 0
        /\ \A i \in 1..(b - s + 1) : z[i] = R[s + i - 1]
    BY <1>1, <2>1, <2>2, SubSeqProperties
  <2> HIDE DEF z
  <2>4. Len(z) = k
    BY <1>1, <2>1, <2>3
  <2>5. ASSUME NEW i \in 1..k PROVE z[i] = y[i]
    <3>1. m + i \in 1..(m + k) /\ ~(m + i <= m) /\ (m + i) - m = i
          /\ a + (m + i) - 1 = s + i - 1
      BY <1>1 DEF s
    <3>2. v[m + i] = y[i] /\ v[m + i] = R[s + i - 1]
      BY <1>2, <1>6, <3>1
    <3> QED
      BY <2>1, <2>3, <3>2
  <2>6. z = y
    BY <2>3, <2>4, <2>5, SeqEqual DEF k
  <2> QED
    BY <2>6 DEF z, s
<1> QED
  BY <1>7, <1>8 DEF m, b

\* What is asked of the device is what the request says.
LEMMA RequestStreams ==
    ASSUME NEW op \in {"read", "write"}, NEW object \in Objects,
           NEW data \in Seq(Octets), op = "read" => data = <<>>,
           op = "write" => WriteFits(object, data)
    PROVE  LET R == IF op = "read" THEN ReadRequest(object)
                    ELSE WriteRequest(object, data)
           IN  /\ Whole(R) /\ Len(R) >= 3
               /\ Asked(R) = [op |-> op, object |-> object, data |-> data]
<1> DEFINE n == Len(object)
           k == IF op = "read" THEN 8 + n ELSE n
           v == object \o data
           R == Sealed(Header(k, 2 + Len(v)) \o v)
           first == IF LengthNibble(R[1]) = 1 THEN 3 ELSE 2
<1>1. object \in Seq(Octets) /\ n \in 1..3 /\ Len(data) \in Nat
  BY ObjectsAssumption
<1>2. v \in Seq(Octets) /\ Len(v) = n + Len(data)
  BY <1>1, ConcatProperties
<1>3. k \in 1..15 /\ (k >= 8 <=> op = "read") /\ k % 8 = n
  <2> HIDE DEF n
  <2> QED
    BY <1>1
<1>4. R = IF op = "read" THEN ReadRequest(object) ELSE WriteRequest(object, data)
  <2>1. CASE op = "read"
    <3>1. v = object
      BY <1>1, <2>1
    <3> QED
      BY <2>1, <3>1 DEF ReadRequest
  <2>2. CASE op = "write"
    <3>1. WriteRequest(object, data)
            = Sealed((Header(n, 2 + n + Len(data)) \o object) \o data)
      BY DEF WriteRequest, WriteTotal
    <3> DEFINE h == Header(n, 2 + n + Len(data))
    <3>2. h \in Seq(Octets)
      BY HeaderType
    <3> HIDE DEF h
    <3>3. (h \o object) \o data = h \o v
      BY <1>1, <3>2, ConcatAssociative
    <3>4. 2 + n + Len(data) = 2 + Len(v)
      <4> DEFINE c == Len(data)
                 e == Len(v)
      <4>1. c \in Nat /\ n \in Nat /\ e = n + c
        BY <1>1, <1>2
      <4> HIDE DEF n, c, e
      <4>2. 2 + n + c = 2 + e
        BY <4>1
      <4> QED
        BY <4>2 DEF c, e
    <3> QED
      BY <2>2, <3>1, <3>3, <3>4 DEF h
  <2> QED
    BY <2>1, <2>2
<1>5. Len(v) <= 252
  <2> DEFINE c == Len(data)
             e == Len(v)
  <2>1. c \in Nat /\ e = n + c /\ n \in 1..3
    BY <1>1, <1>2
  <2>2. op = "read" => c = 0
    OBVIOUS
  <2>3. op = "write" => (IF 2 + n + c > 15 THEN 2 + n + c + 1 ELSE 2 + n + c) <= 238
    BY DEF WriteFits, WriteTotal, LengthMax, ExtMax
  <2> HIDE DEF n, c, e
  <2>4. e <= 252
    BY <2>1, <2>2, <2>3
  <2> QED
    BY <2>4 DEF e
<1> HIDE DEF k
<1>6. /\ Stream(R) /\ ServiceNibble(R[1]) = k /\ Len(R) >= 2 + Len(v)
      /\ SubSeq(R, first, Len(R) - 1) = v /\ DeclaredBy(R) = Len(R)
  <2> HIDE DEF v
  <2> QED
    BY <1>2, <1>3, <1>5, SealedStream
<1> HIDE DEF R
<1>7. Len(R) >= 3
  <2> DEFINE c == Len(data)
             e == Len(v)
             l == Len(R)
  <2>1. c \in Nat /\ e = n + c /\ n \in 1..3 /\ l \in Nat /\ l >= 2 + e
    BY <1>1, <1>2, <1>6 DEF Stream
  <2> HIDE DEF n, c, e, l
  <2>2. l >= 3
    BY <2>1
  <2> QED
    BY <2>2 DEF l
<1>8. Asked(R) = [op |-> IF k >= 8 THEN "read" ELSE "write",
                  object |-> SubSeq(R, first, first + n - 1),
                  data |-> SubSeq(R, first + n, Len(R) - 1)]
  BY <1>3, <1>6 DEF Asked
<1>9. first \in 1..3 /\ R \in Seq(Octets)
  BY <1>6 DEF Stream
<1> HIDE DEF first
<1>10. /\ SubSeq(R, first, first + n - 1) = object
       /\ SubSeq(R, first + n, Len(R) - 1) = data
  <2> HIDE DEF n
  <2>1. n >= 1
    BY <1>1
  <2>2. SubSeq(R, first, Len(R) - 1) = object \o data
    BY <1>6
  <2> HIDE DEF v
  <2>3. object \in Seq(Octets) /\ Len(object) >= 1 /\ data \in Seq(Octets)
    BY <1>1, <2>1 DEF n
  <2> HIDE DEF n, first, R
  <2>4. /\ SubSeq(R, first, first + Len(object) - 1) = object
        /\ SubSeq(R, first + Len(object), Len(R) - 1) = data
    BY <1>9, <2>2, <2>3, CutOut
  <2> QED
    BY <2>4 DEF n
<1> QED
  BY <1>3, <1>4, <1>6, <1>7, <1>8, <1>10 DEF Whole

\* P and R are the same as far as both go.
Agreeing(P, R) == \A i \in 1..Len(P) : i <= Len(R) => P[i] = R[i]

LEMMA PrefixAgrees ==
    ASSUME NEW R, NEW n, R \in Seq(Octets), n \in Nat, n <= Len(R)
    PROVE  /\ SubSeq(R, 1, n) \in Seq(Octets) /\ Len(SubSeq(R, 1, n)) = n
           /\ \A i \in 1..n : SubSeq(R, 1, n)[i] = R[i]
           /\ n = Len(R) => SubSeq(R, 1, n) = R
<1> DEFINE p == SubSeq(R, 1, n)
<1>1. Len(R) \in Nat /\ \A i \in 1..n : i \in 1..Len(R) /\ R[i] \in Octets
  OBVIOUS
<1>2. /\ p \in Seq(Octets) /\ Len(p) = IF 1 <= n THEN n - 1 + 1 ELSE 0
      /\ \A i \in 1..(n - 1 + 1) : p[i] = R[1 + i - 1]
  BY <1>1, SubSeqProperties
<1> HIDE DEF p
<1>3. Len(p) = n /\ \A i \in 1..n : p[i] = R[i]
  BY <1>2
<1>4. n = Len(R) => p = R
  BY <1>2, <1>3, SeqEqual
<1> QED
  BY <1>2, <1>3, <1>4 DEF p

LEMMA PrefixIs ==
    ASSUME NEW R, NEW P, R \in Seq(Octets), P \in Seq(Octets), Agreeing(P, R),
           Len(P) <= Len(R)
    PROVE  P = SubSeq(R, 1, Len(P))
<1> DEFINE n == Len(P)
           p == SubSeq(R, 1, n)
<1>1. n \in Nat /\ n <= Len(R) /\ Len(R) \in Nat
  OBVIOUS
<1>2. p \in Seq(Octets) /\ Len(p) = n /\ \A i \in 1..n : p[i] = R[i]
  BY <1>1, PrefixAgrees
<1>3. \A i \in 1..n : i <= Len(R) /\ P[i] = R[i]
  BY <1>1 DEF Agreeing
<1> HIDE DEF p
<1>4. \A i \in 1..Len(P) : P[i] = p[i]
  BY <1>2, <1>3
<1>5. P = p
  BY <1>2, <1>4, SeqEqual
<1> QED
  BY <1>5 DEF p

\* A request is taken up when all of it is there, and not before.
LEMMA Reception ==
    ASSUME NEW d, NEW R, d \in SoundDevices, Whole(R), Len(R) >= 3,
           Len(d.request) >= 1, Agreeing(d.request, R)
    PROVE  /\ Len(d.request) < Len(R) => Received(d) = d
           /\ Len(d.request) >= Len(R) =>
                 Received(d) = [d EXCEPT !.phase = "busy", !.request = R]
<1> DEFINE q == d.request
           m == Len(q)
           l == Len(R)
           n == DeclaredBy(q)
           whole == SubSeq(q, 1, n)
<1>1. q \in Seq(Octets) /\ m \in Nat /\ m >= 1
  BY DeviceFields
<1>2. /\ R \in Seq(Octets) /\ l \in Nat /\ l >= 3 /\ DeclaredBy(R) = l
      /\ Chkpdu(R) = {} /\ LengthNibble(R[1]) \in Nat
  <2>1. R \in Seq(Octets) /\ DeclaredBy(R) = l /\ Chkpdu(R) = {}
    BY DEF Whole, Stream
  <2>2. R[1] \in Octets /\ l \in Nat
    BY <2>1
  <2> QED
    BY <2>1, <2>2, OctetNumbers
<1>3. Received(d) = IF n = 0 \/ m < n THEN d
                    ELSE IF Chkpdu(whole) # {} THEN Resting(d)
                    ELSE [d EXCEPT !.phase = "busy", !.request = whole]
  BY DEF Received
<1>4. \A i \in 1..m : i <= l => q[i] = R[i]
  BY DEF Agreeing
<1> HIDE DEF q
<1>5. CASE m = 1
  <2>1. q[1] = R[1]
    BY <1>2, <1>4, <1>5
  <2>2. n = IF LengthNibble(R[1]) # 1 THEN LengthNibble(R[1]) ELSE 0
    BY <1>5, <2>1 DEF DeclaredBy
  <2>3. LengthNibble(R[1]) # 1 => LengthNibble(R[1]) = l
    BY <1>2 DEF DeclaredBy
  <2> HIDE DEF m, n, l
  <2>4. m < l /\ (n = 0 \/ m < n)
    BY <1>2, <1>5, <2>2, <2>3
  <2>5. Received(d) = d
    BY <1>3, <2>4
  <2>6. ~(m >= l)
    BY <1>2, <1>5
  <2> QED
    BY <2>5, <2>6 DEF m, l, q
<1>6. CASE m >= 2
  <2>1. q[1] = R[1] /\ q[2] = R[2]
    BY <1>2, <1>4, <1>6
  <2>2. n = l
    BY <1>2, <1>6, <2>1 DEF DeclaredBy
  <2> HIDE DEF n, m
  <2>3. CASE m < l
    <3>1. Received(d) = d
      BY <1>3, <2>2, <2>3
    <3>2. ~(m >= l)
      BY <1>1, <1>2, <2>3
    <3> QED
      BY <3>1, <3>2 DEF m, q
  <2>4. CASE ~(m < l)
    <3>1. l <= m
      BY <1>1, <1>2, <2>4
    <3> DEFINE p == SubSeq(q, 1, l)
    <3>2. p \in Seq(Octets) /\ Len(p) = l /\ \A i \in 1..l : p[i] = q[i]
      BY <1>1, <1>2, <3>1, PrefixAgrees DEF m
    <3>3. \A i \in 1..l : i \in 1..m /\ i <= l
      BY <1>1, <1>2, <3>1
    <3> HIDE DEF p
    <3>4. \A i \in 1..Len(p) : p[i] = R[i]
      BY <1>4, <3>2, <3>3
    <3>5. p = R
      BY <1>2, <3>2, <3>4, SeqEqual
    <3>6. whole = R
      BY <2>2, <3>5 DEF p
    <3> HIDE DEF whole
    <3>7. n # 0 /\ ~(m < n)
      BY <1>2, <2>2, <2>4
    <3>8. Received(d) = [d EXCEPT !.phase = "busy", !.request = R]
      BY <1>2, <1>3, <3>6, <3>7
    <3> QED
      BY <2>4, <3>8 DEF m, q
  <2> QED
    BY <2>3, <2>4
<1>7. m = 1 \/ m >= 2
  <2> HIDE DEF m
  <2> QED
    BY <1>1
<1> QED
  BY <1>5, <1>6, <1>7

\* The octets of a segment go on where the last one ended.
LEMMA SegmentGoesOn ==
    ASSUME NEW s \in IsduFits, NEW w \in 1..8, s.request_pos < Len(s.request)
    PROVE  LET R == s.request
               P == SubSeq(R, 1, s.request_pos) \o Segment(s, w)
           IN  /\ P \in Seq(Octets) /\ Len(P) = s.request_pos + w /\ Agreeing(P, R)
               /\ s.request_pos = 0 => P = Segment(s, w)
<1> DEFINE R == s.request
           n == s.request_pos
           l == Len(R)
           p == SubSeq(R, 1, n)
           g == Segment(s, w)
           P == p \o g
<1>1. R \in Seq(Octets) /\ n \in Nat /\ l \in Nat /\ n < l
  BY Fields
<1>2. g \in Seq(Octets) /\ g = [i \in 1..w |-> IF n + i <= l THEN R[n + i] ELSE {}]
  BY PaddingTypes DEF Segment
<1> HIDE DEF R, n, g
<1>3. Len(g) = w /\ \A i \in 1..w : n + i <= l => g[i] = R[n + i]
  BY <1>2
<1>4. p \in Seq(Octets) /\ Len(p) = n /\ \A i \in 1..n : p[i] = R[i]
  BY <1>1, PrefixAgrees
<1> HIDE DEF p
<1>5. /\ P \in Seq(Octets) /\ Len(P) = n + w
      /\ \A i \in 1..(n + w) : P[i] = IF i <= n THEN p[i] ELSE g[i - n]
  BY <1>2, <1>3, <1>4, ConcatProperties
<1>6. n = 0 => P = g
  <2>1. n = 0 => p = <<>>
    BY <1>4
  <2> QED
    BY <1>2, <2>1, ConcatEmptySeq
<1> HIDE DEF P
<1>7. ASSUME NEW i \in 1..Len(P), i <= l PROVE P[i] = R[i]
  <2>1. i \in 1..(n + w) /\ n \in Nat /\ w \in Nat
    BY <1>1, <1>5
  <2>2. CASE i <= n
    BY <1>4, <1>5, <2>1, <2>2
  <2>3. CASE ~(i <= n)
    <3>1. i - n \in 1..w /\ n + (i - n) = i
      BY <2>1, <2>3
    <3>2. g[i - n] = R[i]
      BY <1>3, <1>7, <3>1
    <3> QED
      BY <1>5, <2>1, <2>3, <3>2
  <2> QED
    BY <2>2, <2>3
<1> QED
  BY <1>5, <1>6, <1>7 DEF Agreeing, P, p, g, R, n, l

\* The store of the device is changed by what it executes, and by nothing else.
LEMMA StoreKept ==
    ASSUME NEW d \in SoundDevices, NEW ctrl, NEW w, NEW od
    PROVE  /\ DeviceRead(d, ctrl, w).dev.store = d.store
           /\ DeviceWrite(d, ctrl, od).store = d.store
<1>1. d \in Devices /\ Resting(d).store = d.store /\ Resting(d) \in Devices
  BY RestingSound DEF SoundDevices
<1>2. DeviceRead(d, ctrl, w).dev.store = d.store
  BY <1>1 DEF DeviceRead, Devices
<1> DEFINE z == Resting(d)
           x == [z EXCEPT !.phase = "receiving", !.request = od, !.flow = 1]
           y == [d EXCEPT !.request = d.request \o od,
                          !.flow = (d.flow + 1) % CountMod]
<1>4. ASSUME NEW e
      PROVE  \/ Received(e) = e \/ Received(e) = Resting(e)
             \/ \E r : Received(e) = [e EXCEPT !.phase = "busy", !.request = r]
  BY DEF Received
<1>5. ASSUME NEW e, DOMAIN e = DOMAIN d, e.store = d.store,
             e = [a \in DOMAIN e |-> e[a]]
      PROVE  Received(e).store = d.store
  <2>1. DOMAIN d = {"phase", "request", "flow", "response", "pos", "sent", "store",
                    "events"}
    BY <1>1 DEF Devices
  <2>2. Resting(e).store = e.store
    BY <1>5, <2>1 DEF Resting
  <2>3. ASSUME NEW r
        PROVE [e EXCEPT !.phase = "busy", !.request = r].store = e.store
    BY <1>5, <2>1
  <2>4. CASE \E r : Received(e) = [e EXCEPT !.phase = "busy", !.request = r]
    <3>1. PICK r : Received(e) = [e EXCEPT !.phase = "busy", !.request = r]
      BY <2>4
    <3> QED
      BY <1>5, <2>3, <3>1
  <2> QED
    BY <1>4, <1>5, <2>2, <2>4
<1>6. /\ DOMAIN x = DOMAIN d /\ x.store = d.store /\ x = [a \in DOMAIN x |-> x[a]]
      /\ DOMAIN y = DOMAIN d /\ y.store = d.store /\ y = [a \in DOMAIN y |-> y[a]]
  BY <1>1 DEF Devices
<1>7. DeviceWrite(d, ctrl, od) \in {Received(x), Received(y), Resting(d)}
  BY DEF DeviceWrite
<1> HIDE DEF x, y
<1>8. Received(x).store = d.store /\ Received(y).store = d.store
  BY <1>5, <1>6
<1> QED
  BY <1>1, <1>2, <1>7, <1>8

\* The transport has the first n octets of the response, and goes on.
Upto(x, S, n) == Gathering(x) /\ n < Len(S) /\ x.response = SubSeq(S, 1, n)

\* It has all of it, and what it reports is what the response says.
Ended(x, S) ==
    /\ Over(x)
    /\ x.error = "none" => ~Refusal(S) /\ x.response = PayloadOf(S)

\* It may have missed some of it, but took the response for what it is.
EndedRoughly(x, S) == Over(x) /\ (x.error = "none" => ~Refusal(S))

\* Of a decoded response the first octet tells whether the device refused.
LEMMA Decoded ==
    ASSUME NEW s \in IsduFits, NEW S, Len(s.response) >= 1, s.response[1] = S[1],
           ~Pending(s)
    PROVE  /\ EndedRoughly(DecodeResponse(s), S)
           /\ s.response = S => Ended(DecodeResponse(s), S)
<1> DEFINE t == DecodeResponse(s)
<1>1. s \in IsduStates /\ Payload(s) \in Seq(Octets)
  BY Fields, PayloadFits
<1>2. Over(t)
  BY DecodeEnds
<1>3. Negative(s) <=> Refusal(S)
  BY DEF Negative, Refusal
<1>4. s.response = S => Payload(s) = PayloadOf(S)
  BY DEF Payload, PayloadStart, PayloadOf
<1>5. t.error = "none" => ~Negative(s) /\ t.response = Payload(s)
  <2>1. CASE Chkpdu(s.response) # {}
    <3>1. t = [Segmentation(s) EXCEPT !.abort_pending = TRUE]
      BY <2>1 DEF DecodeResponse
    <3>2. t.error = "segmentation"
      BY <1>1, <3>1 DEF Segmentation, IsduStates
    <3> QED
      BY <3>2
  <2>2. CASE ~(Chkpdu(s.response) # {}) /\ Negative(s)
    <3> DEFINE e == IF Len(s.response) >= 4 THEN "device" ELSE "segmentation"
    <3>1. t = [s EXCEPT !.error = e, !.done = TRUE, !.idle_pending = TRUE,
                        !.phase = "none"]
      BY <2>2 DEF DecodeResponse
    <3>2. e # "none"
      OBVIOUS
    <3> HIDE DEF e
    <3>3. t.error = e
      BY <1>1, <3>1 DEF IsduStates
    <3> QED
      BY <3>2, <3>3
  <2>3. CASE ~(Chkpdu(s.response) # {}) /\ ~Negative(s)
    <3>1. t = [s EXCEPT !.response = Payload(s), !.done = TRUE,
                        !.idle_pending = TRUE, !.phase = "none"]
      BY <2>3 DEF DecodeResponse
    <3> DEFINE v == Payload(s)
    <3> HIDE DEF v
    <3>2. t.response = v
      BY <1>1, <3>1 DEF IsduStates, v
    <3> QED
      BY <2>3, <3>2 DEF v
  <2> QED
    BY <2>1, <2>2, <2>3
<1> HIDE DEF t
<1>6. EndedRoughly(t, S)
  BY <1>2, <1>3, <1>5 DEF EndedRoughly
<1>7. s.response = S => Ended(t, S)
  BY <1>2, <1>3, <1>4, <1>5 DEF Ended
<1> QED
  BY <1>6, <1>7 DEF t

LEMMA SameThrough ==
    ASSUME NEW s, NEW x, NEW y, SameIsdu(s, x), SameIsdu(x, y)
    PROVE  SameIsdu(s, y)
BY DEF SameIsdu

\* One octet more, whatever it is.
LEMMA RoughOctet ==
    ASSUME NEW s \in IsduFits, NEW S, Gathering(s), s.response[1] = S[1],
           NEW x \in Octets
    PROVE  LET t == OnOctet(s, x)
           IN  /\ SameIsdu(s, t)
               /\ \/ /\ Gathering(t) /\ t.response[1] = S[1]
                     /\ t.flowctrl = s.flowctrl
                  \/ EndedRoughly(t, S)
<1> DEFINE t == OnOctet(s, x)
           r == s.response
           q == Append(r, x)
           g == Grown(s, x)
<1>1. r \in Seq(Octets) /\ Len(r) >= 1 /\ r[1] = S[1] /\ ~Pending(s)
  BY Fields DEF Gathering
<1>2. q \in Seq(Octets) /\ Len(q) = Len(r) + 1 /\ q[1] = r[1]
  BY <1>1, AppendOctet
<1>3. q[1] = S[1] /\ Len(q) >= 1
  BY <1>1, <1>2
<1> HIDE DEF q
<1>4. Len(r) < BufferSize =>
        /\ g \in IsduFits /\ g.response = q /\ ~Pending(g) /\ SameIsdu(s, g)
        /\ g.flowctrl = s.flowctrl
  BY <1>1, GrownFields DEF Pending, q
<1> HIDE DEF g, r
<1>5. CASE t = Segmentation(s)
  <2>1. Over(t) /\ t.error = "segmentation" /\ SameIsdu(s, t)
    BY <1>1, <1>5, SegmentationEnds
  <2> HIDE DEF t
  <2> QED
    BY <2>1 DEF EndedRoughly, t
<1>6. CASE Len(r) < BufferSize /\ t = DecodeResponse(g)
  <2>1. Len(g.response) >= 1 /\ g.response[1] = S[1] /\ g \in IsduFits /\ ~Pending(g)
    BY <1>3, <1>4, <1>6
  <2>2. EndedRoughly(DecodeResponse(g), S) /\ SameIsdu(g, DecodeResponse(g))
    BY <2>1, Decoded, DecodeEnds
  <2>3. SameIsdu(s, DecodeResponse(g))
    BY <1>4, <1>6, <2>2, SameThrough
  <2> QED
    BY <1>6, <2>2, <2>3
<1>7. CASE Len(r) < BufferSize /\ t = g /\ Gathering(g)
  BY <1>3, <1>4, <1>7
<1> QED
  BY <1>5, <1>6, <1>7, NextOctet DEF g, r

\* One octet more of the response.
LEMMA ExactOctet ==
    ASSUME NEW s \in IsduFits, NEW S, NEW n \in Nat, n >= 1, Whole(S), ~Hopeless(S),
           Upto(s, S, n)
    PROVE  LET t == OnOctet(s, S[n + 1])
           IN  /\ SameIsdu(s, t)
               /\ \/ Upto(t, S, n + 1) /\ t.flowctrl = s.flowctrl
                  \/ Ended(t, S)
<1> DEFINE x == S[n + 1]
           t == OnOctet(s, x)
           r == s.response
           q == Append(r, x)
           g == Grown(s, x)
           l == Len(S)
<1>1. /\ S \in Seq(Octets) /\ l \in Nat /\ DeclaredBy(S) = l /\ l <= BufferSize
      /\ n < l /\ r = SubSeq(S, 1, n) /\ Gathering(s) /\ ~Pending(s) /\ Stream(S)
  <2>1. S \in Seq(Octets) /\ DeclaredBy(S) = l /\ ~(DeclaredBy(S) > BufferSize)
    BY DEF Whole, Stream, Hopeless
  <2>2. l \in Nat
    BY <2>1
  <2>3. l <= BufferSize
    <3> HIDE DEF l
    <3> QED
      BY <2>1, <2>2, BufferAssumption
  <2> QED
    BY <2>1, <2>2, <2>3 DEF Upto, Gathering, Whole
<1>2. n + 1 <= l
  <2> HIDE DEF l
  <2> QED
    BY <1>1
<1>3. /\ x \in Octets /\ Len(r) = n /\ r \in Seq(Octets)
      /\ q = SubSeq(S, 1, n + 1)
  BY <1>1, <1>2, PrefixNext
<1>4. /\ q[1] = S[1] /\ Len(q) = n + 1 /\ DeclaredBy(q) = l
      /\ (n >= 2 => DeclaredBy(r) = l)
  <2>1. n + 1 \in 2..Len(S)
    BY <1>1, <1>2
  <2>2. /\ Len(SubSeq(S, 1, n + 1)) = n + 1 /\ SubSeq(S, 1, n + 1)[1] = S[1]
        /\ DeclaredBy(SubSeq(S, 1, n + 1)) = DeclaredBy(S)
    BY <1>1, <2>1, PrefixDeclared
  <2>3. n >= 2 => n \in 2..Len(S)
    BY <1>1
  <2>4. n >= 2 => DeclaredBy(SubSeq(S, 1, n)) = DeclaredBy(S)
    BY <1>1, <2>3, PrefixDeclared
  <2> HIDE DEF q, r, l
  <2> QED
    BY <1>1, <1>3, <2>2, <2>4
<1> HIDE DEF x
<1>5. Len(r) < BufferSize =>
        /\ g \in IsduFits /\ g.response = q /\ ~Pending(g) /\ SameIsdu(s, g)
        /\ g.flowctrl = s.flowctrl
  BY <1>1, <1>3, GrownFields DEF Pending
<1>6. \/ /\ Len(r) >= BufferSize /\ s.expected_len > BufferSize
      \/ /\ Len(r) < BufferSize /\ Len(r) + 1 >= DeclaredBy(q)
         /\ t = DecodeResponse(g)
      \/ Len(r) < BufferSize /\ t = g /\ Gathering(g)
  BY <1>1, <1>3, NextOctet
<1> HIDE DEF g, q, t
<1>7. ~(Len(r) >= BufferSize)
  <2> HIDE DEF r, l
  <2> QED
    BY <1>1, <1>3, BufferAssumption
<1>8. n + 1 = l => q = S
  <2>1. n + 1 = Len(S) => SubSeq(S, 1, n + 1) = S
    BY <1>1, PrefixAgrees
  <2> QED
    BY <1>3, <2>1
<1>9. CASE Len(r) < BufferSize /\ Len(r) + 1 >= DeclaredBy(q) /\ t = DecodeResponse(g)
  <2> HIDE DEF r, l
  <2>1. q = S
    BY <1>1, <1>2, <1>3, <1>4, <1>8, <1>9
  <2>2. g \in IsduFits /\ g.response = S /\ Len(g.response) >= 1 /\ ~Pending(g)
    BY <1>4, <1>5, <1>9, <2>1
  <2>3. Ended(DecodeResponse(g), S) /\ SameIsdu(g, DecodeResponse(g))
    BY <2>2, Decoded, DecodeEnds
  <2>4. SameIsdu(s, DecodeResponse(g))
    BY <1>5, <1>9, <2>3, SameThrough
  <2> QED
    BY <1>9, <2>3, <2>4 DEF t, x
<1>10. CASE Len(r) < BufferSize /\ t = g /\ Gathering(g)
  <2>1. g.response # S
    BY <1>1, <1>10, NotWhole
  <2> HIDE DEF r, l
  <2>2. n + 1 # l
    BY <1>5, <1>8, <1>10, <2>1
  <2>3. n + 1 < l
    BY <1>1, <1>2, <2>2
  <2>4. Upto(t, S, n + 1)
    BY <1>3, <1>5, <1>10, <2>3 DEF Upto, l
  <2> QED
    BY <1>5, <1>10, <2>4 DEF t, x
<1> QED
  BY <1>6, <1>7, <1>9, <1>10

\* Octets of whatever origin.
LEMMA RoughSegment ==
    ASSUME NEW s \in IsduFits, NEW S, Gathering(s), s.response[1] = S[1],
           NEW od \in Seq(Octets)
    PROVE  LET t == IsduOnOd(s, od)
           IN  /\ SameIsdu(s, t)
               /\ \/ /\ Gathering(t) /\ t.response[1] = S[1]
                     /\ t.flowctrl = s.flowctrl
                  \/ EndedRoughly(t, S)
<1> DEFINE Fine(x) == /\ SameIsdu(s, x)
                      /\ \/ /\ Gathering(x) /\ x.response[1] = S[1]
                            /\ x.flowctrl = s.flowctrl
                         \/ EndedRoughly(x, S)
           good == [n \in 0..Len(od) |-> {x \in IsduFits : Fine(x)}]
<1>1. Fine(s)
  BY DEF SameIsdu
<1> HIDE DEF Fine
<1>2. \A n \in 0..Len(od) : \A x : x \in good[n] <=> x \in IsduFits /\ Fine(x)
  OBVIOUS
<1>3. Len(od) \in Nat
  OBVIOUS
<1> HIDE DEF good
<1>4. ASSUME NEW n \in 1..Len(od), NEW x \in IsduFits, x \in good[n - 1]
      PROVE  OnOctet(x, od[n]) \in good[n]
  <2> DEFINE y == od[n]
             t == OnOctet(x, y)
  <2>1. n - 1 \in 0..Len(od) /\ n \in 0..Len(od) /\ y \in Octets
    BY <1>3
  <2>2. Fine(x)
    BY <1>2, <1>4, <2>1
  <2> HIDE DEF y
  <2>3. t \in IsduFits
    BY <2>1, OnOctetFits
  <2>4. CASE Gathering(x) /\ x.response[1] = S[1] /\ x.flowctrl = s.flowctrl
    <3>1. /\ SameIsdu(x, t)
          /\ \/ Gathering(t) /\ t.response[1] = S[1] /\ t.flowctrl = x.flowctrl
             \/ EndedRoughly(t, S)
      BY <2>1, <2>4, RoughOctet
    <3>2. SameIsdu(s, t)
      BY <2>2, <3>1, SameThrough DEF Fine
    <3> HIDE DEF t
    <3>3. Fine(t)
      BY <2>4, <3>1, <3>2 DEF Fine
    <3> QED
      BY <1>2, <2>1, <2>3, <3>3 DEF t, y
  <2>5. CASE EndedRoughly(x, S)
    <3>1. t = x
      BY <2>5 DEF EndedRoughly, Over, OnOctet
    <3> HIDE DEF t
    <3>2. t \in good[n]
      BY <1>2, <2>1, <2>2, <3>1
    <3> QED
      BY <3>2 DEF t, y
  <2> QED
    BY <2>2, <2>4, <2>5 DEF Fine
<1>5. s \in good[0] /\ Len(od) \in 0..Len(od)
  BY <1>1, <1>2, <1>3
<1>6. IsduOnOd(s, od) \in good[Len(od)]
  BY <1>4, <1>5, Segments
<1>7. Fine(IsduOnOd(s, od))
  BY <1>2, <1>5, <1>6
<1> QED
  BY <1>7 DEF Fine

\* The first octet of a response, which ends the wait.
LEMMA FirstExact ==
    ASSUME NEW s \in IsduFits, s.phase = "wait", ~s.done, ~Pending(s),
           NEW S, Whole(S)
    PROVE  LET t == OnOctet(s, S[1])
           IN  SameIsdu(s, t) /\ Upto(t, S, 1) /\ t.flowctrl = 1
<1>1. /\ S \in Seq(Octets) /\ Len(S) \in Nat /\ Len(S) >= 2 /\ S[1] \in Octets
      /\ S[1] \notin {NoService, Busy} /\ LengthNibble(S[1]) >= 1
  BY DEF Whole, Stream
<1> DEFINE t == OnOctet(s, S[1])
<1>2. Gathering(t) /\ t.response = <<S[1]>> /\ t.flowctrl = 1 /\ SameIsdu(s, t)
  BY <1>1, FirstOctet
<1>3. SubSeq(S, 1, 1) = <<S[1]>>
  <2>1. 0 \in Nat /\ 0 + 1 <= Len(S) /\ 0 + 1 = 1
    BY <1>1
  <2>2. SubSeq(S, 1, 0 + 1) = Append(SubSeq(S, 1, 0), S[0 + 1])
    BY <1>1, <2>1, PrefixNext
  <2>3. SubSeq(S, 1, 0) = <<>> /\ Append(<<>>, S[1]) = <<S[1]>>
    BY SubSeqEmpty
  <2> QED
    BY <2>1, <2>2, <2>3
<1> HIDE DEF t
<1>4. Upto(t, S, 1)
  BY <1>1, <1>2, <1>3 DEF Upto
<1> QED
  BY <1>2, <1>4 DEF t

\* A segment of the response, the first one or a later one.
LEMMA ExactSegment ==
    ASSUME NEW s \in IsduFits, NEW S, Whole(S), ~Hopeless(S), NEW w \in 1..8,
           NEW from \in Nat,
           \/ from = 0 /\ s.phase = "wait" /\ ~s.done /\ ~Pending(s)
           \/ from >= 1 /\ Upto(s, S, from)
    PROVE  LET t == IsduOnOd(s, SegmentOf(S, from, w))
           IN  /\ SameIsdu(s, t)
               /\ \/ /\ Upto(t, S, from + w)
                     /\ t.flowctrl = IF from = 0 THEN 1 ELSE s.flowctrl
                  \/ Ended(t, S)
<1> DEFINE od == SegmentOf(S, from, w)
           c == IF from = 0 THEN 1 ELSE s.flowctrl
           Gone(n, x) == /\ SameIsdu(s, x)
                         /\ \/ Upto(x, S, n) /\ x.flowctrl = c
                            \/ Ended(x, S)
           Fine(n, x) == IF from + n = 0 THEN x = s ELSE Gone(from + n, x)
           good == [n \in 0..w |-> {x \in IsduFits : Fine(n, x)}]
<1>1. S \in Seq(Octets) /\ Len(S) \in Nat
  BY DEF Whole, Stream
<1>2. od \in Seq(Octets)
  <2>1. from \in Nat /\ w \in Nat
    OBVIOUS
  <2> QED
    BY <1>1, <2>1, PaddingTypes, Zenon
<1>3. Len(od) = w
      /\ \A i \in 1..w : od[i] = IF from + i <= Len(S) THEN S[from + i] ELSE {}
  BY DEF SegmentOf
<1> HIDE DEF od
<1>4. Fine(0, s)
  <2>1. from >= 1 => SameIsdu(s, s) /\ Upto(s, S, from) /\ s.flowctrl = c
    BY DEF SameIsdu
  <2>2. from + 0 = from /\ (from = 0 \/ from >= 1)
    OBVIOUS
  <2> HIDE DEF c
  <2> QED
    BY <2>1, <2>2
<1> HIDE DEF Gone
<1>5. \A n \in 0..w : \A x : x \in good[n] <=> x \in IsduFits /\ Fine(n, x)
  OBVIOUS
<1> HIDE DEF good
<1>6. ASSUME NEW n \in 1..Len(od), NEW x \in IsduFits, x \in good[n - 1]
      PROVE  OnOctet(x, od[n]) \in good[n]
  <2> DEFINE y == od[n]
             t == OnOctet(x, y)
             k == from + (n - 1)
  <2>1. n - 1 \in 0..w /\ n \in 0..w /\ n \in 1..w /\ y \in Octets
        /\ k \in Nat /\ k + 1 = from + n /\ k + 1 # 0
    BY <1>2, <1>3
  <2>2. Fine(n - 1, x) /\ y = IF k + 1 <= Len(S) THEN S[k + 1] ELSE {}
    BY <1>3, <1>5, <1>6, <2>1
  <2>3. IF k = 0 THEN x = s ELSE Gone(k, x)
    BY <2>2
  <2> HIDE DEF y, k, Fine
  <2>4. t \in IsduFits
    BY <2>1, OnOctetFits
  <2>5. Gone(k + 1, t)
    <3>1. CASE k = 0
      <4>1. from = 0 /\ 1 <= Len(S) /\ k + 1 = 1
        BY <2>1, <3>1 DEF k, Whole, Stream
      <4>2. y = S[1] /\ x = s /\ c = 1
        BY <2>2, <2>3, <3>1, <4>1
      <4>3. SameIsdu(s, t) /\ Upto(t, S, 1) /\ t.flowctrl = 1
        BY <4>1, <4>2, FirstExact
      <4> HIDE DEF t, c
      <4> QED
        BY <4>1, <4>2, <4>3 DEF Gone
    <3>2. CASE k # 0 /\ Upto(x, S, k) /\ x.flowctrl = c
      <4>1. k >= 1 /\ k + 1 <= Len(S) /\ k \in Nat
        BY <1>1, <2>1, <3>2 DEF Upto
      <4>2. y = S[k + 1]
        BY <2>2, <4>1
      <4>3. /\ SameIsdu(x, t)
            /\ \/ Upto(t, S, k + 1) /\ t.flowctrl = x.flowctrl
               \/ Ended(t, S)
        BY <3>2, <4>1, <4>2, ExactOctet
      <4> HIDE DEF t, c
      <4>4. SameIsdu(s, t)
        BY <2>3, <3>2, <4>3, SameThrough DEF Gone
      <4> QED
        BY <3>2, <4>3, <4>4 DEF Gone
    <3>3. CASE k # 0 /\ Ended(x, S)
      <4>1. t = x
        BY <3>3 DEF Ended, Over, OnOctet
      <4> HIDE DEF t
      <4> QED
        BY <2>3, <3>3, <4>1 DEF Gone
    <3> QED
      BY <2>3, <3>1, <3>2, <3>3 DEF Gone
  <2> HIDE DEF t
  <2>6. Fine(n, t)
    BY <2>1, <2>5 DEF Fine
  <2>7. t \in good[n]
    BY <1>5, <2>1, <2>4, <2>6
  <2> QED
    BY <2>7 DEF t, y
<1>7. s \in good[0] /\ w \in 0..w /\ from + w # 0
  BY <1>4, <1>5
<1> HIDE DEF Fine
<1>8. IsduOnOd(s, od) \in good[w]
  BY <1>2, <1>3, <1>6, <1>7, Segments
<1>9. Gone(from + w, IsduOnOd(s, od))
  <2>1. Fine(w, IsduOnOd(s, od))
    BY <1>5, <1>7, <1>8
  <2> QED
    BY <1>7, <2>1 DEF Fine
<1> QED
  BY <1>9 DEF Gone, od

-----------------------------------------------------------------------------
(* What the caller, the device and the line agree on.                      *)

RequestOf(s, o) == IF s.op = "read" THEN ReadRequest(s.index)
                   ELSE WriteRequest(s.index, o.data)

ReplyTo(s, o) == IF o.made = "refused" THEN NegativeResponse(s.op)
                 ELSE PositiveResponse(s.op, o.value)

\* The request says what the caller asked for.
Known(s, o) ==
    /\ s.op = "none" => s.index = NoObject
    /\ s.op # "none" => /\ s.index \in Objects /\ s.request = RequestOf(s, o)
    /\ s.op = "read" => o.data = <<>>
    /\ s.op = "write" => /\ \E v \in Writes : o.data = v[2]
                         /\ WriteFits(s.index, o.data) /\ o.value = <<>>
    /\ o.made # "executed" => o.value = <<>>
    /\ Fits(o.value)

\* The device has the part of the request that was sent, or has lost step.
Sending(s, d, L) ==
    /\ s.request_pos < Len(s.request) /\ d.phase # "busy"
    /\ d.phase = "answering" => L = 1
    /\ d.phase = "receiving" =>
          \/ /\ d.flow = s.flowctrl
             /\ d.request = SubSeq(s.request, 1, s.request_pos)
          \/ L = 1 /\ d.flow # s.flowctrl

\* The device has the request, or not.
Expecting(s, d, o) ==
    /\ d.phase \in {"receiving", "busy"} => o.made = "nothing"
    /\ d.phase = "busy" => d.request = s.request
    /\ d.phase = "answering" => o.made # "nothing" /\ d.response = ReplyTo(s, o)

\* The transport has n octets of the response, unless something was missed.
Collecting(s, d, o, n, w) ==
    /\ o.made # "nothing" /\ s.response[1] = ReplyTo(s, o)[1]
    /\ d.phase = "answering" => d.response = ReplyTo(s, o)
    /\ ~o.missed => /\ d.phase = "answering" /\ s.flowctrl = d.flow
                    /\ d.pos = d.sent + w
                    /\ n >= 1 /\ Upto(s, ReplyTo(s, o), n)

Finished(s, o) ==
    /\ o.made # "nothing"
    /\ s.error = "none" => /\ o.made = "executed"
                           /\ ~o.missed => s.response = o.value

Kept(s, d, o, L, n, w) ==
    /\ Known(s, o)
    /\ \A x \in Objects : Fits(d.store[x])
    /\ d.phase = "answering" => ~Hopeless(d.response)
    /\ s.phase = "request" => o.made = "nothing"
    /\ s.phase = "request" /\ s.request_pos > 0 => Sending(s, d, L)
    /\ s.phase = "wait" => Expecting(s, d, o)
    /\ s.phase = "response" => Collecting(s, d, o, n, w)
    /\ s.done => Finished(s, o)

\* The segment that is on its way.
Underway(r, S, from, w) == r.channel = "isdu" /\ r.od = SegmentOf(S, from, w)

ChanInv ==
    /\ Kept(isdu, dev, obs, spent.losses, dev.sent, od_len)
    /\ isdu.phase = "response" /\ ~obs.missed =>
          Underway(reply, ReplyTo(isdu, obs), dev.sent, od_len)

LEMMA KeptAside ==
    ASSUME NEW s, NEW d, NEW o, NEW L, NEW n, NEW w, Kept(s, d, o, L, n, w),
           NEW e, e.phase = d.phase, e.request = d.request, e.response = d.response,
           e.flow = d.flow, e.pos = d.pos, e.sent = d.sent, e.store = d.store,
           NEW M, L = 1 => M = 1,
           NEW p, p.made = o.made, p.value = o.value, p.data = o.data,
           o.missed => p.missed, NEW m, s.phase = "response" => p.missed \/ m = n
    PROVE  Kept(s, e, p, M, m, w)
<1>1. Known(s, p)
  BY DEF Kept, Known, RequestOf
<1>2. s.phase = "request" /\ s.request_pos > 0 => Sending(s, e, M)
  BY DEF Kept, Sending
<1>3. ReplyTo(s, p) = ReplyTo(s, o)
  BY DEF ReplyTo
<1>4. s.phase = "wait" => Expecting(s, e, p)
  BY <1>3 DEF Kept, Expecting
<1>5. s.phase = "response" => Collecting(s, e, p, m, w)
  BY <1>3 DEF Kept, Collecting
<1>6. s.done => Finished(s, p)
  BY DEF Kept, Finished
<1> QED
  BY <1>1, <1>2, <1>4, <1>5, <1>6 DEF Kept

\* The reply of a service is a whole response that fits the buffer.
LEMMA ReplyFits ==
    ASSUME NEW s \in IsduFits, NEW o \in ObsStates, s.op # "none", Known(s, o),
           o.made # "nothing"
    PROVE  LET S == ReplyTo(s, o)
           IN  /\ Whole(S) /\ ~Hopeless(S)
               /\ (Refusal(S) <=> o.made = "refused")
               /\ o.made = "executed" => PayloadOf(S) = o.value
<1>1. s.op \in {"read", "write"} /\ o.value \in Seq(Octets) /\ Fits(o.value)
      /\ o.made \in {"executed", "refused"}
  BY Fields DEF IsduStates, ObsStates, Known
<1> DEFINE op == s.op
           v == o.value
<1> HIDE DEF op, v
<1>2. /\ Whole(PositiveResponse(op, v)) /\ ~Hopeless(PositiveResponse(op, v))
      /\ ~Refusal(PositiveResponse(op, v))
      /\ PayloadOf(PositiveResponse(op, v)) = v
      /\ Whole(NegativeResponse(op)) /\ ~Hopeless(NegativeResponse(op))
      /\ Refusal(NegativeResponse(op))
  BY <1>1, ReplyStreams DEF op, v
<1>3. ReplyTo(s, o) = IF o.made = "refused" THEN NegativeResponse(op)
                      ELSE PositiveResponse(op, v)
  BY DEF ReplyTo, op, v
<1>4. CASE o.made = "refused"
  BY <1>2, <1>3, <1>4
<1>5. CASE o.made = "executed"
  BY <1>2, <1>3, <1>5 DEF v
<1> QED
  BY <1>1, <1>4, <1>5

LEMMA SameService ==
    ASSUME NEW s, NEW t, SameIsdu(s, t), NEW o, Known(s, o)
    PROVE  Known(t, o) /\ ReplyTo(t, o) = ReplyTo(s, o)
BY DEF SameIsdu, Known, ReplyTo, RequestOf

\* What ends a response ends the service as the device saw it.
LEMMA EndedFinished ==
    ASSUME NEW s \in IsduFits, NEW o \in ObsStates, s.op # "none", Known(s, o),
           o.made # "nothing", NEW t, NEW S, S = ReplyTo(s, o),
           Ended(t, S) \/ (o.missed /\ EndedRoughly(t, S))
    PROVE  Finished(t, o)
<1>1. /\ (Refusal(S) <=> o.made = "refused")
      /\ o.made = "executed" => PayloadOf(S) = o.value
  BY ReplyFits
<1>2. o.made \in {"executed", "refused"}
  BY DEF ObsStates
<1>3. CASE Ended(t, S)
  BY <1>1, <1>2, <1>3 DEF Ended, Finished
<1>4. CASE o.missed /\ EndedRoughly(t, S)
  BY <1>1, <1>2, <1>4 DEF EndedRoughly, Finished
<1> QED
  BY <1>3, <1>4

-----------------------------------------------------------------------------
(* The octets that arrive.                                                 *)

LEMMA KeptWait ==
    ASSUME NEW s \in IsduFits, NEW d \in SoundDevices, NEW o \in ObsStates,
           NEW w \in 1..8, NEW L, NEW q \in Seq(Octets), ~Pending(s),
           Together(s, d, o, L, q, w), Kept(s, d, o, L, d.sent, w), s.phase = "wait"
    PROVE  /\ SameIsdu(s, IsduOnOd(s, q))
           /\ Kept(IsduOnOd(s, q), d, o, L, d.pos, w)
<1> DEFINE t == IsduOnOd(s, q)
           S == ReplyTo(s, o)
<1>1. s.op # "none" /\ ~s.done /\ s.flowctrl = Start /\ (Idles(q) \/ First(d, q, w))
  BY DEF Together, Ordered, Waiting
<1>2. CASE Idles(q)
  <2>1. t = s
    BY <1>2, OctetsIgnored
  <2>2. Kept(s, d, o, L, d.pos, w)
    BY KeptAside
  <2> QED
    BY <2>1, <2>2 DEF SameIsdu
<1>3. CASE First(d, q, w)
  <2>1. /\ d.phase = "answering" /\ q = SegmentOf(d.response, 0, w)
        /\ d.flow = 1 /\ d.pos = w /\ d.sent = 0
    BY <1>3 DEF First
  <2>2. Known(s, o) /\ o.made # "nothing" /\ d.response = S
    BY <2>1 DEF Kept, Expecting
  <2>3. Whole(S) /\ ~Hopeless(S)
    BY <1>1, <2>2, ReplyFits
  <2> HIDE DEF S
  <2>4. q = SegmentOf(S, 0, w) /\ 0 + w = w /\ 0 \in Nat
    BY <2>1, <2>2
  <2>5. /\ SameIsdu(s, t)
        /\ \/ Upto(t, S, w) /\ t.flowctrl = 1
           \/ Ended(t, S)
    BY <1>1, <2>3, <2>4, ExactSegment
  <2> HIDE DEF t
  <2>6. Known(t, o) /\ ReplyTo(t, o) = S
    BY <2>2, <2>5, SameService DEF S
  <2>7. CASE Upto(t, S, w) /\ t.flowctrl = 1
    <3>1. t.phase = "response" /\ ~t.done
      BY <2>7 DEF Upto, Gathering
    <3>2. t.response[1] = S[1]
      <4>1. S \in Seq(Octets) /\ w \in Nat /\ w <= Len(S) /\ 1 \in 1..w
        BY <2>3, <2>7 DEF Whole, Stream, Upto
      <4>2. \A i \in 1..w : SubSeq(S, 1, w)[i] = S[i]
        BY <4>1, PrefixAgrees
      <4> QED
        BY <2>7, <4>1, <4>2 DEF Upto
    <3>3. w >= 1 /\ d.pos = d.sent + w
      BY <2>1
    <3>4. Collecting(t, d, o, d.pos, w)
      BY <2>1, <2>2, <2>6, <2>7, <3>2, <3>3 DEF Collecting
    <3> QED
      BY <2>5, <2>6, <3>1, <3>4 DEF Kept, t
  <2>8. CASE Ended(t, S)
    <3>1. t.phase = "none"
      BY <2>8 DEF Ended, Over
    <3>2. Finished(t, o)
      BY <1>1, <2>2, <2>8, EndedFinished DEF S
    <3> QED
      BY <2>5, <2>6, <3>1, <3>2 DEF Kept, t
  <2> QED
    BY <2>5, <2>7, <2>8
<1> QED
  BY <1>1, <1>2, <1>3

LEMMA KeptResponse ==
    ASSUME NEW s \in IsduFits, NEW d \in SoundDevices, NEW o \in ObsStates,
           NEW w \in 1..8, NEW L, NEW q \in Seq(Octets), ~Pending(s),
           Together(s, d, o, L, q, w), Kept(s, d, o, L, d.sent, w),
           s.phase = "response",
           ~o.missed => q = SegmentOf(ReplyTo(s, o), d.sent, w)
    PROVE  /\ SameIsdu(s, IsduOnOd(s, q))
           /\ Kept(IsduOnOd(s, q), d, o, L, d.pos, w)
<1> DEFINE t == IsduOnOd(s, q)
           S == ReplyTo(s, o)
<1>1. s.op # "none" /\ ~s.done /\ Gathering(s)
  BY DEF Together, Ordered, Responding
<1>2. /\ Known(s, o) /\ o.made # "nothing" /\ s.response[1] = S[1]
      /\ Collecting(s, d, o, d.sent, w)
  BY DEF Kept, Collecting
<1>3. Whole(S) /\ ~Hopeless(S)
  BY <1>1, <1>2, ReplyFits
<1>4. d.phase = "answering" => d.response = S
  BY <1>2 DEF Collecting
<1> HIDE DEF S
<1>5. CASE o.missed
  <2>1. /\ SameIsdu(s, t)
        /\ \/ Gathering(t) /\ t.response[1] = S[1]
           \/ EndedRoughly(t, S)
    BY <1>1, <1>2, RoughSegment
  <2> HIDE DEF t
  <2>2. Known(t, o) /\ ReplyTo(t, o) = S
    BY <1>2, <2>1, SameService DEF S
  <2>3. CASE Gathering(t) /\ t.response[1] = S[1]
    <3>1. t.phase = "response" /\ ~t.done
      BY <2>3 DEF Gathering
    <3>2. Collecting(t, d, o, d.pos, w)
      BY <1>2, <1>4, <1>5, <2>2, <2>3 DEF Collecting
    <3> QED
      BY <2>1, <2>2, <3>1, <3>2 DEF Kept, t
  <2>4. CASE EndedRoughly(t, S)
    <3>1. t.phase = "none"
      BY <2>4 DEF EndedRoughly, Over
    <3>2. Finished(t, o)
      BY <1>1, <1>2, <1>5, <2>4, EndedFinished DEF S
    <3> QED
      BY <2>1, <2>2, <3>1, <3>2 DEF Kept, t
  <2> QED
    BY <2>1, <2>3, <2>4
<1>6. CASE ~o.missed
  <2>1. /\ d.phase = "answering" /\ s.flowctrl = d.flow /\ d.pos = d.sent + w
        /\ d.sent >= 1 /\ Upto(s, S, d.sent)
    BY <1>2, <1>6 DEF Collecting, S
  <2>2. q = SegmentOf(S, d.sent, w) /\ d.sent \in Nat /\ d.sent # 0
    BY <1>6, <2>1, DeviceFields DEF S
  <2> DEFINE k == d.sent
  <2> HIDE DEF k
  <2>3. /\ SameIsdu(s, t)
        /\ \/ Upto(t, S, k + w) /\ t.flowctrl = s.flowctrl
           \/ Ended(t, S)
    <3>1. k \in Nat /\ k >= 1 /\ k # 0 /\ Upto(s, S, k) /\ q = SegmentOf(S, k, w)
      BY <2>1, <2>2 DEF k
    <3> QED
      BY <1>3, <3>1, ExactSegment
  <2> HIDE DEF t
  <2>4. Known(t, o) /\ ReplyTo(t, o) = S
    BY <1>2, <2>3, SameService DEF S
  <2>5. CASE Upto(t, S, k + w) /\ t.flowctrl = s.flowctrl
    <3>1. t.phase = "response" /\ ~t.done
      BY <2>5 DEF Upto, Gathering
    <3>2. k + w \in Nat /\ k + w >= 1 /\ d.pos = k + w
      BY <2>1, <2>2 DEF k
    <3>3. t.response[1] = S[1]
      <4>1. S \in Seq(Octets) /\ k + w <= Len(S) /\ 1 \in 1..(k + w)
        BY <1>3, <2>5, <3>2 DEF Whole, Stream, Upto
      <4>2. \A i \in 1..(k + w) : SubSeq(S, 1, k + w)[i] = S[i]
        BY <3>2, <4>1, PrefixAgrees
      <4>3. SubSeq(S, 1, k + w)[1] = S[1]
        BY <4>1, <4>2, Zenon
      <4>4. t.response = SubSeq(S, 1, k + w)
        BY <2>5, Zenon DEF Upto
      <4> HIDE DEF k
      <4> QED
        BY <4>3, <4>4, Zenon
    <3>4. Collecting(t, d, o, d.pos, w)
      BY <1>2, <1>4, <2>1, <2>4, <2>5, <3>2, <3>3 DEF Collecting
    <3> QED
      BY <2>3, <2>4, <3>1, <3>4 DEF Kept, t
  <2>6. CASE Ended(t, S)
    <3>1. t.phase = "none"
      BY <2>6 DEF Ended, Over
    <3>2. Finished(t, o)
      BY <1>1, <1>2, <2>6, EndedFinished DEF S
    <3> QED
      BY <2>3, <2>4, <3>1, <3>2 DEF Kept, t
  <2> QED
    BY <2>3, <2>5, <2>6
<1> QED
  BY <1>5, <1>6

\* The reply of the last tick is routed: what was on its way is in.
LEMMA KeptRouted ==
    ASSUME NEW s \in IsduFits, NEW d \in SoundDevices, NEW o \in ObsStates,
           NEW w \in 1..8, NEW L, NEW q \in Seq(Octets), ~Pending(s),
           Together(s, d, o, L, q, w), Kept(s, d, o, L, d.sent, w),
           s.phase = "response" /\ ~o.missed => q = SegmentOf(ReplyTo(s, o), d.sent, w)
    PROVE  /\ SameIsdu(s, IsduOnOd(s, q))
           /\ Kept(IsduOnOd(s, q), d, o, L, d.pos, w)
           /\ s.phase \notin {"wait", "response"} => IsduOnOd(s, q) = s
<1>1. CASE s.phase \notin {"wait", "response"}
  <2>1. IsduOnOd(s, q) = s
    BY <1>1, OctetsIgnored
  <2>2. Kept(s, d, o, L, d.pos, w)
    BY <1>1, KeptAside
  <2> QED
    BY <2>1, <2>2 DEF SameIsdu
<1> QED
  BY <1>1, KeptWait, KeptResponse

-----------------------------------------------------------------------------
(* The frames that are sent.                                               *)

\* In step the device takes the next octets of the request, and the whole
\* request when they are the last ones; out of step it drops what it had.
LEMMA InStep ==
    ASSUME NEW s \in IsduFits, NEW d \in SoundDevices, NEW w \in 1..8,
           Whole(s.request), Len(s.request) >= 3, s.request_pos < Len(s.request),
           \/ s.request_pos = 0 /\ s.flowctrl = Start
           \/ /\ d.phase = "receiving" /\ s.flowctrl = d.flow
              /\ d.request = SubSeq(s.request, 1, s.request_pos) /\ s.request_pos > 0
    PROVE  LET e == DeviceWrite(d, s.flowctrl, Segment(s, w))
               n == s.request_pos + w
           IN  /\ ~(n >= Len(s.request)) =>
                     /\ e.phase = "receiving" /\ e.flow = NextCount(s.flowctrl)
                     /\ e.request = SubSeq(s.request, 1, n)
               /\ n >= Len(s.request) => e.phase = "busy" /\ e.request = s.request
<1> DEFINE R == s.request
           pos == s.request_pos
           g == Segment(s, w)
           n == pos + w
           P == SubSeq(R, 1, pos) \o g
           z == Resting(d)
           x == [z EXCEPT !.phase = "receiving", !.request = g, !.flow = 1]
           c == (d.flow + 1) % CountMod
           q == d.request \o g
           y == [d EXCEPT !.request = q, !.flow = c]
           e == DeviceWrite(d, s.flowctrl, g)
<1>1. R \in Seq(Octets) /\ pos \in Nat /\ Len(R) \in Nat /\ n \in Nat /\ n >= 1
  BY Fields
<1>2. P \in Seq(Octets) /\ Len(P) = n /\ Agreeing(P, R) /\ (pos = 0 => P = g)
  BY SegmentGoesOn
<1>3. g \in Seq(Octets) /\ g # <<>>
  BY PaddingTypes
<1>4. d \in Devices /\ d.request \in Seq(Octets) /\ d.flow \in 0..15 /\ Start = 16
      /\ (d.phase \in {"receiving", "busy"} => d.request # <<>>)
  BY DeviceFields DEF SoundDevices, Start
<1>5. x \in SoundDevices /\ x.phase = "receiving" /\ x.request = g /\ x.flow = 1
  <2>1. 1 \in 0..(CountMod - 1)
    BY DEF CountMod
  <2>2. z \in SoundDevices
    BY RestingSound
  <2> HIDE DEF z, g
  <2> QED
    BY <1>3, <2>1, <2>2 DEF SoundDevices, Devices
<1>6. c \in 0..(CountMod - 1)
  <2>1. \A k \in 0..15 : (k + 1) % CountMod \in 0..(CountMod - 1)
    BY DEF CountMod
  <2> QED
    BY <1>4, <2>1, Zenon
<1>7. ASSUME pos > 0
      PROVE  q = P /\ y \in SoundDevices /\ y.phase = "receiving"
             /\ y.request = P /\ y.flow = c
  <2>1. d.request = SubSeq(R, 1, pos) /\ d.phase = "receiving"
    BY <1>1, <1>7
  <2>2. q = P
    BY <2>1
  <2>3. P # <<>>
    BY <1>1, <1>2
  <2> HIDE DEF c, q, P
  <2>4. y \in SoundDevices /\ y.phase = d.phase /\ y.request = q /\ y.flow = c
    BY <1>2, <1>4, <1>6, <2>2, <2>3 DEF SoundDevices, Devices
  <2> HIDE DEF y
  <2> QED
    BY <2>1, <2>2, <2>4
<1>8. e = IF s.flowctrl = Start THEN Received(x)
          ELSE IF d.phase = "receiving" /\ s.flowctrl = d.flow THEN Received(y)
          ELSE z
  BY DEF DeviceWrite
<1>9. \E b \in SoundDevices :
         /\ e = Received(b) /\ b.phase = "receiving" /\ b.request = P
         /\ b.flow = NextCount(s.flowctrl)
  <2>1. CASE pos = 0
    <3>1. s.flowctrl = Start /\ P = g /\ NextCount(s.flowctrl) = 1
      BY <1>2, <2>1 DEF NextCount
    <3> HIDE DEF x, P, g, e
    <3> QED
      BY <1>5, <1>8, <3>1
  <2>2. CASE pos > 0
    <3>1. d.phase = "receiving" /\ s.flowctrl = d.flow
      BY <1>1, <2>2
    <3>2. d.flow \in 0..15 /\ d.flow # Start
      BY <1>4
    <3>3. NextCount(d.flow) = c
      <4>1. d.flow \notin {Start, IdleCtrl}
        BY <3>2 DEF Start, IdleCtrl
      <4> QED
        BY <4>1, Zenon DEF NextCount
    <3>4. s.flowctrl # Start /\ NextCount(s.flowctrl) = c
      BY <3>1, <3>2, <3>3, Zenon
    <3> HIDE DEF x, y, P, e, c
    <3> QED
      BY <1>7, <1>8, <2>2, <3>1, <3>4
  <2> QED
    BY <1>1, <2>1, <2>2
<1> HIDE DEF P, e, x, y, z, g, c, q
<1>10. PICK b \in SoundDevices :
         /\ e = Received(b) /\ b.phase = "receiving" /\ b.request = P
         /\ b.flow = NextCount(s.flowctrl)
  BY <1>9
<1>11. Len(b.request) >= 1 /\ Agreeing(b.request, R) /\ Len(b.request) = n
  BY <1>1, <1>2, <1>10
<1>12. /\ n < Len(R) => Received(b) = b
       /\ n >= Len(R) => Received(b) = [b EXCEPT !.phase = "busy", !.request = R]
  <2>1. Whole(R) /\ Len(R) >= 3 /\ b \in SoundDevices
    BY <1>10
  <2> HIDE DEF R, n
  <2>2. /\ Len(b.request) < Len(R) => Received(b) = b
        /\ Len(b.request) >= Len(R) =>
              Received(b) = [b EXCEPT !.phase = "busy", !.request = R]
    BY <1>11, <2>1, Reception
  <2> QED
    BY <1>11, <2>2
<1>13. CASE ~(n >= Len(R))
  <2>1. n < Len(R) /\ n <= Len(R)
    BY <1>1, <1>13
  <2>2. P = SubSeq(R, 1, n)
    BY <1>1, <1>2, <2>1, PrefixIs
  <2> HIDE DEF n
  <2>3. e = b
    BY <1>10, <1>12, <2>1
  <2> QED
    BY <1>10, <1>13, <2>2, <2>3 DEF n, e, g
<1>14. CASE n >= Len(R)
  <2> HIDE DEF n
  <2>1. e = [b EXCEPT !.phase = "busy", !.request = R]
    BY <1>10, <1>12, <1>14
  <2>2. b \in Devices
    BY DEF SoundDevices
  <2> HIDE DEF R
  <2>3. e.phase = "busy" /\ e.request = R
    BY <2>1, <2>2 DEF Devices
  <2> QED
    BY <1>14, <2>3 DEF n, e, g, R
<1> QED
  BY <1>13, <1>14

LEMMA OutOfStep ==
    ASSUME NEW d \in SoundDevices, NEW ctrl, NEW od, ctrl # Start,
           ~(d.phase = "receiving" /\ ctrl = d.flow)
    PROVE  DeviceWrite(d, ctrl, od).phase = "idle"
<1>1. DeviceWrite(d, ctrl, od) = Resting(d)
  BY DEF DeviceWrite
<1> QED
  BY <1>1, RestingFields

\* A segment of the request.
LEMMA KeptRequest ==
    ASSUME NEW s \in IsduFits, NEW d \in SoundDevices, NEW o \in ObsStates,
           NEW w \in 1..8, NEW L, Together(s, d, o, L, <<>>, w),
           NEW n, Kept(s, d, o, L, n, w), ~Pending(s), s.phase = "request",
           NEW e, NEW M,
           \/ e = DeviceWrite(d, s.flowctrl, Segment(s, w))
           \/ e = d /\ L = 0 /\ M = 1,
           NEW m
    PROVE  Kept(IsduSent(s, w), e, o, M, m, w)
<1> DEFINE t == IsduSent(s, w)
           R == s.request
           pos == s.request_pos
           g == Segment(s, w)
           k == pos + w
<1>1. /\ s.op \in {"read", "write"} /\ ~s.done /\ Known(s, o) /\ o.made = "nothing"
      /\ \A x \in Objects : Fits(d.store[x])
      /\ (d.phase = "answering" => ~Hopeless(d.response))
      /\ (pos > 0 => Sending(s, d, L) /\ Requesting(s, d, o, L))
      /\ (pos = 0 => Settled(s, d, L, w))
  BY Fields DEF IsduStates, Together, Ordered, Kept
<1>2. R \in Seq(Octets) /\ pos \in Nat /\ Len(R) \in Nat /\ s.flowctrl \in FlowCtrl
      /\ g \in Seq(Octets) /\ g # <<>> /\ k \in Nat
  <2>1. R \in Seq(Octets) /\ pos \in Nat /\ Len(R) \in Nat /\ s.flowctrl \in FlowCtrl
    BY Fields
  <2>2. g \in Seq(Octets) /\ g # <<>>
    BY PaddingTypes
  <2>3. k \in Nat
    BY <2>1
  <2> QED
    BY <2>1, <2>2, <2>3
<1>3. Whole(R) /\ Len(R) >= 3
  <2> DEFINE op == s.op
             object == s.index
             data == o.data
  <2>1. /\ op \in {"read", "write"} /\ object \in Objects /\ data \in Seq(Octets)
        /\ (op = "read" => data = <<>>) /\ (op = "write" => WriteFits(object, data))
        /\ R = IF op = "read" THEN ReadRequest(object) ELSE WriteRequest(object, data)
    BY <1>1 DEF Known, RequestOf, ObsStates
  <2> HIDE DEF op, object, data, R
  <2>2. Whole(R) /\ Len(R) >= 3
    BY <2>1, RequestStreams
  <2> QED
    BY <2>2
<1>4. pos < Len(R)
  BY <1>1, <1>2, <1>3 DEF Sending
<1>5. /\ t.op = s.op
      /\ t.index = s.index /\ t.request = R /\ t.done = s.done
      /\ k >= Len(R) => t.phase = "wait" /\ t.flowctrl = Start
      /\ ~(k >= Len(R)) => /\ t.phase = "request" /\ t.request_pos = k
                           /\ t.flowctrl = NextCount(s.flowctrl)
  BY SentFields
<1> HIDE DEF t
<1>6. Known(t, o)
  BY <1>1, <1>5 DEF Known, RequestOf
<1>7. e.store = d.store
  BY StoreKept
<1>8. pos > 0 => s.flowctrl \in 0..15 /\ s.flowctrl # Start
  BY <1>1 DEF Requesting, Start
<1>9. CASE e = DeviceWrite(d, s.flowctrl, g)
  <2>1. e.phase \in {"receiving", "busy", "idle"}
    <3>1. s.flowctrl \in 0..31
      BY <1>2 DEF FlowCtrl, CountMod, Start, IdleCtrl, AbortCtrl
    <3> HIDE DEF g
    <3> QED
      BY <1>2, <1>9, <3>1, DeviceWriteCases
  <2>2. CASE \/ pos = 0
             \/ d.phase = "receiving" /\ s.flowctrl = d.flow
    <3>1. \/ pos = 0 /\ s.flowctrl = Start
          \/ /\ d.phase = "receiving" /\ s.flowctrl = d.flow
             /\ d.request = SubSeq(R, 1, pos) /\ pos > 0
      BY <1>1, <1>2, <2>2 DEF Settled, Sending
    <3>2. /\ ~(k >= Len(R)) =>
                /\ e.phase = "receiving" /\ e.flow = NextCount(s.flowctrl)
                /\ e.request = SubSeq(R, 1, k)
          /\ k >= Len(R) => e.phase = "busy" /\ e.request = R
      BY <1>3, <1>4, <1>9, <3>1, InStep
    <3> HIDE DEF k, R
    <3>3. CASE ~(k >= Len(R))
      <4>1. k < Len(R)
        BY <1>2, <3>3
      <4>2. Sending(t, e, M)
        BY <1>5, <3>2, <3>3, <4>1 DEF Sending
      <4> QED
        BY <1>1, <1>5, <1>6, <1>7, <2>1, <3>3, <4>2 DEF Kept, t
    <3>4. CASE k >= Len(R)
      <4>1. Expecting(t, e, o)
        BY <1>1, <1>5, <3>2, <3>4 DEF Expecting
      <4> QED
        BY <1>1, <1>5, <1>6, <1>7, <2>1, <3>4, <4>1 DEF Kept, t
    <3> QED
      BY <3>3, <3>4
  <2>3. CASE pos # 0 /\ ~(d.phase = "receiving" /\ s.flowctrl = d.flow)
    <3>1. s.flowctrl # Start
      BY <1>2, <1>8, <2>3
    <3>2. e.phase = "idle"
      BY <1>9, <2>3, <3>1, OutOfStep
    <3> HIDE DEF k, R
    <3>3. CASE ~(k >= Len(R))
      <4>1. k < Len(R)
        BY <1>2, <3>3
      <4>2. Sending(t, e, M)
        BY <1>5, <3>2, <3>3, <4>1 DEF Sending
      <4> QED
        BY <1>1, <1>5, <1>6, <1>7, <3>2, <3>3, <4>2 DEF Kept, t
    <3>4. CASE k >= Len(R)
      <4>1. Expecting(t, e, o)
        BY <3>2 DEF Expecting
      <4> QED
        BY <1>1, <1>5, <1>6, <1>7, <3>2, <3>4, <4>1 DEF Kept, t
    <3> QED
      BY <3>3, <3>4
  <2> QED
    BY <2>2, <2>3
<1>10. CASE e = d /\ L = 0 /\ M = 1
  <2>1. d.phase # "busy"
    BY <1>1, <1>2 DEF Settled, Sending
  <2>2. CASE ~(k >= Len(R))
    <3>1. d.phase = "receiving" => d.flow # t.flowctrl
      <4>1. d.phase = "receiving" => pos > 0
        BY <1>1, <1>2 DEF Settled
      <4>2. d.phase = "receiving" => d.flow = s.flowctrl /\ s.flowctrl \in 0..15
        BY <1>1, <1>8, <1>10, <4>1 DEF Sending
      <4>3. \A c \in 0..15 : NextCount(c) # c
        BY DEF NextCount, CountMod, Start, IdleCtrl
      <4> QED
        BY <1>5, <2>2, <4>2, <4>3
    <3> HIDE DEF k, R
    <3>2. k < Len(R)
      BY <1>2, <2>2
    <3>3. Sending(t, e, M)
      BY <1>5, <1>10, <2>1, <2>2, <3>1, <3>2 DEF Sending
    <3> QED
      BY <1>1, <1>5, <1>6, <1>7, <1>10, <2>2, <3>3 DEF Kept, t
  <2>3. CASE k >= Len(R)
    <3>1. d.phase # "answering"
      <4>1. CASE pos > 0
        BY <1>1, <1>10, <4>1 DEF Sending
      <4>2. CASE pos = 0
        <5>1. w >= 3
          BY <1>2, <1>3, <2>3, <4>2
        <5> QED
          BY <1>1, <1>10, <4>2, <5>1 DEF Settled
      <4> QED
        BY <1>2, <4>1, <4>2
    <3>2. Expecting(t, e, o)
      BY <1>1, <1>10, <2>1, <3>1 DEF Expecting
    <3> HIDE DEF k, R
    <3> QED
      BY <1>1, <1>5, <1>6, <1>7, <1>10, <2>3, <3>2 DEF Kept, t
  <2> QED
    BY <2>2, <2>3
<1> QED
  BY <1>9, <1>10

\* The concluding IDLE, or an ABORT.
LEMMA KeptConcluded ==
    ASSUME NEW s \in IsduFits, NEW d \in SoundDevices, NEW o \in ObsStates,
           NEW w \in 1..8, NEW L, Together(s, d, o, L, <<>>, w),
           NEW n, Kept(s, d, o, L, n, w),
           Pending(s), ~(s.abort_pending /\ s.idle_pending),
           NEW e, e = Resting(d) \/ e = d, NEW M, NEW m
    PROVE  Kept(IsduSent(s, w), e, o, M, m, w) /\ IsduSent(s, w).phase = "none"
<1> DEFINE t == IsduSent(s, w)
<1>1. Ordered(s) /\ s.done /\ s.phase = "none"
  BY DEF Together, Ordered
<1>2. /\ t.op = s.op /\ t.phase = s.phase /\ t.done = s.done /\ t.error = s.error
      /\ t.response = s.response /\ t.request = s.request /\ t.index = s.index
  BY <1>1, ConcludedFields
<1> HIDE DEF t
<1>3. Known(t, o) /\ Finished(t, o)
  BY <1>1, <1>2 DEF Kept, Known, RequestOf, Finished
<1>4. e.store = d.store /\ (e.phase = "answering" => e = d)
  BY RestingSound
<1>5. /\ \A x \in Objects : Fits(e.store[x])
      /\ e.phase = "answering" => ~Hopeless(e.response)
  BY <1>4 DEF Kept
<1>6. Kept(t, e, o, M, m, w)
  BY <1>1, <1>2, <1>3, <1>5 DEF Kept
<1> QED
  BY <1>1, <1>2, <1>6 DEF t

\* A read that waits for the response.
LEMMA KeptAsking ==
    ASSUME NEW s \in IsduFits, NEW d \in SoundDevices, NEW o \in ObsStates,
           NEW w \in 1..8, NEW L, Together(s, d, o, L, <<>>, w),
           NEW n, Kept(s, d, o, L, n, w), ~Pending(s), s.phase = "wait",
           NEW e, e = DeviceRead(d, Start, w).dev \/ e = d, NEW M, NEW m
    PROVE  Kept(IsduSent(s, w), e, o, M, m, w) /\ IsduSent(s, w).phase = "wait"
<1> DEFINE t == IsduSent(s, w)
<1>1. ~s.done /\ Known(s, o) /\ Expecting(s, d, o)
  BY DEF Together, Ordered, Kept
<1>2. /\ t.op = s.op /\ t.index = s.index /\ t.request = s.request
      /\ t.done = s.done /\ t.phase = "wait"
  BY SentFields
<1> HIDE DEF t
<1>3. Known(t, o) /\ ReplyTo(t, o) = ReplyTo(s, o)
  BY <1>1, <1>2 DEF Known, RequestOf, ReplyTo
<1>4. e.store = d.store
  BY StoreKept
<1>5. \/ e = d
      \/ /\ d.phase = "answering" /\ e.phase = "answering"
         /\ e.response = d.response
      \/ e.phase = "idle"
  <2>1. e = DeviceRead(d, Start, w).dev \/ e = d
    OBVIOUS
  <2> DEFINE h == DeviceRead(d, Start, w)
  <2>2. \/ h.dev = d
        \/ /\ d.phase = "answering" /\ h.dev.phase = "answering"
           /\ h.dev.response = d.response
        \/ h.dev = Resting(d)
    BY StartRead
  <2> HIDE DEF h
  <2> QED
    BY <2>1, <2>2, RestingFields DEF h
<1>6. /\ \A x \in Objects : Fits(e.store[x])
      /\ e.phase = "answering" => ~Hopeless(e.response)
  BY <1>4, <1>5 DEF Kept
<1>7. Expecting(t, e, o)
  BY <1>1, <1>2, <1>3, <1>5 DEF Expecting
<1>8. Kept(t, e, o, M, m, w)
  BY <1>1, <1>2, <1>3, <1>6, <1>7 DEF Kept
<1> QED
  BY <1>2, <1>8 DEF t

\* The observer may have noticed a loss more.
Carried(o, p) == /\ p.made = o.made /\ p.value = o.value /\ p.data = o.data
                 /\ o.missed => p.missed

\* The device has answered a read, or a loss was noticed.
ReadOrMissed(s, d, w, p, e, q) ==
    \/ e = DeviceRead(d, s.flowctrl, w).dev /\ q = DeviceRead(d, s.flowctrl, w).od
    \/ p.missed /\ (e = DeviceRead(d, s.flowctrl, w).dev \/ e = d)

\* A read that collects the response, and what it leaves.
CollectStep(s, d, o, L, w, p, e, q) ==
    /\ s \in IsduFits /\ d \in SoundDevices /\ o \in ObsStates /\ w \in 1..8
    /\ Together(s, d, o, L, <<>>, w) /\ Kept(s, d, o, L, d.pos, w)
    /\ ~Pending(s) /\ s.phase = "response"
    /\ Carried(o, p) /\ ReadOrMissed(s, d, w, p, e, q)

CollectEnd(t, w, p, e, q, M) ==
    /\ Kept(t, e, p, M, e.sent, w)
    /\ ~p.missed => q = SegmentOf(ReplyTo(t, p), e.sent, w)

LEMMA KeptCollecting ==
    ASSUME NEW s, NEW d, NEW o, NEW L, NEW w, NEW p, NEW e, NEW q,
           CollectStep(s, d, o, L, w, p, e, q), NEW M
    PROVE  CollectEnd(IsduSent(s, w), w, p, e, q, M)
<1> DEFINE t == IsduSent(s, w)
           c == s.flowctrl
           h == DeviceRead(d, c, w)
           S == ReplyTo(s, o)
<1> /\ s \in IsduFits /\ d \in SoundDevices /\ o \in ObsStates /\ w \in 1..8
    /\ Together(s, d, o, L, <<>>, w) /\ Kept(s, d, o, L, d.pos, w) /\ ~Pending(s)
    /\ s.phase = "response" /\ Carried(o, p) /\ ReadOrMissed(s, d, w, p, e, q)
  BY DEF CollectStep
<1>1. /\ p.made = o.made /\ p.value = o.value /\ p.data = o.data
      /\ o.missed => p.missed
  BY DEF Carried
<1>2. \/ e = DeviceRead(d, c, w).dev /\ q = DeviceRead(d, c, w).od
      \/ p.missed /\ (e = DeviceRead(d, c, w).dev \/ e = d)
  BY DEF ReadOrMissed
<1>3. /\ ~s.done /\ Known(s, o) /\ Gathering(s) /\ c \in 0..15
      /\ d.phase \in {"idle", "answering"}
  BY DEF Together, Ordered, Kept, Responding
<1>4. /\ o.made # "nothing" /\ s.response[1] = S[1]
      /\ d.phase = "answering" => d.response = S
      /\ ~o.missed => /\ d.phase = "answering" /\ c = d.flow
                      /\ d.pos >= 1 /\ Upto(s, S, d.pos)
  BY DEF Kept, Collecting
<1>5. /\ t.op = s.op /\ t.request = s.request /\ t.done = s.done /\ t.index = s.index
      /\ t.response = s.response /\ t.expected_len = s.expected_len
      /\ t.abort_pending = s.abort_pending /\ t.idle_pending = s.idle_pending
      /\ t.phase = "response" /\ t.flowctrl = NextCount(c)
  BY SentFields
<1>6. NextCount(c) = (c + 1) % 16
  BY <1>3 DEF NextCount, Start, IdleCtrl, CountMod
<1>7. c \in 0..31 /\ c # Start
  BY <1>3 DEF Start
<1>8. \/ /\ d.phase = "answering" /\ h.dev.phase = "answering"
         /\ h.dev.response = d.response
         /\ h.od = SegmentOf(d.response, h.dev.sent, w)
         /\ h.dev.pos = h.dev.sent + w
         /\ \/ c = d.flow /\ h.dev.sent = d.pos /\ h.dev.flow = (c + 1) % 16
            \/ (c + 1) % 16 = d.flow /\ c # d.flow
      \/ /\ h.dev = Resting(d) /\ h.od = Zeros(w)
         /\ ~(d.phase = "answering" /\ c = d.flow)
  <2> HIDE DEF c
  <2> QED
    BY <1>3, <1>7, DeviceReadCases
<1>9. e.store = d.store
  BY <1>2, StoreKept
<1> HIDE DEF t, h, c, S
<1>10. Gathering(t)
  BY <1>3, <1>5 DEF Gathering, Pending
<1>11. Known(t, p) /\ ReplyTo(t, p) = S
  BY <1>1, <1>3, <1>5 DEF Known, RequestOf, ReplyTo, S
<1>12. e = h.dev \/ e = d
  BY <1>2 DEF h
<1>13. \/ e.phase = "answering" /\ d.phase = "answering" /\ e.response = d.response
       \/ e.phase = "idle"
  BY <1>3, <1>8, <1>12, RestingFields
<1>14. /\ \A x \in Objects : Fits(e.store[x])
       /\ e.phase = "answering" => ~Hopeless(e.response)
  BY <1>9, <1>13 DEF Kept
<1>15. ASSUME ~p.missed
       PROVE  /\ e.phase = "answering" /\ t.flowctrl = e.flow
              /\ e.pos = e.sent + w /\ e.sent >= 1 /\ Upto(t, S, e.sent)
              /\ q = SegmentOf(S, e.sent, w)
  <2>1. ~o.missed /\ e = h.dev /\ q = h.od
    BY <1>1, <1>2, <1>15 DEF h
  <2>2. /\ d.phase = "answering" /\ c = d.flow /\ d.pos >= 1 /\ Upto(s, S, d.pos)
        /\ d.response = S
    BY <1>4, <2>1
  <2>3. /\ e.phase = "answering" /\ e.pos = e.sent + w /\ e.sent = d.pos
        /\ e.flow = (c + 1) % 16 /\ q = SegmentOf(S, e.sent, w)
    BY <1>8, <2>1, <2>2
  <2>4. Upto(t, S, d.pos)
    BY <1>5, <1>10, <2>2 DEF Upto
  <2> QED
    BY <1>5, <1>6, <2>2, <2>3, <2>4
<1>16. Collecting(t, e, p, e.sent, w)
  BY <1>1, <1>4, <1>5, <1>11, <1>13, <1>15 DEF Collecting
<1>17. Kept(t, e, p, M, e.sent, w)
  BY <1>3, <1>5, <1>11, <1>14, <1>16 DEF Kept
<1> QED
  BY <1>11, <1>15, <1>17 DEF t, CollectEnd

LEMMA KeptSent ==
    ASSUME NEW s \in IsduFits, NEW d \in SoundDevices, NEW o \in ObsStates,
           od_len \in 1..8, NEW L, Together(s, d, o, L, <<>>, od_len),
           Kept(s, d, o, L, d.pos, od_len),
           ~(s.abort_pending /\ s.idle_pending), IsduActive(s),
           NEW f, f = IsduFrame(s, od_len), NEW lost \in {"none", "request", "reply"},
           NEW M, IF lost = "none" THEN M = L ELSE L = 0 /\ M = 1,
           NEW e, e = IF lost = "request" THEN d ELSE Handle(d, f).dev,
           NEW p, p.made = o.made, p.value = o.value, p.data = o.data,
           o.missed => p.missed,
           f.read /\ s.phase = "response" /\ lost # "none" => p.missed
    PROVE  LET t == IsduSent(s, od_len)
           IN  /\ Kept(t, e, p, M, e.sent, od_len)
               /\ t.phase = "response" /\ ~p.missed =>
                     lost = "none"
                     /\ Handle(d, f).od = SegmentOf(ReplyTo(t, p), e.sent, od_len)
<1> DEFINE t == IsduSent(s, od_len)
<1>1. /\ f.channel = "isdu"
      /\ Pending(s) => f.read /\ f.ctrl \in {AbortCtrl, IdleCtrl}
      /\ ~Pending(s) => f.ctrl = s.flowctrl
      /\ ~Pending(s) /\ s.phase # "request" => f.read
      /\ ~Pending(s) /\ s.phase = "request" => ~f.read /\ f.od = Segment(s, od_len)
  BY FrameFields
<1>2. f.read => Handle(d, f) = DeviceRead(d, f.ctrl, od_len)
  BY <1>1 DEF Handle
<1>3. ~f.read => Handle(d, f) = [dev |-> DeviceWrite(d, f.ctrl, f.od), od |-> <<>>]
  BY <1>1 DEF Handle
<1>4. Ordered(s) /\ s.phase \in {"none", "request", "wait", "response"}
  BY DEF Together, IsduFits, IsduStates
<1>5. ASSUME NEW x, Kept(x, e, o, M, e.sent, od_len), x.phase # "response"
      PROVE  Kept(x, e, p, M, e.sent, od_len)
  BY <1>5, KeptAside
<1>6. CASE Pending(s)
  <2>1. e = Resting(d) \/ e = d
    <3> DEFINE c == f.ctrl
    <3>1. c \in {AbortCtrl, IdleCtrl} /\ Handle(d, f) = DeviceRead(d, c, od_len)
      BY <1>1, <1>2, <1>6
    <3> HIDE DEF c
    <3>2. Handle(d, f).dev = Resting(d)
      BY <3>1, EndingRead
    <3> QED
      BY <3>2
  <2>2. Kept(t, e, o, M, e.sent, od_len) /\ t.phase = "none"
    BY <1>6, <2>1, KeptConcluded
  <2> HIDE DEF t
  <2> QED
    BY <1>5, <2>2 DEF t
<1>7. CASE ~Pending(s)
  <2>1. s.phase # "none"
    BY <1>4, <1>7 DEF IsduActive, IsduBusy, Pending, Ordered
  <2>2. CASE s.phase = "request"
    <3>1. Handle(d, f) = [dev |-> DeviceWrite(d, s.flowctrl, Segment(s, od_len)),
                          od |-> <<>>]
      BY <1>1, <1>3, <1>7, <2>2
    <3>2. \/ e = DeviceWrite(d, s.flowctrl, Segment(s, od_len))
          \/ e = d /\ L = 0 /\ M = 1
      BY <3>1
    <3>3. Kept(t, e, o, M, e.sent, od_len)
      BY <1>7, <2>2, <3>2, KeptRequest
    <3>4. t.phase # "response"
      BY <1>7, <2>2, SentFields
    <3> HIDE DEF t
    <3> QED
      BY <1>5, <3>3, <3>4 DEF t
  <2>3. CASE s.phase = "wait"
    <3>1. s.flowctrl = Start
      BY <2>3 DEF Together, Waiting
    <3>2. Handle(d, f) = DeviceRead(d, Start, od_len)
      BY <1>1, <1>2, <1>7, <2>3, <3>1
    <3>3. e = DeviceRead(d, Start, od_len).dev \/ e = d
      BY <3>2
    <3>4. Kept(t, e, o, M, e.sent, od_len) /\ t.phase = "wait"
      BY <1>7, <2>3, <3>3, KeptAsking
    <3> HIDE DEF t
    <3> QED
      BY <1>5, <3>4 DEF t
  <2>4. CASE s.phase = "response"
    <3> DEFINE q == Handle(d, f).od
    <3>1. Handle(d, f) = DeviceRead(d, s.flowctrl, od_len) /\ f.read
      BY <1>1, <1>2, <1>7, <2>4
    <3>2. \/ /\ e = DeviceRead(d, s.flowctrl, od_len).dev
             /\ q = DeviceRead(d, s.flowctrl, od_len).od
          \/ p.missed /\ (e = DeviceRead(d, s.flowctrl, od_len).dev \/ e = d)
      BY <2>4, <3>1
    <3>5. Carried(o, p) /\ ReadOrMissed(s, d, od_len, p, e, q)
      BY <3>2 DEF Carried, ReadOrMissed
    <3>6. CollectStep(s, d, o, L, od_len, p, e, q)
      BY <1>7, <2>4, <3>5 DEF CollectStep
    <3> HIDE DEF q, t
    <3>3. CollectEnd(t, od_len, p, e, q, M)
      BY <3>6, KeptCollecting DEF t
    <3>4. ~p.missed => lost = "none"
      BY <2>4, <3>1
    <3> QED
      BY <3>3, <3>4 DEF CollectEnd, q, t
  <2> QED
    BY <1>4, <2>1, <2>2, <2>3, <2>4
<1> QED
  BY <1>6, <1>7

-----------------------------------------------------------------------------
(* A tick.                                                                 *)

\* The octets that arrive for a response while an event service is active.
Dropped == /\ EventActive(ev) /\ isdu.phase = "response"
           /\ reply.channel = "isdu" /\ reply.od # <<>>

\* The observer once the reply is routed.
Observed == [obs EXCEPT !.missed = obs.missed \/ Dropped]

LEMMA ObservedFields ==
    ASSUME obs \in ObsStates
    PROVE  /\ Observed \in ObsStates
           /\ Observed.made = obs.made /\ Observed.value = obs.value
           /\ Observed.data = obs.data
           /\ Observed.missed = (obs.missed \/ Dropped)
<1>1. (obs.missed \/ Dropped) \in BOOLEAN
  BY DEF ObsStates, Dropped, EventActive
<1> DEFINE m == obs.missed \/ Dropped
<1>2. m \in BOOLEAN /\ Observed = [obs EXCEPT !.missed = m]
  BY <1>1 DEF Observed
<1> HIDE DEF m
<1>3. /\ Observed \in ObsStates /\ Observed.made = obs.made
      /\ Observed.value = obs.value /\ Observed.data = obs.data /\ Observed.missed = m
  BY <1>2 DEF ObsStates
<1> QED
  BY <1>3 DEF m

LEMMA NotedFields ==
    ASSUME NEW o \in ObsStates, NEW s, NEW f, NEW lost
    PROVE  LET p == Noted(o, s, f, lost)
           IN  /\ p.made = o.made /\ p.value = o.value /\ p.data = o.data
               /\ o.missed => p.missed
               /\ f.channel = "isdu" /\ f.read /\ s.phase = "response"
                  /\ lost # "none" => p.missed
               /\ ~(f.channel = "isdu" /\ f.read /\ s.phase = "response")
                    => p.missed = o.missed
<1> DEFINE read == f.channel = "isdu" /\ f.read
           gone == read /\ s.phase = "response" /\ lost # "none"
           m == o.missed \/ gone
           c == o.cut \/ (f.channel = "isdu" /\ ~f.read /\ lost = "request")
           n == IF f.channel = "diagnosis" /\ f.read /\ f.ctrl = 0 /\ lost = "none"
                THEN {dev.events} ELSE o.snapshot
           p == Noted(o, s, f, lost)
<1>1. p = [o EXCEPT !.missed = m, !.cut = c, !.snapshot = n]
  BY Zenon DEF Noted
<1>2. o.missed \in BOOLEAN
  BY DEF ObsStates
<1>3. (o.missed => m) /\ (gone => m) /\ (~gone => m = o.missed)
  BY <1>2
<1> HIDE DEF m, c, n, p
<1>4. p.made = o.made /\ p.value = o.value /\ p.data = o.data /\ p.missed = m
  BY <1>1 DEF ObsStates
<1> QED
  BY <1>3, <1>4 DEF p

\* What the reply makes of the service before the next frame is sent.
LEMMA TickRouted ==
    ASSUME Inv, LossInv, ChanInv
    PROVE  LET r == RouteOd(ev, isdu, reply.od)
               x == r.isdu
           IN  /\ x \in IsduFits /\ r.ev \in EventStates(Octets)
               /\ Observed \in ObsStates
               /\ Together(x, dev, Observed, spent.losses, <<>>, od_len)
               /\ ~(x.abort_pending /\ x.idle_pending)
               /\ EventActive(r.ev) => ~Pending(x)
               /\ Kept(x, dev, Observed, spent.losses, dev.pos, od_len)
               /\ SameIsdu(isdu, x)
               /\ EventActive(r.ev) /\ x.phase = "response" => Observed.missed
               /\ isdu.phase \notin {"wait", "response"} => x = isdu
               /\ x # isdu => Observed.missed = obs.missed
<1> DEFINE r == RouteOd(ev, isdu, reply.od)
           x == r.isdu
           L == spent.losses
           w == od_len
<1>1. /\ isdu \in IsduFits /\ dev \in SoundDevices /\ obs \in ObsStates /\ w \in 1..8
      /\ ev \in EventStates(Octets) /\ reply.od \in Seq(Octets)
  BY DEF Inv, Types, Replies
<1>2. x \in IsduFits /\ r.ev \in EventStates(Octets)
  BY Routed
<1>3. ~Pending(isdu) /\ Together(isdu, dev, obs, L, Routable, w)
  BY DEF LossInv
<1>4. /\ Kept(isdu, dev, obs, L, dev.sent, w)
      /\ isdu.phase = "response" /\ ~obs.missed =>
            Underway(reply, ReplyTo(isdu, obs), dev.sent, w)
  BY DEF ChanInv
<1>5. /\ Observed \in ObsStates
      /\ Observed.made = obs.made /\ Observed.value = obs.value
      /\ Observed.data = obs.data
      /\ Observed.missed = (obs.missed \/ Dropped)
      /\ obs.missed => Observed.missed
  BY <1>1, ObservedFields
<1>6. CASE EventActive(ev)
  <2>1. x = isdu /\ Routable = <<>>
    BY <1>6, Routed DEF Routable
  <2>2. ASSUME isdu.phase = "response" PROVE Observed.missed
    <3>1. CASE obs.missed
      BY <1>5, <3>1
    <3>2. CASE ~obs.missed
      <4> DEFINE S == ReplyTo(isdu, obs)
      <4>1. reply.channel = "isdu" /\ reply.od = SegmentOf(S, dev.sent, w)
        BY <1>4, <2>2, <3>2 DEF Underway
      <4> HIDE DEF S
      <4>2. SegmentOf(S, dev.sent, w) # <<>>
        BY <1>1 DEF SegmentOf
      <4>3. Dropped
        BY <1>6, <2>2, <4>1, <4>2 DEF Dropped
      <4> QED
        BY <1>5, <4>3
    <3> QED
      BY <3>1, <3>2
  <2> DEFINE p == Observed
  <2> HIDE DEF p, L, x, r
  <2>3. Kept(isdu, dev, p, L, dev.pos, w)
    BY <1>4, <1>5, <2>2, KeptAside DEF p
  <2>4. Together(isdu, dev, p, L, <<>>, w)
    BY <1>3, <1>5, <2>1, OnlyTheFields DEF p
  <2>5. SameIsdu(isdu, isdu)
    BY DEF SameIsdu
  <2>6. ~(isdu.abort_pending /\ isdu.idle_pending)
    BY <1>3 DEF Pending
  <2> QED
    BY <1>2, <1>3, <1>5, <2>1, <2>2, <2>3, <2>4, <2>5, <2>6 DEF p, L, x, r
<1>7. CASE ~EventActive(ev)
  <2> DEFINE q == reply.od
             p == Observed
  <2>1. x = IsduOnOd(isdu, q) /\ r.ev = ev
    BY <1>7 DEF RouteOd
  <2>2. Together(isdu, dev, obs, L, q, w) /\ q \in Seq(Octets)
    BY <1>1, <1>3, <1>7 DEF Routable
  <2>3. isdu.phase = "response" /\ ~obs.missed =>
            q = SegmentOf(ReplyTo(isdu, obs), dev.sent, w)
    BY <1>4 DEF Underway
  <2>4. p.missed = obs.missed
    <3>1. ~Dropped
      BY <1>7 DEF Dropped
    <3> QED
      BY <1>1, <1>5, <3>1 DEF ObsStates
  <2> DEFINE y == IsduOnOd(isdu, q)
  <2> HIDE DEF q, L, p
  <2>5. /\ SameIsdu(isdu, y) /\ Kept(y, dev, obs, L, dev.pos, w)
        /\ isdu.phase \notin {"wait", "response"} => y = isdu
    BY <1>1, <1>3, <1>4, <2>2, <2>3, KeptRouted
  <2>6. /\ Together(y, dev, obs, L, <<>>, w)
        /\ ~(y.abort_pending /\ y.idle_pending)
    BY <1>1, <1>3, <2>2, RoutedTogether
  <2> HIDE DEF y, x, r
  <2>7. Kept(y, dev, p, L, dev.pos, w)
    BY <1>5, <2>4, <2>5, KeptAside DEF p
  <2>8. Together(y, dev, p, L, <<>>, w)
    BY <1>5, <2>6, OnlyTheFields DEF p
  <2>9. x = y
    BY <2>1 DEF y
  <2> QED
    BY <1>2, <1>5, <1>7, <2>1, <2>4, <2>5, <2>6, <2>7, <2>8, <2>9 DEF p, L, x, r
<1> QED
  BY <1>6, <1>7

LEMMA KeptTick ==
    ASSUME Inv, LossInv, ChanInv, MaxLosses <= 1,
           NEW lost \in {"none", "request", "reply"}, Tick(lost)
    PROVE  ChanInv'
<1> DEFINE r == RouteOd(ev, isdu, reply.od)
           x == r.isdu
           f == DueFrame(r.ev, r.isdu)
           h == Handle(dev, f)
           L == spent.losses
           M == spent'.losses
           w == od_len
           o == Observed
           p == obs'
<1>1. /\ isdu \in IsduFits /\ dev \in SoundDevices /\ obs \in ObsStates /\ w \in 1..8
      /\ spent \in [losses : 0..MaxLosses, calls : 0..MaxEventCalls]
  BY DEF Inv, Types
<1>2. /\ lost # "none" => spent.losses < MaxLosses /\ f.channel # "process"
      /\ isdu' = IF f.channel = "isdu" THEN IsduSent(x, w) ELSE x
      /\ dev' = IF lost = "request" THEN dev ELSE h.dev
      /\ reply' = IF lost = "none" THEN [channel |-> f.channel, od |-> h.od]
                  ELSE NoReply
      /\ spent' = IF lost = "none" THEN spent ELSE [spent EXCEPT !.losses = @ + 1]
      /\ od_len' = w
  BY DEF Tick
<1>3. p = Noted(o, x, f, lost)
  BY DEF Tick, Observed, Dropped
<1>4. /\ L \in {0, 1}
      /\ IF lost = "none" THEN M = L ELSE L = 0 /\ M = 1
  <2>1. L \in 0..MaxLosses /\ MaxLosses \in Nat
    BY <1>1, ServicesAssumption
  <2>2. lost # "none" => spent'.losses = L + 1
    BY <1>1, <1>2
  <2> QED
    BY <1>2, <2>1, <2>2
<1>5. /\ x \in IsduFits /\ r.ev \in EventStates(Octets) /\ o \in ObsStates
      /\ Together(x, dev, o, L, <<>>, w)
      /\ ~(x.abort_pending /\ x.idle_pending)
      /\ Kept(x, dev, o, L, dev.pos, w)
      /\ EventActive(r.ev) /\ x.phase = "response" => o.missed
      /\ EventActive(r.ev) => ~Pending(x)
  BY TickRouted
<1>6. /\ EventActive(r.ev) => f = EventFrame(r.ev)
      /\ ~EventActive(r.ev) /\ IsduActive(x) => f = IsduFrame(x, w)
      /\ ~EventActive(r.ev) /\ ~IsduActive(x) => f = CyclicFrame
  BY DEF DueFrame
<1> HIDE DEF r, x, f, h, L, M, o, p
<1>7. /\ p.made = o.made /\ p.value = o.value /\ p.data = o.data
      /\ o.missed => p.missed
      /\ f.channel = "isdu" /\ f.read /\ x.phase = "response"
         /\ lost # "none" => p.missed
  BY <1>3, <1>5, NotedFields
<1> SUFFICES /\ Kept(isdu', dev', p, M, dev'.sent, w)
             /\ isdu'.phase = "response" /\ ~p.missed =>
                   Underway(reply', ReplyTo(isdu', p), dev'.sent, w)
  BY <1>2 DEF ChanInv, p, M
<1>8. CASE EventActive(r.ev)
  <2>1. f.channel = "diagnosis" /\ f.read = (r.ev.phase = "read")
    <3>1. f = EventFrame(r.ev)
      BY <1>6, <1>8
    <3>2. EventFrame(r.ev).channel = "diagnosis"
      BY DEF EventFrame
    <3>3. EventFrame(r.ev).read = (r.ev.phase = "read")
      BY DEF EventFrame
    <3> QED
      BY <3>1, <3>2, <3>3
  <2>2. isdu' = x
    BY <1>2, <2>1
  <2>3. /\ dev'.phase = dev.phase /\ dev'.request = dev.request
        /\ dev'.response = dev.response /\ dev'.flow = dev.flow
        /\ dev'.pos = dev.pos /\ dev'.sent = dev.sent /\ dev'.store = dev.store
    <3>1. h.dev = dev \/ h.dev = [dev EXCEPT !.events = NoEvents]
      BY <2>1 DEF Handle, h
    <3>2. dev \in Devices
      BY <1>1 DEF SoundDevices
    <3> QED
      BY <1>2, <3>1, <3>2 DEF Devices
  <2>4. L = 1 => M = 1
    BY <1>4
  <2>5. x.phase = "response" => p.missed
    BY <1>5, <1>7, <1>8
  <2> DEFINE e == dev'
             n == dev'.sent
  <2>6. Kept(x, e, p, M, n, w)
    <3> HIDE DEF e, n
    <3> QED
      BY <1>5, <1>7, <2>3, <2>4, <2>5, KeptAside DEF e
  <2> QED
    BY <2>2, <2>5, <2>6
<1>9. CASE ~EventActive(r.ev) /\ IsduActive(x)
  <2>1. f = IsduFrame(x, w) /\ f.channel = "isdu"
    BY <1>1, <1>5, <1>6, <1>9, FrameFields
  <2> DEFINE e == dev'
             t == IsduSent(x, w)
  <2>2. isdu' = t
    BY <1>2, <2>1
  <2>3. e = IF lost = "request" THEN dev ELSE Handle(dev, f).dev
    BY <1>2 DEF h
  <2>4. f.read /\ x.phase = "response" /\ lost # "none" => p.missed
    BY <1>7, <2>1
  <2> HIDE DEF e, t
  <2>5. /\ Kept(t, e, p, M, e.sent, w)
        /\ t.phase = "response" /\ ~p.missed =>
              lost = "none" /\ Handle(dev, f).od = SegmentOf(ReplyTo(t, p), e.sent, w)
    BY <1>1, <1>4, <1>5, <1>7, <1>9, <2>1, <2>3, <2>4, KeptSent DEF t
  <2>6. ASSUME t.phase = "response", ~p.missed
        PROVE  Underway(reply', ReplyTo(t, p), e.sent, w)
    <3>1. reply' = [channel |-> "isdu", od |-> Handle(dev, f).od]
      BY <1>2, <2>1, <2>5, <2>6 DEF h
    <3> QED
      BY <2>5, <2>6, <3>1 DEF Underway
  <2> QED
    BY <2>2, <2>5, <2>6 DEF e
<1>10. CASE ~EventActive(r.ev) /\ ~IsduActive(x)
  <2>1. f = CyclicFrame /\ f.channel = "process"
    BY <1>6, <1>10 DEF CyclicFrame
  <2>2. h = [dev |-> dev, od |-> <<>>]
    BY <2>1 DEF Handle, h
  <2>3. isdu' = x /\ dev' = dev
    BY <1>2, <2>1, <2>2
  <2>4. x.phase # "response"
    BY <1>5, <1>10 DEF Together, Ordered, IsduActive, IsduBusy
  <2>5. L = 1 => M = 1
    BY <1>4
  <2>6. Kept(x, dev, p, M, dev.sent, w)
    BY <1>5, <1>7, <2>4, <2>5, KeptAside
  <2> QED
    BY <2>3, <2>4, <2>6
<1> QED
  BY <1>8, <1>9, <1>10

\* What a tick makes of the service as its caller sees it.
LEMMA TickService ==
    ASSUME Inv, LossInv, ChanInv, NEW lost \in {"none", "request", "reply"}, Tick(lost)
    PROVE  /\ isdu'.op = isdu.op /\ isdu'.index = isdu.index
           /\ obs'.made = obs.made /\ obs'.value = obs.value /\ obs'.data = obs.data
           /\ obs.missed => obs'.missed
           /\ isdu.done => isdu' = isdu /\ obs'.missed = obs.missed
           /\ isdu'.done => obs'.missed = obs.missed
           /\ dev'.store = dev.store
<1> DEFINE r == RouteOd(ev, isdu, reply.od)
           x == r.isdu
           f == DueFrame(r.ev, r.isdu)
           h == Handle(dev, f)
           w == od_len
           o == Observed
           p == obs'
<1>1. /\ isdu \in IsduFits /\ dev \in SoundDevices /\ obs \in ObsStates /\ w \in 1..8
  BY DEF Inv, Types
<1>2. /\ isdu' = IF f.channel = "isdu" THEN IsduSent(x, w) ELSE x
      /\ dev' = IF lost = "request" THEN dev ELSE h.dev
      /\ p = Noted(o, x, f, lost)
  BY DEF Tick, Observed, Dropped
<1>3. /\ x \in IsduFits /\ o \in ObsStates /\ Ordered(x) /\ SameIsdu(isdu, x)
      /\ ~(x.abort_pending /\ x.idle_pending)
      /\ EventActive(r.ev) => ~Pending(x)
      /\ isdu.phase \notin {"wait", "response"} => x = isdu
      /\ x # isdu => o.missed = obs.missed
  BY TickRouted DEF Together
<1>4. ~Pending(isdu) /\ Ordered(isdu)
  BY DEF LossInv, Together
<1>5. /\ o.made = obs.made /\ o.value = obs.value /\ o.data = obs.data
      /\ o.missed = (obs.missed \/ Dropped)
  BY <1>1, ObservedFields
<1>6. /\ EventActive(r.ev) => f = EventFrame(r.ev)
      /\ ~EventActive(r.ev) /\ IsduActive(x) => f = IsduFrame(x, w)
      /\ ~EventActive(r.ev) /\ ~IsduActive(x) => f = CyclicFrame
  BY DEF DueFrame
<1>7. dev'.store = dev.store
  <2>1. h.dev = dev \/ h.dev = [dev EXCEPT !.events = NoEvents]
        \/ h.dev = DeviceRead(dev, f.ctrl, w).dev \/ h.dev = DeviceWrite(dev, f.ctrl, f.od)
    BY DEF Handle
  <2> HIDE DEF h, f
  <2>2. h.dev.store = dev.store
    <3>1. /\ DeviceRead(dev, f.ctrl, w).dev.store = dev.store
          /\ DeviceWrite(dev, f.ctrl, f.od).store = dev.store
      BY <1>1, StoreKept
    <3>2. [dev EXCEPT !.events = NoEvents].store = dev.store
      BY <1>1 DEF SoundDevices, Devices
    <3> QED
      BY <2>1, <3>1, <3>2
  <2> QED
    BY <1>2, <2>2
<1> HIDE DEF r, x, f, h, o, p
<1>8. /\ p.made = o.made /\ p.value = o.value /\ p.data = o.data
      /\ o.missed => p.missed
      /\ ~(f.channel = "isdu" /\ f.read /\ x.phase = "response") => p.missed = o.missed
  BY <1>2, <1>3, NotedFields
<1>9. \/ isdu' = x
      \/ IsduActive(x) /\ isdu' = IsduSent(x, w) /\ f.channel = "isdu"
  <2>1. EventFrame(r.ev).channel = "diagnosis" /\ CyclicFrame.channel = "process"
    BY DEF EventFrame, CyclicFrame
  <2> QED
    BY <1>2, <1>6, <2>1
<1> DEFINE t == IsduSent(x, w)
<1>10. IsduActive(x) =>
          /\ t.op = x.op /\ t.index = x.index /\ t.done = x.done
  <2>1. CASE Pending(x)
    BY <1>1, <1>3, <2>1, ConcludedFields
  <2>2. CASE ~Pending(x)
    BY <1>1, <1>3, <2>2, SentFields
  <2> QED
    BY <2>1, <2>2
<1> HIDE DEF t
<1>11. isdu'.op = x.op /\ isdu'.index = x.index /\ isdu'.done = x.done
  BY <1>9, <1>10 DEF t
<1>12. x.op = isdu.op /\ x.index = isdu.index
  BY <1>3 DEF SameIsdu
<1>13. ASSUME x.done PROVE p.missed = o.missed
  BY <1>3, <1>8, <1>13 DEF Ordered
<1>14. ASSUME isdu.done PROVE isdu' = isdu /\ p.missed = obs.missed
  <2>1. isdu.phase = "none"
    BY <1>4, <1>14 DEF Ordered
  <2>2. x = isdu
    BY <1>3, <2>1
  <2>3. ~IsduActive(x)
    BY <1>4, <1>14, <2>2 DEF IsduActive, IsduBusy, Pending
  <2>4. ~Dropped
    BY <2>1 DEF Dropped
  <2>5. p.missed = o.missed
    BY <1>13, <1>14, <2>2
  <2> QED
    BY <1>1, <1>5, <1>9, <2>2, <2>3, <2>4, <2>5 DEF ObsStates
<1>15. ASSUME isdu'.done PROVE p.missed = obs.missed
  <2>1. CASE x = isdu
    BY <1>11, <1>14, <1>15, <2>1
  <2>2. CASE x # isdu
    BY <1>3, <1>11, <1>13, <1>15, <2>2
  <2> QED
    BY <2>1, <2>2
<1>16. obs.missed => p.missed
  BY <1>5, <1>8
<1> QED
  BY <1>5, <1>7, <1>8, <1>11, <1>12, <1>14, <1>15, <1>16 DEF p

-----------------------------------------------------------------------------
(* The application, the connection and the device keep to it.              *)

LEMMA FreshFields ==
    ASSUME NEW o \in ObsStates, NEW data
    PROVE  LET p == Fresh(o, data)
           IN  /\ p.data = data /\ p.made = "nothing" /\ p.value = <<>>
               /\ p.missed = FALSE
BY DEF Fresh, ObsStates

LEMMA NothingFits == Fits(<<>>)
BY BufferAssumption DEF Fits

\* A service is collected, forgotten or begins.
LEMMA AnewKept ==
    ASSUME NEW s, NEW d, NEW o, NEW L, NEW n, NEW w, Kept(s, d, o, L, n, w),
           NEW e, e.store = d.store,
           e.phase = "answering" => d.phase = "answering" /\ e.response = d.response,
           NEW t, NEW p, ~t.done, Known(t, p), p.made = "nothing",
           t.phase = "none" \/ (t.phase = "request" /\ t.request_pos = 0),
           NEW M, NEW m
    PROVE  Kept(t, e, p, M, m, w)
<1>1. /\ \A x \in Objects : Fits(e.store[x])
      /\ e.phase = "answering" => ~Hopeless(e.response)
  BY DEF Kept
<1>2. /\ ~(t.phase = "request" /\ t.request_pos > 0)
      /\ t.phase # "wait" /\ t.phase # "response"
  BY SMT
<1> QED
  BY <1>1, <1>2 DEF Kept

LEMMA KnownIdle ==
    ASSUME NEW t, t.op = "none", t.index = NoObject, NEW p, p.value = <<>>
    PROVE  Known(t, p)
BY NothingFits DEF Known

LEMMA IndexFields ==
    /\ IsduClear.index = NoObject
    /\ \A s : IsduFinish(s).index = NoObject
BY DEF IsduClear, IsduFinish

LEMMA KeptRead ==
    ASSUME Inv, LossInv, ChanInv, NEW object \in Objects, Read(object)
    PROVE  /\ ChanInv'
           /\ \/ isdu' = isdu /\ obs' = obs
              \/ isdu' = IsduFinish(isdu) /\ isdu.done /\ obs' = Fresh(obs, <<>>)
              \/ /\ isdu' = IsduStart("read", object, ReadRequest(object))
                 /\ isdu.op = "none" /\ obs' = Fresh(obs, <<>>)
<1> DEFINE s == isdu
           t == isdu'
           go == IsduStart("read", object, ReadRequest(object))
<1>1. /\ t = ReadIsdu(s, object, BufferSize).isdu
      /\ obs' = IF s.op = "none" \/ t.op = "none" THEN Fresh(obs, <<>>) ELSE obs
      /\ UNCHANGED <<dev, reply, od_len, spent>>
  BY DEF Read
<1>2. ~Pending(s) /\ Ordered(s)
  BY DEF LossInv, Together
<1>3. \/ t = s /\ s.op # "none"
      \/ t = IsduFinish(s) /\ s.done
      \/ t = go /\ s.op = "none"
  BY <1>1, <1>2 DEF ReadIsdu, IsduBusy, Ordered
<1>4. obs \in ObsStates
  BY DEF Inv, Types
<1> DEFINE p == Fresh(obs, <<>>)
<1>5. p.data = <<>> /\ p.made = "nothing" /\ p.value = <<>>
  BY <1>4, FreshFields
<1>6. Kept(s, dev, obs, spent.losses, dev.sent, od_len)
  BY DEF ChanInv
<1> HIDE DEF s, t, go, p
<1>7. CASE t = s /\ s.op # "none"
  <2>1. obs' = obs
    BY <1>1, <1>7
  <2> QED
    BY <1>1, <1>7, <2>1 DEF ChanInv, s, t
<1>8. CASE t = IsduFinish(s) /\ s.done
  <2>1. t.op = "none" /\ t.phase = "none" /\ ~t.done
    BY <1>2, <1>8, FinishFields
  <2>2. Known(t, p)
    BY <1>5, <1>8, <2>1, IndexFields, KnownIdle
  <2>3. Kept(t, dev, p, spent.losses, dev.sent, od_len)
    BY <1>5, <1>6, <2>1, <2>2, AnewKept
  <2>4. obs' = p
    BY <1>1, <2>1 DEF p
  <2> QED
    BY <1>1, <1>8, <2>1, <2>3, <2>4 DEF ChanInv, s, t, p
<1>9. CASE t = go /\ s.op = "none"
  <2>1. /\ t.op = "read" /\ t.index = object /\ t.phase = "request"
        /\ t.request = ReadRequest(object) /\ t.request_pos = 0 /\ ~t.done
    BY <1>9, StartFields DEF go
  <2>2. Known(t, p)
    BY <1>5, <2>1, NothingFits DEF Known, RequestOf
  <2>3. Kept(t, dev, p, spent.losses, dev.sent, od_len)
    BY <1>5, <1>6, <2>1, <2>2, AnewKept
  <2>4. obs' = p
    BY <1>1, <1>9 DEF p
  <2> QED
    BY <1>1, <1>9, <2>1, <2>3, <2>4 DEF ChanInv, s, t, p, go
<1> QED
  BY <1>3, <1>7, <1>8, <1>9

LEMMA KeptWrite ==
    ASSUME Inv, LossInv, ChanInv, NEW v \in Writes, Write(v[1], v[2])
    PROVE  /\ ChanInv'
           /\ \/ isdu' = isdu /\ (isdu.op # "none" => obs' = obs)
              \/ isdu' = IsduFinish(isdu) /\ isdu.done /\ obs' = Fresh(obs, <<>>)
              \/ /\ isdu' = IsduStart("write", v[1], WriteRequest(v[1], v[2]))
                 /\ isdu.op = "none" /\ obs' = Fresh(obs, v[2])
<1> DEFINE s == isdu
           t == isdu'
           go == IsduStart("write", v[1], WriteRequest(v[1], v[2]))
<1>1. /\ t = WriteIsdu(s, v[1], v[2]).isdu
      /\ obs' = IF t.op = "none" THEN Fresh(obs, <<>>)
                ELSE IF s.op = "none" THEN Fresh(obs, v[2]) ELSE obs
      /\ UNCHANGED <<dev, reply, od_len, spent>>
  BY DEF Write
<1>2. ~Pending(s) /\ Ordered(s)
  BY DEF LossInv, Together
<1>3. \/ t = s
      \/ t = IsduFinish(s) /\ s.done
      \/ t = go /\ s.op = "none" /\ WriteFits(v[1], v[2])
  BY <1>1, <1>2 DEF WriteIsdu, IsduBusy, Ordered
<1>4. obs \in ObsStates
  BY DEF Inv, Types
<1> DEFINE p == Fresh(obs, <<>>)
           g == Fresh(obs, v[2])
<1>5. /\ p.data = <<>> /\ p.made = "nothing" /\ p.value = <<>>
      /\ g.data = v[2] /\ g.made = "nothing" /\ g.value = <<>>
  BY <1>4, FreshFields
<1>6. Kept(s, dev, obs, spent.losses, dev.sent, od_len)
  BY DEF ChanInv
<1> HIDE DEF s, t, go, p, g
<1>7. CASE t = s /\ s.op # "none"
  <2>1. obs' = obs
    BY <1>1, <1>7
  <2> QED
    BY <1>1, <1>7, <2>1 DEF ChanInv, s, t
<1>8. CASE t = s /\ s.op = "none"
  <2>1. t.op = "none" /\ t.phase = "none" /\ ~t.done
    BY <1>2, <1>8 DEF Ordered
  <2>2. t.index = NoObject
    BY <1>6, <1>8 DEF Kept, Known
  <2>3. Known(t, p)
    BY <1>5, <2>1, <2>2, KnownIdle
  <2>4. Kept(t, dev, p, spent.losses, dev.sent, od_len)
    BY <1>5, <1>6, <2>1, <2>3, AnewKept
  <2>5. obs' = p
    BY <1>1, <2>1 DEF p
  <2> QED
    BY <1>1, <1>8, <2>1, <2>4, <2>5 DEF ChanInv, s, t, p
<1>9. CASE t = IsduFinish(s) /\ s.done
  <2>1. t.op = "none" /\ t.phase = "none" /\ ~t.done
    BY <1>2, <1>9, FinishFields
  <2>2. Known(t, p)
    BY <1>5, <1>9, <2>1, IndexFields, KnownIdle
  <2>3. Kept(t, dev, p, spent.losses, dev.sent, od_len)
    BY <1>5, <1>6, <2>1, <2>2, AnewKept
  <2>4. obs' = p
    BY <1>1, <2>1 DEF p
  <2> QED
    BY <1>1, <1>9, <2>1, <2>3, <2>4 DEF ChanInv, s, t, p
<1>10. CASE t = go /\ s.op = "none" /\ WriteFits(v[1], v[2])
  <2>1. /\ t.op = "write" /\ t.index = v[1] /\ t.phase = "request"
        /\ t.request = WriteRequest(v[1], v[2]) /\ t.request_pos = 0 /\ ~t.done
    BY <1>10, StartFields DEF go
  <2>2. v[1] \in Objects
    BY ServicesAssumption
  <2>3. Known(t, g)
    BY <1>5, <1>10, <2>1, <2>2, NothingFits DEF Known, RequestOf
  <2>4. Kept(t, dev, g, spent.losses, dev.sent, od_len)
    BY <1>5, <1>6, <2>1, <2>3, AnewKept
  <2>5. obs' = g
    BY <1>1, <1>10, <2>1 DEF g
  <2> QED
    BY <1>1, <1>10, <2>1, <2>4, <2>5 DEF ChanInv, s, t, g, go
<1> QED
  BY <1>3, <1>7, <1>8, <1>9, <1>10

LEMMA KeptCallEvent ==
    ASSUME Inv, ChanInv, NEW request \in EventCalls, CallEvent(request)
    PROVE  /\ ChanInv'
           /\ isdu' = isdu /\ dev' = dev
           /\ obs'.made = obs.made /\ obs'.value = obs.value
           /\ obs'.data = obs.data /\ obs'.missed = obs.missed
<1>1. /\ obs \in ObsStates
      /\ spent \in [losses : 0..MaxLosses, calls : 0..MaxEventCalls]
  BY DEF Inv, Types
<1>2. /\ UNCHANGED <<isdu, dev, reply, od_len>>
      /\ spent' = spent \/ spent' = [spent EXCEPT !.calls = @ + 1]
      /\ obs' = obs \/ obs' = [obs EXCEPT !.spliced = FALSE, !.snapshot = {}]
  BY DEF CallEvent
<1> DEFINE p == obs'
           L == spent.losses
           n == dev.sent
<1>3. /\ p.made = obs.made /\ p.value = obs.value /\ p.data = obs.data
      /\ p.missed = obs.missed
  BY <1>1, <1>2 DEF ObsStates
<1>4. spent'.losses = L
  BY <1>1, <1>2
<1>5. /\ Kept(isdu, dev, obs, L, n, od_len)
      /\ isdu.phase = "response" /\ ~obs.missed =>
            Underway(reply, ReplyTo(isdu, obs), n, od_len)
  BY DEF ChanInv
<1>6. ReplyTo(isdu, p) = ReplyTo(isdu, obs)
  BY <1>3 DEF ReplyTo
<1> HIDE DEF p, L, n
<1>7. Kept(isdu, dev, p, L, n, od_len)
  BY <1>3, <1>5, KeptAside
<1>8. ChanInv'
  BY <1>2, <1>3, <1>4, <1>5, <1>6, <1>7 DEF ChanInv, p, L, n
<1> QED
  BY <1>2, <1>3, <1>8 DEF p

LEMMA KeptForgotten ==
    ASSUME NEW s, NEW d, NEW o, NEW L, NEW n, NEW w, Kept(s, d, o, L, n, w),
           NEW e, e.phase = "idle", e.store = d.store,
           NEW p, p.made = o.made, p.value = o.value, p.data = o.data,
           o.missed => p.missed, s.phase = "response" => p.missed, NEW M, NEW m
    PROVE  Kept(s, e, p, M, m, w)
<1>1. Known(s, p)
  BY DEF Kept, Known, RequestOf
<1>2. s.phase = "request" /\ s.request_pos > 0 => Sending(s, e, M)
  BY DEF Kept, Sending
<1>3. ReplyTo(s, p) = ReplyTo(s, o)
  BY DEF ReplyTo
<1>4. s.phase = "wait" => Expecting(s, e, p)
  BY DEF Expecting
<1>5. s.phase = "response" => Collecting(s, e, p, m, w)
  BY <1>3 DEF Kept, Collecting
<1>6. s.done => Finished(s, p)
  BY DEF Kept, Finished
<1> QED
  BY <1>1, <1>2, <1>4, <1>5, <1>6 DEF Kept

LEMMA KeptLose ==
    ASSUME Inv, LossInv, ChanInv, NEW exchanged \in BOOLEAN, LoseConnection(exchanged)
    PROVE  /\ ChanInv'
           /\ isdu' = isdu /\ dev'.store = dev.store
           /\ obs'.made = obs.made /\ obs'.value = obs.value /\ obs'.data = obs.data
           /\ obs'.missed = obs.missed \/ (obs'.missed = TRUE /\ isdu.phase = "response")
<1> DEFINE L == spent.losses
           M == spent'.losses
           e == dev'
           p == obs'
           n == dev.sent
           m == dev'.sent
<1>1. dev \in SoundDevices /\ obs \in ObsStates
  BY DEF Inv, Types
<1>2. /\ reply' = NoReply /\ UNCHANGED <<isdu, ev, od_len>>
      /\ e = IF exchanged THEN [Resting(dev) EXCEPT !.events = NoEvents]
             ELSE Resting(dev)
      /\ p = [obs EXCEPT !.missed = @ \/ isdu.phase = "response",
                         !.cut = @ \/ isdu.phase \in {"request", "wait"},
                         !.spliced = @ \/ (exchanged /\ EventActive(ev))]
  BY DEF LoseConnection
<1>3. e.phase = "idle" /\ e.store = dev.store
  <2> DEFINE d == Resting(dev)
  <2>1. d \in Devices /\ d.phase = "idle" /\ d.store = dev.store
    BY <1>1, RestingSound DEF SoundDevices
  <2> HIDE DEF d, e
  <2>2. e = d \/ e = [d EXCEPT !.events = NoEvents]
    BY <1>2 DEF d
  <2> QED
    BY <2>1, <2>2 DEF Devices
<1>4. /\ p.made = obs.made /\ p.value = obs.value /\ p.data = obs.data
      /\ p.missed = (obs.missed \/ isdu.phase = "response")
  BY <1>1, <1>2 DEF ObsStates
<1>5. obs.missed \in BOOLEAN
  BY <1>1 DEF ObsStates
<1>6. Kept(isdu, dev, obs, L, n, od_len)
  BY DEF ChanInv
<1>7. /\ obs.missed => p.missed
      /\ isdu.phase = "response" => p.missed
      /\ p.missed = obs.missed \/ (p.missed = TRUE /\ isdu.phase = "response")
  BY <1>4, <1>5
<1> HIDE DEF L, M, e, p, n, m
<1>8. Kept(isdu, e, p, M, m, od_len)
  BY <1>3, <1>4, <1>6, <1>7, KeptForgotten
<1>9. ChanInv'
  BY <1>2, <1>7, <1>8 DEF ChanInv, M, e, p, m
<1> QED
  BY <1>2, <1>3, <1>4, <1>7, <1>9 DEF e, p

LEMMA KeptRestart ==
    ASSUME Inv, LossInv, ChanInv, Restart
    PROVE  ChanInv' /\ isdu'.op = "none" /\ isdu'.index = NoObject
           /\ ~isdu'.done /\ dev'.store = dev.store
<1> DEFINE g == Fresh(obs, <<>>)
           p == obs'
           t == isdu'
           e == dev'
           M == spent'.losses
           m == dev'.sent
<1>1. /\ t = IsduClear /\ e = Resting(dev) /\ UNCHANGED od_len
      /\ p = [g EXCEPT !.spliced = FALSE, !.snapshot = {}]
      /\ dev \in SoundDevices /\ obs \in ObsStates
  BY DEF Restart, Inv, Types
<1>2. e.phase = "idle" /\ e.store = dev.store
  BY <1>1, RestingSound
<1>3. g \in ObsStates /\ g.made = "nothing" /\ g.value = <<>>
  <2>1. <<>> \in Seq(Octets)
    OBVIOUS
  <2>2. g \in ObsStates
    BY <1>1, <2>1, FreshType
  <2> QED
    BY <1>1, <2>2, FreshFields
<1>4. t.op = "none" /\ t.phase = "none" /\ ~t.done /\ t.index = NoObject
  BY <1>1, ClearFields, IndexFields
<1> HIDE DEF g, p, t, e, M, m
<1>5. p.made = "nothing" /\ p.value = <<>>
  BY <1>1, <1>3 DEF ObsStates
<1>6. Known(t, p)
  BY <1>4, <1>5, KnownIdle
<1>7. Kept(isdu, dev, obs, spent.losses, dev.sent, od_len)
  BY DEF ChanInv
<1>8. Kept(t, e, p, M, m, od_len)
  BY <1>2, <1>4, <1>5, <1>6, <1>7, AnewKept
<1>9. t.phase # "response"
  BY <1>4
<1>10. ChanInv'
  BY <1>1, <1>8, <1>9 DEF ChanInv, p, t, e, M, m
<1> QED
  BY <1>2, <1>4, <1>10 DEF t, e

LEMMA KeptRaise ==
    ASSUME Inv, ChanInv, NEW events \in Raisable, Raise(events)
    PROVE  ChanInv' /\ dev'.store = dev.store /\ UNCHANGED <<isdu, obs>>
<1>1. dev \in Devices
  BY DEF Inv, Types, SoundDevices
<1>2. /\ dev' = [dev EXCEPT !.events = events]
      /\ UNCHANGED <<isdu, reply, od_len, spent, obs>>
  BY DEF Raise
<1> DEFINE L == spent.losses
           e == dev'
           n == dev.sent
<1>3. /\ e.phase = dev.phase /\ e.request = dev.request
      /\ e.response = dev.response /\ e.flow = dev.flow
      /\ e.pos = dev.pos /\ e.sent = n /\ e.store = dev.store
  BY <1>1, <1>2 DEF Devices
<1>4. Kept(isdu, dev, obs, L, n, od_len)
  BY DEF ChanInv
<1> HIDE DEF L, e, n
<1>5. Kept(isdu, e, obs, L, n, od_len)
  BY <1>3, <1>4, KeptAside DEF n
<1>6. ChanInv'
  BY <1>2, <1>3, <1>5 DEF ChanInv, L, e, n
<1> QED
  BY <1>2, <1>3, <1>6 DEF e

\* The response to every value the objects hold at first fits the buffer.
ValuesFit == \A x \in Objects : Fits(Store[x])

LEMMA InitKept == Init /\ ValuesFit => ChanInv
<1> SUFFICES ASSUME Init, ValuesFit PROVE ChanInv
  OBVIOUS
<1>1. /\ isdu = IsduClear /\ dev.phase = "idle" /\ dev.store = Store
      /\ obs.value = <<>>
  BY DEF Init
<1>2. /\ isdu.op = "none" /\ isdu.phase = "none" /\ ~isdu.done
      /\ isdu.index = NoObject
  BY <1>1, ClearFields, IndexFields
<1>3. Known(isdu, obs)
  BY <1>1, <1>2, KnownIdle
<1>4. \A x \in Objects : Fits(dev.store[x])
  BY <1>1 DEF ValuesFit
<1> DEFINE L == spent.losses
<1> HIDE DEF L
<1>5. Kept(isdu, dev, obs, L, dev.sent, od_len)
  BY <1>1, <1>2, <1>3, <1>4 DEF Kept
<1> QED
  BY <1>2, <1>5 DEF ChanInv, L

\* A device that executes a request executes the one that was asked for.
LEMMA KeptExecute ==
    ASSUME Inv, LossInv, ChanInv, NEW accepts \in BOOLEAN, Execute(accepts)
    PROVE  LET op == isdu.op
               value == IF op = "read" THEN dev.store[isdu.index] ELSE <<>>
           IN  /\ ChanInv'
               /\ isdu' = isdu /\ op \in {"read", "write"} /\ ~isdu.done
               /\ obs.made = "nothing" /\ obs.value = <<>>
               /\ obs'.data = obs.data /\ obs'.missed = obs.missed
               /\ obs'.made = IF accepts THEN "executed" ELSE "refused"
               /\ obs'.value = IF accepts THEN value ELSE <<>>
               /\ dev'.store = IF accepts /\ op = "write"
                               THEN [dev.store EXCEPT ![isdu.index] = obs.data]
                               ELSE dev.store
<1> DEFINE s == isdu
           d == dev
           e == dev'
           o == obs
           p == obs'
           L == spent.losses
           w == od_len
           asked == Asked(d.request)
           got == IF asked.op = "read" THEN d.store[asked.object] ELSE <<>>
           made == IF accepts THEN "executed" ELSE "refused"
           value == IF accepts THEN got ELSE <<>>
           response == IF accepts THEN PositiveResponse(asked.op, got)
                       ELSE NegativeResponse(asked.op)
           store == IF accepts /\ asked.op = "write"
                    THEN [d.store EXCEPT ![asked.object] = asked.data] ELSE d.store
<1>1. /\ s \in IsduFits /\ d \in SoundDevices /\ d \in Devices /\ o \in ObsStates
      /\ d.store \in [Objects -> Seq(Octets)]
  BY DeviceFields DEF Inv, Types, SoundDevices
<1>2. /\ d.phase = "busy"
      /\ e = [d EXCEPT !.phase = "answering", !.request = <<>>, !.flow = 0,
                       !.response = response, !.store = store]
      /\ p = [o EXCEPT !.made = made, !.value = value]
      /\ UNCHANGED <<isdu, ev, reply, od_len, spent>>
  BY DEF Execute
<1>3. Ordered(s) /\ Together(s, d, o, L, Routable, w)
  BY DEF LossInv, Together
<1>4. Known(s, o) /\ Kept(s, d, o, L, d.sent, w)
  BY DEF ChanInv, Kept
<1> HIDE DEF asked, got, value, response, store, s, d, e, o, p, L, made
<1>5. s.phase = "wait"
  <2>1. s.phase \in {"none", "request", "wait", "response"} /\ s.request_pos \in Nat
    BY <1>1 DEF IsduFits, IsduStates
  <2>2. ~Settled(s, d, L, w) /\ ~Responding(s, d, o, L, Routable, w)
    BY <1>2 DEF Settled, Responding
  <2>3. s.phase # "none" /\ s.phase # "response"
        /\ ~(s.phase = "request" /\ s.request_pos = 0)
    BY <1>3, <2>2 DEF Together
  <2>4. ~Sending(s, d, L)
    BY <1>2 DEF Sending
  <2>5. ~(s.phase = "request" /\ s.request_pos > 0)
    BY <1>4, <2>4 DEF Kept
  <2> QED
    BY <2>1, <2>3, <2>5
<1>6. s.op \in {"read", "write"} /\ ~s.done
  <2>1. s.op \in {"none", "read", "write"}
    BY <1>1 DEF IsduFits, IsduStates
  <2> QED
    BY <1>3, <1>5, <2>1 DEF Ordered
<1>7. d.request = s.request /\ o.made = "nothing"
  BY <1>2, <1>4, <1>5 DEF Kept, Expecting
<1>8. o.value = <<>> /\ o.data \in Seq(Octets)
  BY <1>1, <1>4, <1>7 DEF Known, ObsStates
<1>9. /\ s.index \in Objects /\ s.request = RequestOf(s, o)
      /\ s.op = "read" => o.data = <<>>
      /\ s.op = "write" => WriteFits(s.index, o.data)
  BY <1>4, <1>6 DEF Known
<1>10. asked = [op |-> s.op, object |-> s.index, data |-> o.data]
  <2> DEFINE a == s.op
             x == s.index
             v == o.data
  <2>1. /\ a \in {"read", "write"} /\ x \in Objects /\ v \in Seq(Octets)
        /\ a = "read" => v = <<>>
        /\ a = "write" => WriteFits(x, v)
        /\ d.request = IF a = "read" THEN ReadRequest(x) ELSE WriteRequest(x, v)
    BY <1>6, <1>7, <1>8, <1>9 DEF RequestOf
  <2> HIDE DEF a, x, v
  <2>2. Asked(IF a = "read" THEN ReadRequest(x) ELSE WriteRequest(x, v))
            = [op |-> a, object |-> x, data |-> v]
    BY <2>1, RequestStreams
  <2> QED
    BY <2>1, <2>2 DEF a, x, v, asked
<1>11. asked.op = s.op /\ asked.object = s.index /\ asked.data = o.data
  BY <1>10
<1>12. /\ got = IF s.op = "read" THEN d.store[s.index] ELSE <<>>
       /\ store = IF accepts /\ s.op = "write"
                  THEN [d.store EXCEPT ![s.index] = o.data] ELSE d.store
       /\ response = IF accepts THEN PositiveResponse(s.op, got)
                     ELSE NegativeResponse(s.op)
  BY <1>11 DEF got, store, response
<1>13. /\ got \in Seq(Octets) /\ Fits(got)
       /\ s.op = "write" => got = <<>>
  BY <1>1, <1>4, <1>6, <1>9, <1>12, NothingFits DEF Kept
<1>14. value \in Seq(Octets) /\ Fits(value) /\ (~accepts => value = <<>>)
       /\ (s.op = "write" => value = <<>>)
  BY <1>13, NothingFits DEF value
<1>15. made \in {"executed", "refused"} /\ (accepts <=> made = "executed")
  BY DEF made
<1>16. /\ p \in ObsStates /\ p.made = made /\ p.value = value
       /\ p.data = o.data /\ p.missed = o.missed
  BY <1>1, <1>2, <1>14, <1>15 DEF ObsStates
<1>17. Known(s, p)
  BY <1>4, <1>14, <1>15, <1>16 DEF Known, RequestOf
<1>18. response = ReplyTo(s, p)
  BY <1>12, <1>15, <1>16 DEF ReplyTo, value
<1>19. ~Hopeless(response)
  <2>1. p.made # "nothing" /\ s.op # "none"
    BY <1>6, <1>15, <1>16
  <2> QED
    BY <1>1, <1>16, <1>17, <1>18, <2>1, ReplyFits
<1>20. /\ e.phase = "answering" /\ e.response = response /\ e.store = store
  BY <1>1, <1>2 DEF Devices
<1>21. \A x \in Objects : Fits(store[x])
  <2>1. \A x \in Objects : Fits(d.store[x])
    BY <1>4 DEF Kept
  <2>2. s.op = "write" => Fits(o.data)
    <3> DEFINE n == Len(o.data)
    <3>1. n \in Nat /\ BufferSize \in 8..256
      BY <1>8, BufferAssumption
    <3>2. s.op = "write" => n <= BufferSize - 7
      BY <1>9 DEF WriteFits, WriteHeaderMax
    <3> HIDE DEF n
    <3>3. s.op = "write" => n + 3 <= BufferSize /\ n <= 252
      BY <3>1, <3>2
    <3> QED
      BY <3>3 DEF Fits, n
  <2> QED
    BY <1>1, <1>9, <1>12, <2>1, <2>2
<1>22. Expecting(s, e, p)
  BY <1>15, <1>16, <1>18, <1>20 DEF Expecting
<1> DEFINE M == spent'.losses
           m == e.sent
<1> HIDE DEF M, m
<1>23. Kept(s, e, p, M, m, w)
  BY <1>5, <1>6, <1>17, <1>19, <1>20, <1>21, <1>22 DEF Kept
<1>24. ChanInv'
  BY <1>2, <1>5, <1>23 DEF ChanInv, s, e, p, M, m
<1>25. /\ isdu' = isdu /\ isdu.op \in {"read", "write"} /\ ~isdu.done
       /\ obs.made = "nothing" /\ obs.value = <<>>
       /\ obs'.data = obs.data /\ obs'.missed = obs.missed
  BY <1>2, <1>6, <1>7, <1>8, <1>16 DEF s, o, p
<1>26. /\ obs'.made = IF accepts THEN "executed" ELSE "refused"
       /\ obs'.value = IF accepts THEN IF isdu.op = "read" THEN dev.store[isdu.index]
                                       ELSE <<>>
                       ELSE <<>>
       /\ dev'.store = IF accepts /\ isdu.op = "write"
                       THEN [dev.store EXCEPT ![isdu.index] = obs.data]
                       ELSE dev.store
  BY <1>12, <1>16, <1>20 DEF s, d, e, o, p, made, value
<1> QED
  BY <1>24, <1>25, <1>26

LEMMA NextKept ==
    ASSUME MaxLosses <= 1
    PROVE  Inv /\ LossInv /\ ChanInv /\ [Next]_vars => ChanInv'
<1> SUFFICES ASSUME Inv, LossInv, ChanInv, [Next]_vars PROVE ChanInv'
  OBVIOUS
<1>1. CASE UNCHANGED vars
  BY <1>1 DEF vars, ChanInv
<1>2. ASSUME NEW lost \in {"none", "request", "reply"}, Tick(lost) PROVE ChanInv'
  BY <1>2, KeptTick
<1>3. CASE Reestablish
  BY <1>3 DEF Reestablish, ChanInv
<1>4. ASSUME NEW accepts \in BOOLEAN, Execute(accepts) PROVE ChanInv'
  BY <1>4, KeptExecute
<1>5. CASE Next
  BY <1>2, <1>3, <1>4, <1>5, KeptRead, KeptWrite, KeptCallEvent,
     KeptRestart, KeptLose, KeptRaise DEF Next
<1> QED
  BY <1>1, <1>5

-----------------------------------------------------------------------------
(* The channel of IsduChannel.                                             *)

View(s, o) ==
    [op |-> s.op, object |-> s.index, data |-> o.data, made |-> o.made,
     value |-> o.value, lossy |-> o.missed,
     result |-> IF ~s.done THEN "none" ELSE IF s.error = "none" THEN "OK" ELSE "error",
     answer |-> IF s.done /\ s.error = "none" /\ ~o.missed THEN s.response ELSE <<>>]

Shown == IF isdu.op = "none"
         THEN [CallerView EXCEPT !.data = <<>>, !.made = "nothing",
                                 !.value = <<>>, !.lossy = FALSE]
         ELSE CallerView

\* The same of any state, so that it can be told of the next one.
ShownOf(s, o) == IF s.op = "none"
                 THEN [View(s, o) EXCEPT !.data = <<>>, !.made = "nothing",
                                         !.value = <<>>, !.lossy = FALSE]
                 ELSE View(s, o)

LEMMA ShownIs == Shown = ShownOf(isdu, obs) /\ Shown' = ShownOf(isdu', obs')
<1>1. CallerView = View(isdu, obs)
  BY DEF CallerView, View, ServiceOK
<1>2. CallerView' = View(isdu', obs')
  BY DEF CallerView, View, ServiceOK
<1> QED
  BY <1>1, <1>2 DEF Shown, ShownOf

LEMMA ShownIdle ==
    ASSUME NEW s, NEW o, s.op = "none", s.index = NoObject, ~s.done
    PROVE  ShownOf(s, o) = Channel!Idle
<1> DEFINE v == View(s, o)
<1>1. v = [op |-> "none", object |-> NoObject, data |-> o.data,
           made |-> o.made, value |-> o.value, lossy |-> o.missed,
           result |-> "none", answer |-> <<>>]
  BY DEF View
<1>2. NoObject = Channel!NoObject /\ <<>> = Channel!NoValue
  BY DEF NoObject, Channel!NoObject, Channel!NoValue
<1>3. ShownOf(s, o) = [v EXCEPT !.data = <<>>, !.made = "nothing",
                                !.value = <<>>, !.lossy = FALSE]
  BY DEF ShownOf
<1> HIDE DEF v
<1>4. ShownOf(s, o) = [op |-> "none", object |-> NoObject, data |-> <<>>,
                       made |-> "nothing", value |-> <<>>, lossy |-> FALSE,
                       result |-> "none", answer |-> <<>>]
  BY <1>1, <1>3
<1> QED
  BY <1>2, <1>4 DEF Channel!Idle

\* The steps of the channel, of what is shown of it.
LEMMA ShownSteps ==
    /\ Channel!vars = <<Shown, dev.store>> /\ Channel!vars' = <<Shown', dev'.store>>
    /\ Channel!Begin =
          (/\ Shown.op = "none"
           /\ \E x \in Objects :
                 \/ Shown' = Channel!Begun("read", x, Channel!NoValue)
                 \/ \E v \in {w[2] : w \in Writes} :
                       Shown' = Channel!Begun("write", x, v)
           /\ dev'.store = dev.store)
    /\ Channel!Execute =
          (/\ Shown.op # "none" /\ Shown.made = "nothing"
           /\ \/ /\ Shown' = Channel!Executed(dev.store, Shown)
                 /\ dev'.store = Channel!Stored(dev.store, Shown)
              \/ /\ Shown' = [Shown EXCEPT !.made = "refused"]
                 /\ dev'.store = dev.store)
    /\ Channel!Lose =
          (/\ Channel!Underway(Shown)
           /\ Shown' = [Shown EXCEPT !.lossy = TRUE]
           /\ dev'.store = dev.store)
    /\ Channel!Complete =
          (/\ Shown.made # "nothing" /\ Shown.result = "none"
           /\ \/ /\ Shown.made = "executed"
                 /\ Shown' = [Shown EXCEPT
                       !.result = "OK",
                       !.answer = IF Shown.lossy THEN Channel!NoValue
                                  ELSE Shown.value]
              \/ Shown' = [Shown EXCEPT !.result = "error"]
           /\ dev'.store = dev.store)
    /\ Channel!Collect =
          (/\ Shown.result # "none" /\ Shown' = Channel!Idle
           /\ dev'.store = dev.store)
    /\ Channel!Abandon = (Shown' = Channel!Idle /\ dev'.store = dev.store)
<1>1. Channel!vars = <<Shown, dev.store>> /\ Channel!vars' = <<Shown', dev'.store>>
  BY DEF Channel!vars, Shown
<1>2. Channel!Abandon = (Shown' = Channel!Idle /\ dev'.store = dev.store)
  BY DEF Channel!Abandon, Shown
<1> QED
  BY <1>1, <1>2 DEF Shown, Channel!Begin, Channel!Execute, Channel!Lose,
     Channel!Complete, Channel!Collect

\* A step of the channel, or none.
ChannelStep == [Channel!Next]_(Channel!vars)

LEMMA Stutter ==
    ASSUME Shown' = Shown, dev'.store = dev.store
    PROVE  ChannelStep
BY ShownSteps DEF ChannelStep

LEMMA ShownAnyway ==
    ASSUME LossInv, ChanInv
    PROVE  /\ isdu.op = "none" => Shown = Channel!Idle /\ ~isdu.done
           /\ isdu.op # "none" => Shown = View(isdu, obs)
<1>1. isdu.op = "none" => ~isdu.done /\ isdu.index = NoObject
  BY DEF LossInv, Together, Ordered, ChanInv, Kept, Known
<1> QED
  BY <1>1, ShownIs, ShownIdle DEF ShownOf

LEMMA ShownAfter ==
    ASSUME LossInv', ChanInv'
    PROVE  /\ isdu'.op = "none" => Shown' = Channel!Idle /\ ~isdu'.done
           /\ isdu'.op # "none" => Shown' = View(isdu', obs')
<1>1. isdu'.op = "none" => ~isdu'.done /\ isdu'.index = NoObject
  BY DEF LossInv, Together, Ordered, ChanInv, Kept, Known
<1> QED
  BY <1>1, ShownIs, ShownIdle DEF ShownOf

LEMMA SameView ==
    ASSUME NEW s, NEW t, NEW o, NEW p, t.op = s.op, t.index = s.index, t.done = s.done,
           t.error = s.error, t.response = s.response, p.data = o.data,
           p.made = o.made, p.value = o.value, p.missed = o.missed
    PROVE  View(t, p) = View(s, o)
BY DEF View

\* The caller sees the same service.
LEMMA Unseen ==
    ASSUME LossInv, ChanInv, LossInv', ChanInv', isdu' = isdu,
           isdu.op # "none" =>
               obs'.data = obs.data /\ obs'.made = obs.made
               /\ obs'.value = obs.value /\ obs'.missed = obs.missed,
           dev'.store = dev.store
    PROVE  ChannelStep
<1>1. CASE isdu.op = "none"
  <2>1. Shown = Channel!Idle
    BY <1>1, ShownAnyway
  <2>2. Shown' = Channel!Idle
    BY <1>1, ShownAfter
  <2> QED
    BY <2>1, <2>2, Stutter
<1>2. CASE isdu.op # "none"
  <2>1. Shown = View(isdu, obs) /\ Shown' = View(isdu', obs')
    BY <1>2, ShownAnyway, ShownAfter
  <2>2. View(isdu', obs') = View(isdu, obs)
    BY <1>2, SameView
  <2> QED
    BY <2>1, <2>2, Stutter
<1> QED
  BY <1>1, <1>2

\* The same service before and after.
Continued(s, t, o, p) ==
    /\ o \in ObsStates /\ p \in ObsStates
    /\ t.op = s.op /\ t.index = s.index
    /\ p.data = o.data /\ p.made = o.made /\ p.value = o.value

Loses(c, e) == Channel!Underway(c) /\ e = [c EXCEPT !.lossy = TRUE]

Completes(c, e) ==
    /\ c.made # "nothing" /\ c.result = "none"
    /\ \/ /\ c.made = "executed"
          /\ e = [c EXCEPT !.result = "OK",
                           !.answer = IF c.lossy THEN Channel!NoValue ELSE c.value]
       \/ e = [c EXCEPT !.result = "error"]

\* A loss that concerns the service in progress.
LEMMA LossSeen ==
    ASSUME NEW s, NEW t, NEW o, NEW p, Continued(s, t, o, p),
           s.op # "none", ~s.done, ~t.done, p.missed = TRUE
    PROVE  Loses(View(s, o), View(t, p))
<1> /\ o \in ObsStates /\ t.op = s.op /\ t.index = s.index
    /\ p.data = o.data /\ p.made = o.made /\ p.value = o.value
  BY DEF Continued
<1> DEFINE c == View(s, o)
           op == s.op
           object == s.index
           data == o.data
           made == o.made
           value == o.value
           lossy == o.missed
           after == p.missed
<1>1. c = [op |-> op, object |-> object, data |-> data, made |-> made,
           value |-> value, lossy |-> lossy, result |-> "none", answer |-> <<>>]
  BY DEF View
<1>2. View(t, p) = [op |-> op, object |-> object, data |-> data, made |-> made,
                    value |-> value, lossy |-> after, result |-> "none",
                    answer |-> <<>>]
  BY DEF View
<1>3. op # "none"
  OBVIOUS
<1> HIDE DEF c, op, object, data, made, value, lossy, after
<1>4. [c EXCEPT !.lossy = after] = [op |-> op, object |-> object, data |-> data,
                                    made |-> made, value |-> value, lossy |-> after,
                                    result |-> "none", answer |-> <<>>]
  BY ONLY <1>1
<1>5. View(t, p) = [c EXCEPT !.lossy = after]
  BY <1>2, <1>4
<1>6. Channel!Underway(c)
  BY <1>3, <1>1 DEF Channel!Underway
<1>7. after = TRUE
  BY DEF after
<1> QED
  BY <1>5, <1>6, <1>7 DEF c, Loses

\* The end of the service.
LEMMA EndSeen ==
    ASSUME NEW s, NEW t, NEW o, NEW p, Continued(s, t, o, p),
           ~s.done, t.done, Finished(t, p), p.missed = o.missed
    PROVE  Completes(View(s, o), View(t, p))
<1> /\ o \in ObsStates /\ p \in ObsStates /\ t.op = s.op /\ t.index = s.index
    /\ p.data = o.data /\ p.made = o.made /\ p.value = o.value
  BY DEF Continued
<1> DEFINE c == View(s, o)
<1>1. c = [op |-> s.op, object |-> s.index, data |-> o.data, made |-> o.made,
           value |-> o.value, lossy |-> o.missed, result |-> "none", answer |-> <<>>]
  BY DEF View
<1>2. o.made # "nothing"
  BY DEF Finished
<1>3. CASE t.error = "none"
  <2>1. o.made = "executed" /\ (~o.missed => t.response = o.value)
    BY <1>3 DEF Finished
  <2>2. View(t, p) = [op |-> s.op, object |-> s.index, data |-> o.data,
                      made |-> o.made, value |-> o.value, lossy |-> o.missed,
                      result |-> "OK",
                      answer |-> IF o.missed THEN <<>> ELSE o.value]
    BY <1>3, <2>1 DEF View
  <2>3. [c EXCEPT !.result = "OK",
                  !.answer = IF c.lossy THEN Channel!NoValue ELSE c.value]
            = [op |-> s.op, object |-> s.index, data |-> o.data,
               made |-> o.made, value |-> o.value, lossy |-> o.missed,
               result |-> "OK", answer |-> IF o.missed THEN <<>> ELSE o.value]
    <3> DEFINE a == IF c.lossy THEN Channel!NoValue ELSE c.value
               b == IF o.missed THEN <<>> ELSE o.value
               op == s.op
               object == s.index
               data == o.data
               made == o.made
               value == o.value
               lossy == o.missed
    <3>0. c = [op |-> op, object |-> object, data |-> data, made |-> made,
               value |-> value, lossy |-> lossy, result |-> "none",
               answer |-> <<>>]
      BY <1>1
    <3> HIDE DEF c
    <3>1. c.lossy = o.missed /\ c.value = o.value /\ Channel!NoValue = <<>>
      BY <1>1 DEF Channel!NoValue
    <3>2. a = b
      BY <3>1
    <3> HIDE DEF a, b, op, object, data, made, value, lossy
    <3> DEFINE g == [c EXCEPT !.result = "OK"]
    <3>3. g = [op |-> op, object |-> object, data |-> data, made |-> made,
               value |-> value, lossy |-> lossy, result |-> "OK", answer |-> <<>>]
      BY ONLY <3>0
    <3> HIDE DEF g
    <3>4. [g EXCEPT !.answer = a]
              = [op |-> op, object |-> object, data |-> data, made |-> made,
                 value |-> value, lossy |-> lossy, result |-> "OK", answer |-> b]
      BY ONLY <3>2, <3>3
    <3>5. [c EXCEPT !.result = "OK", !.answer = a]
              = [op |-> op, object |-> object, data |-> data, made |-> made,
                 value |-> value, lossy |-> lossy, result |-> "OK", answer |-> b]
      BY <3>4, Zenon DEF g
    <3> QED
      BY <3>5 DEF a, b, c, op, object, data, made, value, lossy
  <2>4. c.made = "executed" /\ c.made # "nothing" /\ c.result = "none"
    <3> HIDE DEF c
    <3> QED
      BY <1>1, <2>1
  <2> QED
    BY <2>2, <2>3, <2>4 DEF Completes
<1>4. CASE t.error # "none"
  <2>1. View(t, p) = [op |-> s.op, object |-> s.index, data |-> o.data,
                      made |-> o.made, value |-> o.value, lossy |-> o.missed,
                      result |-> "error", answer |-> <<>>]
    BY <1>4 DEF View
  <2> HIDE DEF c
  <2>2. /\ View(t, p) = [c EXCEPT !.result = "error"]
        /\ c.made # "nothing" /\ c.result = "none"
    BY <1>1, <1>2, <2>1
  <2> QED
    BY <2>2 DEF c, Completes
<1> QED
  BY <1>3, <1>4

\* A service begins.
LEMMA BeginSeen ==
    ASSUME NEW op, NEW object, NEW request, NEW data, NEW o \in ObsStates
    PROVE  View(IsduStart(op, object, request), Fresh(o, data))
               = Channel!Begun(op, object, data)
<1> DEFINE t == IsduStart(op, object, request)
           p == Fresh(o, data)
           idle == Channel!Idle
           no == FALSE
<1>1. t.op = op /\ t.index = object /\ ~t.done
  BY StartFields
<1>2. p.data = data /\ p.made = "nothing" /\ p.value = <<>> /\ p.missed = FALSE
  BY FreshFields
<1>3. idle = [op |-> "none", object |-> <<>>, data |-> <<>>, made |-> "nothing",
              value |-> <<>>, lossy |-> no, result |-> "none", answer |-> <<>>]
  BY DEF Channel!Idle, Channel!NoObject, Channel!NoValue
<1>4. Channel!Begun(op, object, data)
          = [idle EXCEPT !.op = op, !.object = object, !.data = data]
  BY DEF Channel!Begun
<1> HIDE DEF t, p, idle, no
<1>5. View(t, p) = [op |-> op, object |-> object, data |-> data, made |-> "nothing",
                    value |-> <<>>, lossy |-> no, result |-> "none",
                    answer |-> <<>>]
  BY <1>1, <1>2 DEF View, no
<1> DEFINE a == [idle EXCEPT !.op = op]
<1>6. a = [op |-> op, object |-> <<>>, data |-> <<>>, made |-> "nothing",
           value |-> <<>>, lossy |-> no, result |-> "none", answer |-> <<>>]
  BY ONLY <1>3
<1> HIDE DEF a
<1> DEFINE b == [a EXCEPT !.object = object]
<1>7. b = [op |-> op, object |-> object, data |-> <<>>, made |-> "nothing",
           value |-> <<>>, lossy |-> no, result |-> "none", answer |-> <<>>]
  BY ONLY <1>6
<1> HIDE DEF b
<1>8. [b EXCEPT !.data = data]
          = [op |-> op, object |-> object, data |-> data, made |-> "nothing",
             value |-> <<>>, lossy |-> no, result |-> "none", answer |-> <<>>]
  BY ONLY <1>7
<1>9. Channel!Begun(op, object, data) = [b EXCEPT !.data = data]
  BY <1>4, Zenon DEF a, b
<1> QED
  BY <1>5, <1>8, <1>9 DEF t, p

LEMMA TickShown ==
    ASSUME Inv, LossInv, ChanInv, Inv', LossInv', ChanInv',
           NEW lost \in {"none", "request", "reply"}, Tick(lost)
    PROVE  ChannelStep
<1> DEFINE s == isdu
           t == isdu'
           o == obs
           p == obs'
<1>1. o \in ObsStates /\ p \in ObsStates
  BY DEF Inv, Types
<1>2. /\ t.op = s.op /\ t.index = s.index
      /\ p.made = o.made /\ p.value = o.value /\ p.data = o.data
      /\ o.missed => p.missed
      /\ s.done => t = s /\ p.missed = o.missed
      /\ t.done => p.missed = o.missed
      /\ dev'.store = dev.store
  BY TickService
<1>3. t.done => Finished(t, p)
  BY DEF ChanInv, Kept
<1>4. /\ s.op = "none" => Shown = Channel!Idle
      /\ s.op # "none" => Shown = View(s, o)
  BY ShownAnyway
<1>5. /\ t.op = "none" => Shown' = Channel!Idle
      /\ t.op # "none" => Shown' = View(t, p)
  BY ShownAfter
<1> HIDE DEF s, t, o, p
<1>6. Continued(s, t, o, p)
  BY <1>1, <1>2 DEF Continued
<1>7. CASE s.op = "none"
  BY <1>2, <1>4, <1>5, <1>7, Stutter
<1>8. CASE s.op # "none"
  <2>1. Shown = View(s, o) /\ Shown' = View(t, p)
    BY <1>2, <1>4, <1>5, <1>8
  <2>2. CASE s.done
    <3>1. View(t, p) = View(s, o)
      BY <1>2, <2>2, SameView
    <3> QED
      BY <1>2, <2>1, <3>1, Stutter
  <2>3. CASE ~s.done /\ ~t.done /\ p.missed = o.missed
    <3>1. View(t, p) = View(s, o)
      BY <1>2, <2>3 DEF View
    <3> QED
      BY <1>2, <2>1, <3>1, Stutter
  <2>4. CASE ~s.done /\ ~t.done /\ p.missed # o.missed
    <3>1. p.missed = TRUE
      BY <1>1, <1>2, <2>4 DEF ObsStates
    <3>2. Loses(View(s, o), View(t, p))
      BY <1>8, <1>6, <2>4, <3>1, LossSeen
    <3>3. /\ Channel!Underway(Shown)
          /\ Shown' = [Shown EXCEPT !.lossy = TRUE]
      BY <2>1, <3>2 DEF Loses
    <3>4. Channel!Lose
      BY <1>2, <3>3, ShownSteps
    <3> QED
      BY <3>4 DEF ChannelStep, Channel!Next
  <2>5. CASE ~s.done /\ t.done
    <3>1. p.missed = o.missed /\ Finished(t, p)
      BY <1>2, <1>3, <2>5
    <3>2. Completes(View(s, o), View(t, p))
      BY <1>6, <2>5, <3>1, EndSeen
    <3>3. /\ Shown.made # "nothing" /\ Shown.result = "none"
          /\ \/ /\ Shown.made = "executed"
                /\ Shown' = [Shown EXCEPT !.result = "OK",
                      !.answer = IF Shown.lossy THEN Channel!NoValue ELSE Shown.value]
             \/ Shown' = [Shown EXCEPT !.result = "error"]
      BY <2>1, <3>2 DEF Completes
    <3>4. Channel!Complete
      BY <1>2, <3>3, ShownSteps
    <3> QED
      BY <3>4 DEF ChannelStep, Channel!Next
  <2> QED
    BY <2>2, <2>3, <2>4, <2>5
<1> QED
  BY <1>7, <1>8

\* A service that is over is collected.
LEMMA CollectShown ==
    ASSUME LossInv, ChanInv, LossInv', ChanInv', isdu.done,
           isdu' = IsduFinish(isdu), dev'.store = dev.store
    PROVE  ChannelStep
<1>1. isdu.op # "none"
  BY DEF LossInv, Together, Ordered
<1>2. Shown.result # "none"
  BY <1>1, ShownAnyway DEF View
<1>3. isdu'.op = "none"
  BY FinishFields DEF LossInv
<1>4. Shown' = Channel!Idle
  BY <1>3, ShownAfter
<1>5. Channel!Collect
  BY <1>2, <1>4, ShownSteps
<1> QED
  BY <1>5 DEF ChannelStep, Channel!Next

LEMMA ReadShown ==
    ASSUME Inv, LossInv, ChanInv, LossInv', ChanInv', NEW object \in Objects, Read(object)
    PROVE  ChannelStep
<1>1. \/ isdu' = isdu /\ obs' = obs
      \/ isdu' = IsduFinish(isdu) /\ isdu.done
      \/ /\ isdu' = IsduStart("read", object, ReadRequest(object))
         /\ isdu.op = "none" /\ obs' = Fresh(obs, <<>>)
  BY KeptRead
<1>2. dev'.store = dev.store
  BY DEF Read
<1>3. CASE isdu' = isdu /\ obs' = obs
  BY <1>2, <1>3, Unseen
<1>4. CASE isdu' = IsduFinish(isdu) /\ isdu.done
  BY <1>2, <1>4, CollectShown
<1>5. CASE /\ isdu' = IsduStart("read", object, ReadRequest(object))
           /\ isdu.op = "none" /\ obs' = Fresh(obs, <<>>)
  <2>1. Shown.op = "none"
    BY <1>5, ShownAnyway DEF Channel!Idle
  <2>2. isdu'.op = "read"
    BY <1>5, StartFields
  <2>3. Shown' = View(isdu', obs')
    BY <2>2, ShownAfter
  <2>4. obs \in ObsStates
    BY DEF Inv, Types
  <2>5. Shown' = Channel!Begun("read", object, <<>>)
    BY <1>5, <2>3, <2>4, BeginSeen
  <2>6. Channel!NoValue = <<>>
    BY DEF Channel!NoValue
  <2>7. Channel!Begin
    BY <1>2, <2>1, <2>5, <2>6, ShownSteps
  <2> QED
    BY <2>7 DEF ChannelStep, Channel!Next
<1> QED
  BY <1>1, <1>3, <1>4, <1>5

LEMMA WriteShown ==
    ASSUME Inv, LossInv, ChanInv, LossInv', ChanInv', NEW v \in Writes, Write(v[1], v[2])
    PROVE  ChannelStep
<1>1. \/ isdu' = isdu /\ (isdu.op # "none" => obs' = obs)
      \/ isdu' = IsduFinish(isdu) /\ isdu.done
      \/ /\ isdu' = IsduStart("write", v[1], WriteRequest(v[1], v[2]))
         /\ isdu.op = "none" /\ obs' = Fresh(obs, v[2])
  BY KeptWrite
<1>2. dev'.store = dev.store
  BY DEF Write
<1>3. CASE isdu' = isdu /\ (isdu.op # "none" => obs' = obs)
  BY <1>2, <1>3, Unseen
<1>4. CASE isdu' = IsduFinish(isdu) /\ isdu.done
  BY <1>2, <1>4, CollectShown
<1>5. CASE /\ isdu' = IsduStart("write", v[1], WriteRequest(v[1], v[2]))
           /\ isdu.op = "none" /\ obs' = Fresh(obs, v[2])
  <2> DEFINE object == v[1]
             data == v[2]
  <2>1. Shown.op = "none"
    BY <1>5, ShownAnyway DEF Channel!Idle
  <2>2. isdu'.op = "write"
    BY <1>5, StartFields
  <2>3. Shown' = View(isdu', obs')
    BY <2>2, ShownAfter
  <2>4. obs \in ObsStates
    BY DEF Inv, Types
  <2>5. Shown' = Channel!Begun("write", object, data)
    BY <1>5, <2>3, <2>4, BeginSeen
  <2>6. object \in Objects /\ data \in {w[2] : w \in Writes}
    BY ServicesAssumption
  <2> HIDE DEF object, data
  <2>7. Channel!Begin
    BY <1>2, <2>1, <2>5, <2>6, ShownSteps
  <2> QED
    BY <2>7 DEF ChannelStep, Channel!Next
<1> QED
  BY <1>1, <1>3, <1>4, <1>5

LEMMA LoseShown ==
    ASSUME Inv, LossInv, ChanInv, Inv', LossInv', ChanInv',
           NEW exchanged \in BOOLEAN, LoseConnection(exchanged)
    PROVE  ChannelStep
<1> DEFINE s == isdu
           o == obs
           p == obs'
<1>1. /\ isdu' = s /\ dev'.store = dev.store
      /\ p.made = o.made /\ p.value = o.value /\ p.data = o.data
      /\ p.missed = o.missed \/ (p.missed = TRUE /\ s.phase = "response")
  BY KeptLose
<1>2. o \in ObsStates /\ p \in ObsStates /\ Ordered(s)
  BY DEF Inv, Types, LossInv, Together
<1>3. CASE p.missed = o.missed
  BY <1>1, <1>3, Unseen
<1>4. CASE p.missed = TRUE /\ s.phase = "response"
  <2>1. s.op # "none" /\ ~s.done
    BY <1>2, <1>4 DEF Ordered
  <2>2. Shown = View(s, o) /\ Shown' = View(s, p)
    BY <1>1, <2>1, ShownAnyway, ShownAfter
  <2> HIDE DEF s, o, p
  <2>3. Continued(s, s, o, p)
    BY <1>1, <1>2 DEF Continued
  <2>4. Loses(View(s, o), View(s, p))
    BY <1>4, <2>1, <2>3, LossSeen
  <2>5. /\ Channel!Underway(Shown)
        /\ Shown' = [Shown EXCEPT !.lossy = TRUE]
    BY <2>2, <2>4 DEF Loses
  <2>6. Channel!Lose
    BY <1>1, <2>5, ShownSteps
  <2> QED
    BY <2>6 DEF ChannelStep, Channel!Next
<1> QED
  BY <1>1, <1>3, <1>4

\* What the device makes of the service.
ToBeMade(s, o, p) == /\ ~s.done /\ o.made = "nothing"
                     /\ p.data = o.data /\ p.missed = o.missed

Makes(s, o, p, c, e) ==
    /\ c.op = s.op /\ c.made = "nothing" /\ c.object = s.index /\ c.data = o.data
    /\ e = [c EXCEPT !.made = p.made, !.value = p.value]
    /\ p.value = o.value => e = [c EXCEPT !.made = p.made]

LEMMA MadeSeen ==
    ASSUME NEW s, NEW o, NEW p, ToBeMade(s, o, p)
    PROVE  Makes(s, o, p, View(s, o), View(s, p))
<1> ~s.done /\ o.made = "nothing" /\ p.data = o.data /\ p.missed = o.missed
  BY DEF ToBeMade
<1> DEFINE c == View(s, o)
           op == s.op
           object == s.index
           data == o.data
           value == o.value
           lossy == o.missed
           x == p.made
           y == p.value
<1>1. c = [op |-> op, object |-> object, data |-> data, made |-> "nothing",
           value |-> value, lossy |-> lossy, result |-> "none", answer |-> <<>>]
  BY DEF View
<1>2. View(s, p) = [op |-> op, object |-> object, data |-> data, made |-> x,
                    value |-> y, lossy |-> lossy, result |-> "none", answer |-> <<>>]
  BY DEF View
<1> HIDE DEF c, op, object, data, value, lossy, x, y
<1>3. c.op = op /\ c.made = "nothing" /\ c.object = object /\ c.data = data
  BY <1>1
<1> DEFINE g == [c EXCEPT !.made = x]
<1>4. g = [op |-> op, object |-> object, data |-> data, made |-> x,
           value |-> value, lossy |-> lossy, result |-> "none", answer |-> <<>>]
  BY ONLY <1>1
<1>5. y = value => View(s, p) = [c EXCEPT !.made = x]
  BY <1>2, <1>4
<1> HIDE DEF g
<1>6. [g EXCEPT !.value = y]
          = [op |-> op, object |-> object, data |-> data, made |-> x,
             value |-> y, lossy |-> lossy, result |-> "none", answer |-> <<>>]
  BY ONLY <1>4
<1>7. [c EXCEPT !.made = x, !.value = y] = [g EXCEPT !.value = y]
  BY Zenon DEF g
<1>8. View(s, p) = [c EXCEPT !.made = x, !.value = y]
  BY <1>2, <1>6, <1>7
<1> QED
  BY <1>3, <1>5, <1>8 DEF c, op, object, data, value, x, y, Makes

LEMMA ExecuteShown ==
    ASSUME Inv, LossInv, ChanInv, LossInv', ChanInv',
           NEW accepts \in BOOLEAN, Execute(accepts)
    PROVE  ChannelStep
<1> DEFINE s == isdu
           o == obs
           p == obs'
           c == View(s, o)
           value == IF s.op = "read" THEN dev.store[s.index] ELSE <<>>
<1>1. /\ isdu' = s /\ s.op \in {"read", "write"} /\ ~s.done
      /\ o.made = "nothing" /\ o.value = <<>>
      /\ p.data = o.data /\ p.missed = o.missed
      /\ p.made = IF accepts THEN "executed" ELSE "refused"
      /\ p.value = IF accepts THEN value ELSE <<>>
      /\ dev'.store = IF accepts /\ s.op = "write"
                      THEN [dev.store EXCEPT ![s.index] = o.data] ELSE dev.store
  BY KeptExecute
<1>2. Shown = c /\ Shown' = View(s, p)
  BY <1>1, ShownAnyway, ShownAfter
<1> HIDE DEF s, o, p
<1>3. /\ c.op = s.op /\ c.made = "nothing" /\ c.object = s.index /\ c.data = o.data
      /\ View(s, p) = [c EXCEPT !.made = p.made, !.value = p.value]
      /\ p.value = o.value => View(s, p) = [c EXCEPT !.made = p.made]
  <2>1. ToBeMade(s, o, p)
    BY <1>1 DEF ToBeMade
  <2>2. Makes(s, o, p, View(s, o), View(s, p))
    BY <2>1, MadeSeen
  <2> QED
    BY <2>2 DEF Makes
<1> HIDE DEF c
<1>4. c.op # "none"
  BY <1>1, <1>3
<1>5. CASE accepts
  <2>1. p.made = "executed" /\ p.value = value
    BY <1>1, <1>5
  <2>2. value = IF c.op = "read" THEN dev.store[c.object] ELSE Channel!NoValue
    BY <1>3 DEF Channel!NoValue
  <2> HIDE DEF value
  <2>3. View(s, p) = Channel!Executed(dev.store, c)
    BY <1>3, <2>1, <2>2 DEF Channel!Executed
  <2>4. dev'.store = Channel!Stored(dev.store, c)
    BY <1>1, <1>3, <1>5 DEF Channel!Stored
  <2>5. Channel!Execute
    BY <1>2, <1>3, <1>4, <2>3, <2>4, ShownSteps
  <2> QED
    BY <2>5 DEF ChannelStep, Channel!Next
<1>6. CASE ~accepts
  <2>1. p.made = "refused" /\ p.value = o.value /\ dev'.store = dev.store
    BY <1>1, <1>6
  <2>2. View(s, p) = [c EXCEPT !.made = "refused"]
    BY <1>3, <2>1
  <2>3. Channel!Execute
    BY <1>2, <1>3, <1>4, <2>1, <2>2, ShownSteps
  <2> QED
    BY <2>3 DEF ChannelStep, Channel!Next
<1> QED
  BY <1>5, <1>6

LEMMA RestartShown ==
    ASSUME Inv, LossInv, ChanInv, LossInv', ChanInv', Restart
    PROVE  ChannelStep
<1>1. isdu'.op = "none" /\ dev'.store = dev.store
  BY KeptRestart
<1>2. Shown' = Channel!Idle
  BY <1>1, ShownAfter
<1>3. Channel!Abandon
  BY <1>1, <1>2, ShownSteps
<1> QED
  BY <1>3 DEF ChannelStep, Channel!Next

LEMMA NextShown ==
    ASSUME Inv, LossInv, ChanInv, Inv', LossInv', ChanInv', [Next]_vars
    PROVE  ChannelStep
<1>1. CASE UNCHANGED vars
  BY <1>1, Unseen DEF vars
<1>2. ASSUME NEW lost \in {"none", "request", "reply"}, Tick(lost) PROVE ChannelStep
  BY <1>2, TickShown
<1>3. CASE Reestablish
  BY <1>3, Unseen DEF Reestablish
<1>4. ASSUME NEW request \in EventCalls, CallEvent(request) PROVE ChannelStep
  BY <1>4, KeptCallEvent, Unseen
<1>5. ASSUME NEW events \in Raisable, Raise(events) PROVE ChannelStep
  BY <1>5, KeptRaise, Unseen
<1>6. ASSUME NEW accepts \in BOOLEAN, Execute(accepts) PROVE ChannelStep
  BY <1>6, ExecuteShown
<1>7. CASE Next
  BY <1>2, <1>3, <1>4, <1>5, <1>6, <1>7, ReadShown, WriteShown,
     RestartShown, LoseShown DEF Next
<1> QED
  BY <1>1, <1>7

LEMMA InitShown ==
    ASSUME Init
    PROVE  Channel!Init
<1>1. isdu = IsduClear /\ dev.store = Store
  BY DEF Init
<1>2. isdu.op = "none" /\ ~isdu.done /\ isdu.index = NoObject
  BY <1>1, ClearFields, IndexFields
<1>3. Shown = Channel!Idle
  BY <1>2, ShownIs, ShownIdle
<1>4. Channel!Init = (Shown = Channel!Idle /\ dev.store \in [Objects -> Seq(Octets)])
  BY DEF Channel!Init, Shown
<1> QED
  BY <1>1, <1>3, <1>4, ServicesAssumption

\* Segmentation, FlowCTRL, CHKPDU, the length fields and the sharing of the OD
\* channel amount to the service of IsduChannel: what the device executes is
\* what was asked for, once, and a read that lost nothing of its response
\* returns the value of the device (iolink_master_read_isdu and _write_isdu,
\* isdu_on_od, route_od).  That holds with one lost message or lost connection,
\* and of objects whose response fits the buffer: a response that does not is
\* given up without the ABORT that would bring the device back.
THEOREM ServicesImplementChannel ==
    ASSUME MaxLosses <= 1, ValuesFit
    PROVE  Spec => ChannelImplemented
<1>1. Init => Channel!Init
  BY InitShown
<1>2. Inv /\ LossInv /\ ChanInv /\ Inv' /\ LossInv' /\ ChanInv' /\ [Next]_vars
          => [Channel!Next]_(Channel!vars)
  BY NextShown DEF ChannelStep
<1>3. Init => ChanInv
  BY InitKept
<1>4. Inv /\ LossInv /\ ChanInv /\ [Next]_vars => ChanInv'
  BY NextKept
<1>5. Inv /\ LossInv /\ [Next]_vars => LossInv'
  BY NextTogether
<1> QED
  BY <1>1, <1>2, <1>3, <1>4, <1>5, InitTogether, SpecInv,
     PTL DEF Spec, ChannelImplemented, Channel!Spec

=============================================================================
