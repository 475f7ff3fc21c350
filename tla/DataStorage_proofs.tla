------------------------- MODULE DataStorage_proofs -------------------------
(***************************************************************************)
(* The comparison of Data Storage images, for every two sequences of        *)
(* numbers: the loops over the records compute what the reference           *)
(* definition says.                                                         *)
(***************************************************************************)
EXTENDS DataStorage, SequenceTheorems, FiniteSetTheorems, WellFoundedInduction,
        TLAPS

-----------------------------------------------------------------------------
(* Least and greatest numbers, in place of induction.                      *)

LEMMA LeastNumber ==
    ASSUME NEW T, T \subseteq Nat, T # {}
    PROVE  \E n \in T : \A k \in T : n <= k
<1>1. PICK n \in T : \A k \in T : ~(<<k, n>> \in OpToRel(<, Nat))
  BY WFMin, NatLessThanWellFounded
<1>2. ASSUME NEW k \in T PROVE n <= k
  <2>1. n \in Nat /\ k \in Nat
    OBVIOUS
  <2>2. <<k, n>> \in OpToRel(<, Nat) <=> k < n
    BY <2>1 DEF OpToRel
  <2>3. ~(k < n)
    BY <1>1, <2>2, Zenon
  <2> QED
    BY <2>1, <2>3
<1> QED
  BY <1>2

LEMMA GreatestNumber ==
    ASSUME NEW m \in Nat, NEW T, T \subseteq 0..m, T # {}
    PROVE  \E n \in T : \A k \in T : k <= n
<1> DEFINE U == {u \in 0..m : m - u \in T}
<1>1. U \subseteq Nat
  OBVIOUS
<1>2. U # {}
  <2>1. PICK k \in T : TRUE
    OBVIOUS
  <2>2. m - k \in 0..m /\ m - (m - k) = k
    OBVIOUS
  <2> QED
    BY <2>2
<1>3. PICK u \in U : \A v \in U : u <= v
  BY <1>1, <1>2, LeastNumber
<1>4. m - u \in T
  OBVIOUS
<1>5. ASSUME NEW k \in T PROVE k <= m - u
  <2>1. m - k \in 0..m /\ m - (m - k) = k
    OBVIOUS
  <2>2. u <= m - k
    BY <1>3, <2>1
  <2> QED
    BY <2>1, <2>2
<1> QED
  BY <1>4, <1>5

-----------------------------------------------------------------------------
(* Walking through an image: what the recursive loops compute.             *)

\* Behind a record there is a later position of the image.
LEMMA NextPosLater ==
    ASSUME NEW d \in Seq(Nat), NEW a \in 0..Len(d), HasRecord(d, a)
    PROVE  NextPos(d, a) \in (a + HeaderLen)..Len(d)
<1>1. Len(d) \in Nat /\ a + 4 \in 1..Len(d)
  BY DEF HasRecord, HeaderLen
<1>2. d[a + 4] \in Nat
  BY <1>1
<1> QED
  BY <1>1, <1>2 DEF HasRecord, NextPos, HeaderLen

\* From pos the end is reached over records of K: some set of positions holds
\* pos and with every position but the end the next one.
Reaches(d, K, pos) ==
    \E S \in SUBSET (0..Len(d)) :
        /\ pos \in S
        /\ \A a \in S : a = Len(d) \/ (a \in K /\ NextPos(d, a) \in S)

\* The positions that follow one another from some of them on.
Closed(d, S) == \A a \in S : HasRecord(d, a) => NextPos(d, a) \in S

\* Whoever walks from pos comes by the record r.
Meets(d, r, pos) ==
    \A S \in SUBSET (0..Len(d)) :
        pos \in S /\ Closed(d, S) =>
            \E a \in S : HasRecord(d, a) /\ RecordAt(d, a) = r

LEMMA ReachesStep ==
    ASSUME NEW d \in Seq(Nat), NEW K, \A a \in K : HasRecord(d, a),
           NEW pos \in 0..Len(d)
    PROVE  Reaches(d, K, pos) <=>
             pos = Len(d) \/ (pos \in K /\ Reaches(d, K, NextPos(d, pos)))
<1>1. ASSUME Reaches(d, K, pos), pos # Len(d)
      PROVE  pos \in K /\ Reaches(d, K, NextPos(d, pos))
  BY <1>1 DEF Reaches
<1>2. ASSUME pos = Len(d) PROVE Reaches(d, K, pos)
  <2>1. {pos} \in SUBSET (0..Len(d))
    OBVIOUS
  <2> QED
    BY <1>2, <2>1 DEF Reaches
<1>3. ASSUME pos \in K, Reaches(d, K, NextPos(d, pos)) PROVE Reaches(d, K, pos)
  <2>1. PICK S \in SUBSET (0..Len(d)) :
           /\ NextPos(d, pos) \in S
           /\ \A a \in S : a = Len(d) \/ (a \in K /\ NextPos(d, a) \in S)
    BY <1>3 DEF Reaches
  <2>2. S \cup {pos} \in SUBSET (0..Len(d))
    OBVIOUS
  <2> QED
    BY <1>3, <2>1, <2>2 DEF Reaches
<1> QED
  BY <1>1, <1>2, <1>3

LEMMA MeetsStep ==
    ASSUME NEW d \in Seq(Nat), NEW r, NEW pos \in 0..Len(d)
    PROVE  Meets(d, r, pos) <=>
             /\ HasRecord(d, pos)
             /\ RecordAt(d, pos) = r \/ Meets(d, r, NextPos(d, pos))
<1>1. ASSUME Meets(d, r, pos) PROVE HasRecord(d, pos)
  <2>1. {pos} \in SUBSET (0..Len(d))
    OBVIOUS
  <2>2. CASE ~HasRecord(d, pos)
    <3>1. Closed(d, {pos})
      BY <2>2 DEF Closed
    <3> QED
      BY <1>1, <2>1, <2>2, <3>1 DEF Meets
  <2> QED
    BY <2>2
<1>2. ASSUME Meets(d, r, pos), RecordAt(d, pos) # r
      PROVE  Meets(d, r, NextPos(d, pos))
  <2>1. SUFFICES ASSUME NEW S \in SUBSET (0..Len(d)), NextPos(d, pos) \in S,
                        Closed(d, S)
                 PROVE  \E a \in S : HasRecord(d, a) /\ RecordAt(d, a) = r
    BY DEF Meets
  <2>2. S \cup {pos} \in SUBSET (0..Len(d)) /\ Closed(d, S \cup {pos})
    BY <2>1 DEF Closed
  <2>3. PICK a \in S \cup {pos} : HasRecord(d, a) /\ RecordAt(d, a) = r
    BY <1>2, <2>2 DEF Meets
  <2> QED
    BY <1>2, <2>3
<1>3. ASSUME HasRecord(d, pos), RecordAt(d, pos) = r PROVE Meets(d, r, pos)
  BY <1>3 DEF Meets
<1>4. ASSUME HasRecord(d, pos), Meets(d, r, NextPos(d, pos))
      PROVE  Meets(d, r, pos)
  BY <1>4 DEF Meets, Closed
<1> QED
  BY <1>1, <1>2, <1>3, <1>4

\* A set that takes in every position behind which it has all is full.
LEMMA Backward ==
    ASSUME NEW n \in Nat, NEW T,
           \A pos \in 0..n : (\A q \in 0..n : q > pos => q \in T) => pos \in T
    PROVE  \A pos \in 0..n : pos \in T
<1> DEFINE Wrong == {pos \in 0..n : pos \notin T}
<1>1. SUFFICES ASSUME Wrong # {} PROVE FALSE
  OBVIOUS
<1>2. PICK pos \in Wrong : \A q \in Wrong : q <= pos
  BY <1>1, GreatestNumber
<1>3. \A q \in 0..n : q > pos => q \in T
  BY <1>2
<1> QED
  BY <1>3

Records(d) == {a \in 0..Len(d) : HasRecord(d, a)}

\* ds_image_is_valid: the end is reached over records.
LEMMA ValidReaches ==
    ASSUME NEW d \in Seq(Nat)
    PROVE  ImageIsValid(d) <=> Reaches(d, Records(d), 0)
<1> DEFINE n == Len(d)
           Step(f) == [pos \in 0..n |->
                         \/ pos = n
                         \/ HasRecord(d, pos) /\ f[NextPos(d, pos)]]
           closed == [pos \in 0..n |-> Reaches(d, Records(d), pos)]
           valid == CHOOSE f : f = Step(f)
<1>1. n \in Nat
  OBVIOUS
<1>2. ASSUME NEW pos \in 0..n
      PROVE  closed[pos] = (pos = n \/ (HasRecord(d, pos) /\ closed[NextPos(d, pos)]))
  <2>1. pos \in Records(d) <=> HasRecord(d, pos)
    BY DEF Records
  <2>2. HasRecord(d, pos) => NextPos(d, pos) \in 0..n
    BY NextPosLater DEF HeaderLen
  <2>3. Reaches(d, Records(d), pos) <=>
           pos = n \/ (pos \in Records(d) /\ Reaches(d, Records(d), NextPos(d, pos)))
    BY ReachesStep DEF Records
  <2>4. /\ closed[pos] = Reaches(d, Records(d), pos)
        /\ HasRecord(d, pos) =>
             closed[NextPos(d, pos)] = Reaches(d, Records(d), NextPos(d, pos))
    BY <2>2, Zenon
  <2>5. Reaches(d, Records(d), pos) \in BOOLEAN
    BY Zenon DEF Reaches
  <2> HIDE DEF closed
  <2>6. CASE HasRecord(d, pos)
    BY <2>1, <2>3, <2>4, <2>5, <2>6
  <2>7. CASE ~HasRecord(d, pos)
    BY <2>1, <2>3, <2>4, <2>5, <2>7
  <2> QED
    BY <2>6, <2>7
<1>3. closed = Step(closed)
  <2> DEFINE E(pos) == pos = n \/ (HasRecord(d, pos) /\ closed[NextPos(d, pos)])
  <2>1. \A pos \in 0..n : closed[pos] = E(pos)
    BY <1>2
  <2>2. closed = [pos \in 0..n |-> closed[pos]]
    BY Zenon
  <2>3. Step(closed) = [pos \in 0..n |-> E(pos)]
    OBVIOUS
  <2> HIDE DEF closed, E
  <2> QED
    BY <2>1, <2>2, <2>3, Zenon
<1>4. valid = Step(valid)
  BY <1>3
<1>5. ImageIsValid(d) = valid[0]
  BY DEF ImageIsValid
<1> HIDE DEF valid
<1>6. ASSUME NEW pos \in 0..n, \A q \in 0..n : q > pos => valid[q] = closed[q]
      PROVE  valid[pos] = closed[pos]
  <2>1. valid[pos] = (pos = n \/ (HasRecord(d, pos) /\ valid[NextPos(d, pos)]))
    BY <1>4, Zenon
  <2>2. HasRecord(d, pos) => NextPos(d, pos) \in 0..n /\ NextPos(d, pos) > pos
    BY NextPosLater DEF HeaderLen
  <2>3. HasRecord(d, pos) => valid[NextPos(d, pos)] = closed[NextPos(d, pos)]
    BY <1>6, <2>2
  <2> QED
    BY <1>2, <2>1, <2>3
<1> HIDE DEF closed
<1> DEFINE Right == {pos \in 0..n : valid[pos] = closed[pos]}
<1>7. \A pos \in 0..n : (\A q \in 0..n : q > pos => q \in Right) => pos \in Right
  BY <1>6
<1>8. \A pos \in 0..n : pos \in Right
  <2> HIDE DEF Right
  <2> QED
    BY <1>1, <1>7, Backward
<1>9. valid[0] = closed[0] /\ 0 \in 0..n
  BY <1>1, <1>8
<1> QED
  BY <1>5, <1>9, Zenon DEF closed


\* The inner loop of ds_image_contains_records comes by the record.
LEMMA FindsMeets ==
    ASSUME NEW d \in Seq(Nat), NEW r
    PROVE  FindsRecord(d, r) <=> Meets(d, r, 0)
<1> DEFINE n == Len(d)
           Step(f) == [pos \in 0..n |->
                         /\ HasRecord(d, pos)
                         /\ RecordAt(d, pos) = r \/ f[NextPos(d, pos)]]
           closed == [pos \in 0..n |-> Meets(d, r, pos)]
           finds == CHOOSE f : f = Step(f)
<1>1. n \in Nat
  OBVIOUS
<1>2. ASSUME NEW pos \in 0..n
      PROVE  closed[pos] = (HasRecord(d, pos)
                /\ (RecordAt(d, pos) = r \/ closed[NextPos(d, pos)]))
  <2>1. HasRecord(d, pos) => NextPos(d, pos) \in 0..n
    BY NextPosLater DEF HeaderLen
  <2>2. Meets(d, r, pos) <=>
           HasRecord(d, pos)
              /\ (RecordAt(d, pos) = r \/ Meets(d, r, NextPos(d, pos)))
    BY MeetsStep
  <2>3. /\ closed[pos] = Meets(d, r, pos)
        /\ HasRecord(d, pos) =>
             closed[NextPos(d, pos)] = Meets(d, r, NextPos(d, pos))
    BY <2>1, Zenon
  <2>4. Meets(d, r, pos) \in BOOLEAN
    BY Zenon DEF Meets
  <2> HIDE DEF closed
  <2>5. CASE HasRecord(d, pos)
    BY <2>2, <2>3, <2>4, <2>5
  <2>6. CASE ~HasRecord(d, pos)
    BY <2>2, <2>3, <2>4, <2>6
  <2> QED
    BY <2>5, <2>6
<1>3. closed = Step(closed)
  <2> DEFINE E(pos) == HasRecord(d, pos)
                /\ (RecordAt(d, pos) = r \/ closed[NextPos(d, pos)])
  <2>1. \A pos \in 0..n : closed[pos] = E(pos)
    BY <1>2
  <2>2. closed = [pos \in 0..n |-> closed[pos]]
    BY Zenon
  <2>3. Step(closed) = [pos \in 0..n |-> E(pos)]
    OBVIOUS
  <2> HIDE DEF closed, E
  <2> QED
    BY <2>1, <2>2, <2>3, Zenon
<1>4. finds = Step(finds)
  BY <1>3
<1>5. FindsRecord(d, r) = finds[0]
  BY DEF FindsRecord
<1> HIDE DEF finds
<1>6. ASSUME NEW pos \in 0..n, \A q \in 0..n : q > pos => finds[q] = closed[q]
      PROVE  finds[pos] = closed[pos]
  <2>1. finds[pos] = (HasRecord(d, pos)
                /\ (RecordAt(d, pos) = r \/ finds[NextPos(d, pos)]))
    BY <1>4, Zenon
  <2>2. HasRecord(d, pos) => NextPos(d, pos) \in 0..n /\ NextPos(d, pos) > pos
    BY NextPosLater DEF HeaderLen
  <2>3. HasRecord(d, pos) => finds[NextPos(d, pos)] = closed[NextPos(d, pos)]
    BY <1>6, <2>2
  <2> QED
    BY <1>2, <2>1, <2>3
<1> HIDE DEF closed
<1> DEFINE Right == {pos \in 0..n : finds[pos] = closed[pos]}
<1>7. \A pos \in 0..n : (\A q \in 0..n : q > pos => q \in Right) => pos \in Right
  BY <1>6
<1>8. \A pos \in 0..n : pos \in Right
  <2> HIDE DEF Right
  <2> QED
    BY <1>1, <1>7, Backward
<1>9. finds[0] = closed[0] /\ 0 \in 0..n
  BY <1>1, <1>8
<1> QED
  BY <1>5, <1>9, Zenon DEF closed

\* The records of an image that another one has, too.
Found(actual, d) ==
    {a \in 0..Len(d) : HasRecord(d, a) /\ FindsRecord(actual, RecordAt(d, a))}

\* The outer loop: the end is reached over records that are found.
LEMMA ContainsReaches ==
    ASSUME NEW d \in Seq(Nat), NEW actual
    PROVE  ImageContainsRecords(actual, d) <=> Reaches(d, Found(actual, d), 0)
<1> DEFINE n == Len(d)
           Ok(pos) == HasRecord(d, pos) /\ FindsRecord(actual, RecordAt(d, pos))
           Step(f) == [pos \in 0..n |->
                         \/ pos = n
                         \/ /\ HasRecord(d, pos)
                            /\ FindsRecord(actual, RecordAt(d, pos))
                            /\ f[NextPos(d, pos)]]
           closed == [pos \in 0..n |-> Reaches(d, Found(actual, d), pos)]
           contains == CHOOSE f : f = Step(f)
<1>1. n \in Nat
  OBVIOUS
<1>2. ASSUME NEW pos \in 0..n
      PROVE  closed[pos] = (pos = n \/ (Ok(pos) /\ closed[NextPos(d, pos)]))
  <2>1. pos \in Found(actual, d) <=> Ok(pos)
    BY DEF Found
  <2>2. Ok(pos) => NextPos(d, pos) \in 0..n
    BY NextPosLater DEF HeaderLen
  <2>3. Reaches(d, Found(actual, d), pos) <=>
           pos = n \/ (pos \in Found(actual, d) /\ Reaches(d, Found(actual, d), NextPos(d, pos)))
    BY ReachesStep DEF Found
  <2>4. /\ closed[pos] = Reaches(d, Found(actual, d), pos)
        /\ Ok(pos) =>
             closed[NextPos(d, pos)] = Reaches(d, Found(actual, d), NextPos(d, pos))
    BY <2>2, Zenon
  <2>5. Reaches(d, Found(actual, d), pos) \in BOOLEAN
    BY Zenon DEF Reaches
  <2> HIDE DEF closed, Ok
  <2>6. CASE Ok(pos)
    BY <2>1, <2>3, <2>4, <2>5, <2>6
  <2>7. CASE ~Ok(pos)
    BY <2>1, <2>3, <2>4, <2>5, <2>7
  <2> QED
    BY <2>6, <2>7
<1>3. closed = Step(closed)
  <2> DEFINE E(pos) == pos = n \/ (Ok(pos) /\ closed[NextPos(d, pos)])
  <2>1. \A pos \in 0..n : closed[pos] = E(pos)
    BY <1>2
  <2>2. closed = [pos \in 0..n |-> closed[pos]]
    BY Zenon
  <2>3. Step(closed) = [pos \in 0..n |-> E(pos)]
    OBVIOUS
  <2> HIDE DEF closed, E
  <2> QED
    BY <2>1, <2>2, <2>3, Zenon
<1>4. contains = Step(contains)
  BY <1>3
<1>5. ImageContainsRecords(actual, d) = contains[0]
  BY DEF ImageContainsRecords
<1> HIDE DEF contains
<1>6. ASSUME NEW pos \in 0..n, \A q \in 0..n : q > pos => contains[q] = closed[q]
      PROVE  contains[pos] = closed[pos]
  <2>1. contains[pos] = (pos = n \/ (Ok(pos) /\ contains[NextPos(d, pos)]))
    BY <1>4, Zenon
  <2>2. Ok(pos) => NextPos(d, pos) \in 0..n /\ NextPos(d, pos) > pos
    BY NextPosLater DEF HeaderLen
  <2>3. Ok(pos) => contains[NextPos(d, pos)] = closed[NextPos(d, pos)]
    BY <1>6, <2>2
  <2> QED
    BY <1>2, <2>1, <2>3
<1> HIDE DEF closed
<1> DEFINE Right == {pos \in 0..n : contains[pos] = closed[pos]}
<1>7. \A pos \in 0..n : (\A q \in 0..n : q > pos => q \in Right) => pos \in Right
  BY <1>6
<1>8. \A pos \in 0..n : pos \in Right
  <2> HIDE DEF Right
  <2> QED
    BY <1>1, <1>7, Backward
<1>9. contains[0] = closed[0] /\ 0 \in 0..n
  BY <1>1, <1>8
<1> QED
  BY <1>5, <1>9, Zenon DEF closed


-----------------------------------------------------------------------------
(* The reference: cutting an image into records.                           *)

\* A piece of an image is a record iff there is one where it starts that ends
\* where it ends.
LEMMA PieceIsRecord ==
    ASSUME NEW d \in Seq(Nat), NEW a \in 0..Len(d), NEW b \in 0..Len(d), a < b
    PROVE  IsRecord(SubSeq(d, a + 1, b)) <=> HasRecord(d, a) /\ NextPos(d, a) = b
<1> DEFINE s == SubSeq(d, a + 1, b)
<1>1. Len(d) \in Nat /\ \A i \in (a + 1)..b : d[i] \in Nat
  OBVIOUS
<1>2. /\ Len(s) = b - a
      /\ \A i \in 1..(b - a) : s[i] = d[a + i]
  BY <1>1, SubSeqProperties
<1>5. SUFFICES IsRecord(s) <=> HasRecord(d, a) /\ NextPos(d, a) = b
  OBVIOUS
<1> HIDE DEF s
<1>3. CASE b - a >= 4
  <2>1. s[4] = d[a + 4] /\ d[a + 4] \in Nat
    BY <1>1, <1>2, <1>3
  <2>2. IsRecord(s) <=> b - a = 4 + d[a + 4]
    BY <1>2, <1>3, <2>1 DEF IsRecord, HeaderLen
  <2>3. HasRecord(d, a) /\ NextPos(d, a) = b <=> b - a = 4 + d[a + 4]
    <3> DEFINE v == d[a + 4]
               n == Len(d)
    <3>1. /\ HasRecord(d, a) <=> a + 4 <= n /\ v <= n - a - 4
          /\ NextPos(d, a) = a + 4 + v
      BY DEF HasRecord, NextPos, HeaderLen
    <3>2. v \in Nat /\ n \in Nat /\ a \in Nat /\ b \in Nat /\ b <= n
      BY <1>1, <2>1
    <3> HIDE DEF v, n
    <3>3. HasRecord(d, a) /\ NextPos(d, a) = b <=> b - a = 4 + v
      BY <1>3, <3>1, <3>2
    <3> QED
      BY <3>3 DEF v
  <2> QED
    BY <2>2, <2>3
<1>4. CASE b - a < 4
  <2>1. HasRecord(d, a) => NextPos(d, a) >= a + 4
    BY <1>1, NextPosLater DEF HeaderLen
  <2> QED
    BY <1>1, <1>2, <1>4, <2>1 DEF IsRecord, HeaderLen
<1> QED
  BY <1>1, <1>3, <1>4

\* From where to where the pieces of a cutting go.
Spans(d, C, a, b) ==
    /\ a \in {0} \cup C /\ b \in C \cup {Len(d)} /\ a < b
    /\ \A c \in C : ~(a < c /\ c < b)

LEMMA PiecesSpan ==
    ASSUME NEW d, NEW C, NEW piece
    PROVE  piece \in Pieces(d, C) <=>
             \E a, b : Spans(d, C, a, b) /\ piece = SubSeq(d, a + 1, b)
<1> DEFINE starts == {0} \cup C
           ends == C \cup {Len(d)}
           free == {q \in starts \X ends :
                      q[1] < q[2] /\ \A c \in C : ~(q[1] < c /\ c < q[2])}
<1>1. Pieces(d, C) = {SubSeq(d, p[1] + 1, p[2]) : p \in free}
  BY DEF Pieces
<1>2. ASSUME NEW p \in free
      PROVE  Spans(d, C, p[1], p[2])
  BY DEF Spans
<1>3. ASSUME NEW a, NEW b, Spans(d, C, a, b)
      PROVE  <<a, b>> \in free
  BY <1>3 DEF Spans
<1>4. ASSUME piece \in Pieces(d, C)
      PROVE  \E a, b : Spans(d, C, a, b) /\ piece = SubSeq(d, a + 1, b)
  <2> HIDE DEF free
  <2>1. PICK p \in free : piece = SubSeq(d, p[1] + 1, p[2])
    BY <1>1, <1>4
  <2>2. Spans(d, C, p[1], p[2])
    BY <1>2
  <2> QED
    BY <2>1, <2>2, Zenon
<1>5. ASSUME NEW a, NEW b, Spans(d, C, a, b), piece = SubSeq(d, a + 1, b)
      PROVE  piece \in Pieces(d, C)
  <2>1. <<a, b>> \in free
    BY <1>3, <1>5
  <2>2. <<a, b>>[1] = a /\ <<a, b>>[2] = b
    OBVIOUS
  <2> DEFINE p == <<a, b>>
  <2> HIDE DEF free, p
  <2>3. p \in free /\ piece = SubSeq(d, p[1] + 1, p[2])
    BY <1>5, <2>1, <2>2 DEF p
  <2> QED
    BY <1>1, <2>3
<1> QED
  BY <1>4, <1>5

\* The pieces of a cutting are the records at its positions, each of which is
\* where the one before it ends.
LEMMA CuttingWalks ==
    ASSUME NEW d \in Seq(Nat), NEW C \in Cuttings(d)
    PROVE  /\ C \subseteq 1..(Len(d) - 1)
           /\ \A a \in {0} \cup C : a # Len(d) =>
                /\ HasRecord(d, a) /\ NextPos(d, a) \in C \cup {Len(d)}
                /\ RecordAt(d, a) \in Pieces(d, C)
           /\ \A piece \in Pieces(d, C) : \E a \in {0} \cup C :
                HasRecord(d, a) /\ piece = RecordAt(d, a)
           /\ \A c \in C : \E a \in {0} \cup C :
                a < c /\ HasRecord(d, a) /\ NextPos(d, a) = c
<1> DEFINE n == Len(d)
<1>1. n \in Nat
  OBVIOUS
<1>2. C \subseteq 1..(n - 1)
  BY DEF Cuttings, kSubset
<1>9. \A piece \in Pieces(d, C) : IsRecord(piece)
  BY DEF Cuttings
<1>3. ASSUME NEW a, NEW b, Spans(d, C, a, b)
      PROVE  HasRecord(d, a) /\ NextPos(d, a) = b /\ RecordAt(d, a) \in Pieces(d, C)
  <2>1. SubSeq(d, a + 1, b) \in Pieces(d, C)
    BY <1>3, PiecesSpan
  <2>2. a \in 0..n /\ b \in 0..n /\ a < b
    BY <1>1, <1>2, <1>3 DEF Spans
  <2>3. HasRecord(d, a) /\ NextPos(d, a) = b
    BY <1>9, <2>1, <2>2, PieceIsRecord
  <2> QED
    BY <2>1, <2>3 DEF RecordAt
<1>4. ASSUME NEW a \in {0} \cup C, a # n
      PROVE  \E b : Spans(d, C, a, b)
  <2> DEFINE T == {x \in C \cup {n} : a < x}
  <2>1. a \in 0..n /\ a < n
    BY <1>1, <1>2, <1>4
  <2>2. T \subseteq Nat /\ n \in T
    <3>1. ASSUME NEW x \in C PROVE x \in Nat
      BY <1>1, <1>2
    <3> QED
      BY <1>1, <2>1, <3>1
  <2>3. PICK b \in T : \A x \in T : b <= x
    <3> HIDE DEF T
    <3> QED
      BY <2>2, LeastNumber
  <2>4. ASSUME NEW c \in C PROVE ~(a < c /\ c < b)
    <3>1. c \in Nat /\ b \in Nat /\ (a < c => c \in T)
      BY <1>2, <2>2
    <3> QED
      BY <2>3, <3>1
  <2> QED
    BY <2>3, <2>4 DEF Spans
<1>5. ASSUME NEW c \in C
      PROVE  \E a : Spans(d, C, a, c)
  <2> DEFINE T == {x \in {0} \cup C : x < c}
  <2>1. T \subseteq 0..n /\ 0 \in T
    <3>1. ASSUME NEW x \in C PROVE x \in 1..n
      BY <1>1, <1>2
    <3> QED
      BY <1>1, <3>1
  <2>2. PICK a \in T : \A x \in T : x <= a
    <3> HIDE DEF T
    <3> QED
      BY <1>1, <2>1, GreatestNumber
  <2>3. ASSUME NEW x \in C PROVE ~(a < x /\ x < c)
    <3>1. x \in Nat /\ a \in Nat /\ (x < c => x \in T)
      BY <1>2, <2>1
    <3> QED
      BY <2>2, <3>1
  <2> QED
    BY <2>2, <2>3 DEF Spans
<1>6. ASSUME NEW a \in {0} \cup C, a # n
      PROVE  /\ HasRecord(d, a) /\ NextPos(d, a) \in C \cup {n}
             /\ RecordAt(d, a) \in Pieces(d, C)
  <2>1. PICK b : Spans(d, C, a, b)
    BY <1>4, <1>6
  <2>2. b \in C \cup {n}
    BY <2>1 DEF Spans
  <2> QED
    BY <1>3, <2>1, <2>2
<1>7. ASSUME NEW piece \in Pieces(d, C)
      PROVE  \E a \in {0} \cup C : HasRecord(d, a) /\ piece = RecordAt(d, a)
  <2>1. PICK a, b : Spans(d, C, a, b) /\ piece = SubSeq(d, a + 1, b)
    BY PiecesSpan
  <2> QED
    BY <1>3, <2>1 DEF RecordAt, Spans
<1>8. ASSUME NEW c \in C
      PROVE  \E a \in {0} \cup C : a < c /\ HasRecord(d, a) /\ NextPos(d, a) = c
  <2>1. PICK a : Spans(d, C, a, c)
    BY <1>5
  <2>2. a \in {0} \cup C /\ a < c
    BY <2>1 DEF Spans
  <2> QED
    BY <1>3, <2>1, <2>2
<1> QED
  BY <1>2, <1>6, <1>7, <1>8, Zenon


\* The positions a walk from the start comes by: those that are in every set
\* that it cannot leave.
Chain(d) ==
    {a \in 0..Len(d) : \A S \in SUBSET (0..Len(d)) :
                          0 \in S /\ Closed(d, S) => a \in S}

LEMMA ChainWalks ==
    ASSUME NEW d \in Seq(Nat)
    PROVE  /\ 0 \in Chain(d) /\ Closed(d, Chain(d))
           /\ \A b \in Chain(d) : b # 0 =>
                \E e \in Chain(d) : HasRecord(d, e) /\ NextPos(d, e) = b
<1>1. 0 \in Chain(d)
  BY DEF Chain
<1>2. Closed(d, Chain(d))
  <2>1. SUFFICES ASSUME NEW a \in Chain(d), HasRecord(d, a)
                 PROVE  NextPos(d, a) \in Chain(d)
    BY DEF Closed
  <2>2. a \in 0..Len(d)
    BY DEF Chain
  <2>3. NextPos(d, a) \in 0..Len(d)
    BY <2>1, <2>2, NextPosLater DEF HeaderLen
  <2>4. ASSUME NEW S \in SUBSET (0..Len(d)), 0 \in S, Closed(d, S)
        PROVE  NextPos(d, a) \in S
    BY <2>1, <2>4 DEF Chain, Closed
  <2> QED
    BY <2>3, <2>4 DEF Chain
<1>3. ASSUME NEW b \in Chain(d), b # 0,
             ~ \E e \in Chain(d) : HasRecord(d, e) /\ NextPos(d, e) = b
      PROVE  FALSE
  <2> DEFINE S == Chain(d) \ {b}
  <2>1. S \in SUBSET (0..Len(d)) /\ 0 \in S
    BY <1>1, <1>3 DEF Chain
  <2>2. Closed(d, S)
    BY <1>2, <1>3 DEF Closed
  <2> QED
    BY <2>1, <2>2 DEF Chain
<1> QED
  BY <1>1, <1>2, <1>3

\* The walk never steps over a position it comes by.
LEMMA ChainOrdered ==
    ASSUME NEW d \in Seq(Nat), NEW a \in Chain(d), NEW b \in Chain(d),
           HasRecord(d, a), a < b
    PROVE  NextPos(d, a) <= b
<1> DEFINE Over(x, y) == HasRecord(d, x) /\ x < y /\ y < NextPos(d, x)
           Wrong == {y \in Chain(d) : \E x \in Chain(d) : Over(x, y)}
<1>1. /\ Chain(d) \subseteq 0..Len(d) /\ Len(d) \in Nat
      /\ \A x \in Chain(d) : HasRecord(d, x) =>
           NextPos(d, x) \in Nat /\ NextPos(d, x) > x
  <2>1. Chain(d) \subseteq 0..Len(d) /\ Len(d) \in Nat
    BY DEF Chain
  <2> QED
    BY <2>1, NextPosLater DEF HeaderLen
<1>2. CASE Wrong = {}
  <2>1. ~Over(a, b)
    BY <1>2
  <2>2. a \in Nat /\ b \in Nat /\ NextPos(d, a) \in Nat
    BY <1>1
  <2> QED
    BY <2>1, <2>2
<1>3. CASE Wrong # {}
  <2>1. Wrong \subseteq Nat
    BY <1>1
  <2>2. PICK y \in Wrong : \A z \in Wrong : y <= z
    <3> HIDE DEF Wrong
    <3> QED
      BY <1>3, <2>1, LeastNumber
  <2>3. y \in Chain(d) /\ y \in Nat
    BY <1>1
  <2>4. PICK x \in Chain(d) : Over(x, y)
    OBVIOUS
  <2>5. x \in Nat /\ y # 0
    BY <1>1, <2>3, <2>4
  <2>6. PICK e \in Chain(d) : HasRecord(d, e) /\ NextPos(d, e) = y
    BY <2>3, <2>5, ChainWalks
  <2>7. e \in Nat /\ e < y
    BY <1>1, <2>6
  <2>8. CASE e < x
    <3>1. Over(e, x)
      BY <2>4, <2>6, <2>8
    <3>2. x \in Wrong
      BY <3>1
    <3> QED
      BY <2>2, <2>3, <2>4, <2>5, <3>2
  <2>9. CASE e = x
    BY <2>3, <2>4, <2>6, <2>9
  <2>10. CASE x < e
    <3>1. NextPos(d, x) \in Nat
      BY <1>1, <2>4
    <3>2. Over(x, e)
      BY <2>3, <2>4, <2>5, <2>7, <2>10, <3>1
    <3>3. e \in Wrong
      BY <3>2
    <3> QED
      BY <2>2, <2>3, <2>7, <3>3
  <2> QED
    BY <2>5, <2>7, <2>8, <2>9, <2>10
<1> QED
  BY <1>2, <1>3

\* The positions inside a valid image that the walk comes by cut it into records.
LEMMA ChainCuts ==
    ASSUME NEW d \in Seq(Nat), Reaches(d, Records(d), 0)
    PROVE  Chain(d) \ {0, Len(d)} \in Cuttings(d)
<1> DEFINE n == Len(d)
           C == Chain(d) \ {0, n}
<1>1. n \in Nat /\ Chain(d) \subseteq 0..n
  BY DEF Chain
<1>2. \A a \in Chain(d) : a # n => HasRecord(d, a)
  <2>1. PICK S \in SUBSET (0..n) :
           /\ 0 \in S
           /\ \A a \in S : a = n \/ (a \in Records(d) /\ NextPos(d, a) \in S)
    BY DEF Reaches
  <2>2. ~HasRecord(d, n)
    BY <1>1 DEF HasRecord, HeaderLen
  <2>3. Closed(d, S)
    BY <2>1, <2>2 DEF Closed
  <2>4. Chain(d) \subseteq S
    BY <2>1, <2>3 DEF Chain
  <2> QED
    BY <2>1, <2>4 DEF Records
<1>3. ASSUME NEW a, NEW b, Spans(d, C, a, b)
      PROVE  IsRecord(SubSeq(d, a + 1, b))
  <2>1. a \in Chain(d) /\ b \in C \cup {n} /\ a < b
    BY <1>3, ChainWalks DEF Spans
  <2>2. a \in 0..n /\ b \in 0..n /\ a # n
    BY <1>1, <2>1
  <2>3. HasRecord(d, a)
    BY <1>2, <2>1, <2>2
  <2> DEFINE z == NextPos(d, a)
  <2>4. z \in Chain(d) /\ z \in (a + 4)..n
    BY <2>1, <2>2, <2>3, ChainWalks, NextPosLater DEF Closed, HeaderLen
  <2> HIDE DEF z
  <2>5. z <= b
    <3>1. CASE b = n
      BY <2>2, <2>4, <3>1
    <3>2. CASE b \in C
      BY <2>1, <2>3, <3>2, ChainOrdered DEF z
    <3> QED
      BY <2>1, <3>1, <3>2
  <2>6. ~(z < b)
    <3>1. ASSUME z < b PROVE z \in C
      BY <2>2, <2>4, <3>1
    <3>2. a < z
      BY <2>2, <2>4
    <3> QED
      BY <1>3, <3>1, <3>2 DEF Spans
  <2>7. z = b
    BY <2>2, <2>4, <2>5, <2>6
  <2> QED
    BY <2>1, <2>2, <2>3, <2>7, PieceIsRecord DEF z
<1>4. \A piece \in Pieces(d, C) : IsRecord(piece)
  <2> HIDE DEF C
  <2>1. SUFFICES ASSUME NEW piece \in Pieces(d, C) PROVE IsRecord(piece)
    OBVIOUS
  <2>2. PICK a, b : Spans(d, C, a, b) /\ piece = SubSeq(d, a + 1, b)
    BY PiecesSpan
  <2> QED
    BY <1>3, <2>2
<1>5. C \subseteq 1..(n - 1)
  BY <1>1
<1>6. IsFiniteSet(C) /\ Cardinality(C) \in 0..(n \div HeaderLen)
  <2> DEFINE f == [c \in C |-> c \div 4]
             T == 1..(n \div 4)
  <2>1. n \div 4 \in Nat
    BY <1>1
  <2>2. ASSUME NEW c \in C PROVE c \in 4..n /\ c \div 4 \in T
    <3>1. PICK e \in Chain(d) : HasRecord(d, e) /\ NextPos(d, e) = c
      BY ChainWalks
    <3>2. e \in 0..n
      BY <1>1
    <3>3. c \in 4..n
      BY <3>1, <3>2, <1>1, NextPosLater DEF HeaderLen
    <3> QED
      BY <1>1, <3>3
  <2>3. ASSUME NEW c1 \in C, NEW c2 \in C, c1 < c2 PROVE c1 \div 4 # c2 \div 4
    <3>1. c1 \in 4..n /\ c2 \in 4..n /\ c1 # n
      BY <2>2
    <3>2. HasRecord(d, c1) /\ NextPos(d, c1) <= c2
      BY <1>2, <2>3, <3>1, ChainOrdered
    <3>3. NextPos(d, c1) \in (c1 + 4)..n
      BY <3>1, <3>2, NextPosLater DEF HeaderLen
    <3>4. c1 + 4 <= c2
      BY <1>1, <3>1, <3>2, <3>3
    <3> QED
      BY <3>1, <3>4
  <2>4. f \in Injection(C, T)
    <3>1. f \in [C -> T]
      BY <2>2
    <3>2. ASSUME NEW c1 \in C, NEW c2 \in C, f[c1] = f[c2] PROVE c1 = c2
      <4>1. c1 \in Nat /\ c2 \in Nat
        <5>1. c1 \in 4..n /\ c2 \in 4..n
          BY <2>2, <3>2, Zenon
        <5> QED
          BY <5>1
      <4>2. c1 \div 4 = c2 \div 4
        BY <3>2
      <4> QED
        BY <2>3, <4>1, <4>2
    <3> HIDE DEF f, T, C
    <3> QED
      BY <3>1, <3>2 DEF Injection, IsInjective
  <2>5. IsFiniteSet(T) /\ Cardinality(T) = n \div 4
    BY <2>1, FS_Interval
  <2>6. IsFiniteSet(C) /\ Cardinality(C) <= Cardinality(T)
    <3> HIDE DEF f, T, C
    <3> QED
      BY <2>4, <2>5, FS_Injection
  <2>7. Cardinality(C) \in Nat
    BY <2>6, FS_CardinalityType
  <2> QED
    BY <2>1, <2>5, <2>6, <2>7 DEF HeaderLen
<1> HIDE DEF C
<1>7. C \in UNION {kSubset(k, 1..(n - 1)) : k \in 0..(n \div HeaderLen)}
  BY <1>5, <1>6 DEF kSubset
<1> QED
  BY <1>4, <1>7 DEF Cuttings, C


-----------------------------------------------------------------------------
(* The comparison.                                                         *)

\* An image passes the check of the code iff it can be cut into records.
LEMMA ValidCuts ==
    ASSUME NEW d \in Seq(Nat)
    PROVE  ImageIsValid(d) <=> Cuttings(d) # {}
<1>1. ASSUME ImageIsValid(d) PROVE Cuttings(d) # {}
  BY <1>1, ValidReaches, ChainCuts
<1>2. ASSUME NEW C \in Cuttings(d) PROVE Reaches(d, Records(d), 0)
  <2> DEFINE n == Len(d)
             S == {0} \cup C \cup {n}
  <2>1. n \in Nat /\ C \subseteq 1..(n - 1)
    BY CuttingWalks
  <2>2. S \in SUBSET (0..n) /\ 0 \in S
    <3>1. ASSUME NEW c \in C PROVE c \in 0..n
      BY <2>1
    <3>2. 0 \in 0..n /\ n \in 0..n
      BY <2>1
    <3> QED
      BY <3>1, <3>2, Zenon
  <2>3. ASSUME NEW a \in S, a # n PROVE a \in Records(d) /\ NextPos(d, a) \in S
    BY <2>2, <2>3, CuttingWalks DEF Records
  <2> HIDE DEF S
  <2> QED
    BY <2>2, <2>3 DEF Reaches
<1> QED
  BY <1>1, <1>2, ValidReaches

\* Two valid images: the loops find all records iff the pieces of the one are
\* among the pieces of the other.
LEMMA ContainsCuts ==
    ASSUME NEW actual \in Seq(Nat), NEW expected \in Seq(Nat),
           ImageIsValid(actual), ImageIsValid(expected)
    PROVE  ImageContainsRecords(actual, expected) <=>
             \E ce \in Cuttings(expected), ca \in Cuttings(actual) :
                Pieces(expected, ce) \subseteq Pieces(actual, ca)
<1> DEFINE n == Len(expected)
           K == Found(actual, expected)
<1>1. ASSUME Reaches(expected, K, 0)
      PROVE  \E ce \in Cuttings(expected), ca \in Cuttings(actual) :
                Pieces(expected, ce) \subseteq Pieces(actual, ca)
  <2> DEFINE ce == Chain(expected) \ {0, n}
             ca == Chain(actual) \ {0, Len(actual)}
  <2>1. ce \in Cuttings(expected) /\ ca \in Cuttings(actual)
    BY ValidReaches, ChainCuts
  <2>2. \A a \in Chain(expected) : a = n \/ a \in K
    <3>1. PICK S \in SUBSET (0..n) :
             /\ 0 \in S
             /\ \A a \in S : a = n \/ (a \in K /\ NextPos(expected, a) \in S)
      BY <1>1 DEF Reaches
    <3>2. ~HasRecord(expected, n)
      <4>1. n \in Nat
        OBVIOUS
      <4> QED
        BY <4>1 DEF HasRecord, HeaderLen
    <3>3. Closed(expected, S)
      BY <3>1, <3>2 DEF Closed
    <3>4. Chain(expected) \subseteq S
      BY <3>1, <3>3 DEF Chain
    <3> QED
      BY <3>1, <3>4
  <2>3. ASSUME NEW piece \in Pieces(expected, ce)
        PROVE  piece \in Pieces(actual, ca)
    <3>1. PICK a \in {0} \cup ce :
             HasRecord(expected, a) /\ piece = RecordAt(expected, a)
      <4> HIDE DEF ce
      <4> QED
        BY <2>1, CuttingWalks
    <3>2. a \in Chain(expected)
      BY ChainWalks
    <3>3. a # n
      <4>1. n \in Nat
        OBVIOUS
      <4> QED
        BY <3>1, <4>1 DEF HasRecord, HeaderLen
    <3>4. FindsRecord(actual, piece)
      BY <2>2, <3>1, <3>2, <3>3 DEF Found
    <3>5. Meets(actual, piece, 0)
      BY <3>4, FindsMeets
    <3>6. Chain(actual) \in SUBSET (0..Len(actual))
      BY DEF Chain
    <3>7. PICK q \in Chain(actual) :
             HasRecord(actual, q) /\ RecordAt(actual, q) = piece
      BY <3>5, <3>6, ChainWalks DEF Meets
    <3>8. q # Len(actual)
      <4>1. Len(actual) \in Nat
        OBVIOUS
      <4> QED
        BY <3>7, <4>1 DEF HasRecord, HeaderLen
    <3>9. q \in {0} \cup ca
      BY <3>8
    <3> HIDE DEF ca
    <3> QED
      BY <2>1, <3>7, <3>8, <3>9, CuttingWalks
  <2> HIDE DEF ce, ca
  <2> QED
    BY <2>1, <2>3
<1>2. ASSUME NEW ce \in Cuttings(expected), NEW ca \in Cuttings(actual),
             Pieces(expected, ce) \subseteq Pieces(actual, ca)
      PROVE  Reaches(expected, K, 0)
  <2> DEFINE S == {0} \cup ce \cup {n}
             m == Len(actual)
  <2>1. n \in Nat /\ ce \subseteq 1..(n - 1) /\ m \in Nat /\ ca \subseteq 1..(m - 1)
    BY CuttingWalks
  <2>2. S \in SUBSET (0..n) /\ 0 \in S
    <3>1. ASSUME NEW c \in ce PROVE c \in 0..n
      BY <2>1
    <3>2. 0 \in 0..n /\ n \in 0..n
      BY <2>1
    <3> QED
      BY <3>1, <3>2, Zenon
  <2>3. ASSUME NEW T \in SUBSET (0..m), 0 \in T, Closed(actual, T)
        PROVE  {0} \cup ca \subseteq T
    <3> DEFINE Wrong == ca \ T
    <3>1. SUFFICES ASSUME Wrong # {} PROVE FALSE
      BY <2>3
    <3>2. Wrong \subseteq Nat
      <4>1. ASSUME NEW c \in ca PROVE c \in Nat
        BY <2>1
      <4> QED
        BY <4>1
    <3>3. PICK c \in Wrong : \A x \in Wrong : c <= x
      <4> HIDE DEF Wrong
      <4> QED
        BY <3>1, <3>2, LeastNumber
    <3>4. PICK a \in {0} \cup ca :
             a < c /\ HasRecord(actual, a) /\ NextPos(actual, a) = c
      BY CuttingWalks
    <3>5. a \in Nat /\ c \in Nat
      BY <2>1, <3>2
    <3>6. a \in T
      BY <2>3, <3>3, <3>4, <3>5
    <3> QED
      BY <2>3, <3>4, <3>6 DEF Closed
  <2>4. ASSUME NEW a \in S, a # n PROVE a \in K /\ NextPos(expected, a) \in S
    <3>1. /\ HasRecord(expected, a) /\ NextPos(expected, a) \in S
          /\ RecordAt(expected, a) \in Pieces(expected, ce)
      BY <2>4, CuttingWalks
    <3> DEFINE r == RecordAt(expected, a)
    <3>2. PICK q \in {0} \cup ca : HasRecord(actual, q) /\ r = RecordAt(actual, q)
      BY <1>2, <3>1, CuttingWalks
    <3>3. Meets(actual, r, 0)
      BY <2>3, <3>2 DEF Meets
    <3>4. FindsRecord(actual, r)
      BY <3>3, FindsMeets
    <3> QED
      BY <2>2, <3>1, <3>4 DEF Found
  <2> HIDE DEF S, K
  <2> QED
    BY <2>2, <2>4 DEF Reaches
<1>3. ImageContainsRecords(actual, expected) <=> Reaches(expected, K, 0)
  BY ContainsReaches
<1> QED
  BY <1>1, <1>2, <1>3

\* The comparison of Data Storage images: the loops of verify_data_storage over
\* the records of two images, well-formed or not and of any length, say that they
\* agree iff they are equal or the records of the expected one are all in the
\* actual one, in whatever order.
THEOREM ImagesCompared ==
    \A actual, expected \in Seq(Nat) :
        ImagesAgree(actual, expected) <=>
            \/ actual = expected
            \/ \E wanted \in RecordSets(expected), there \in RecordSets(actual) :
                  wanted \subseteq there
<1>1. SUFFICES ASSUME NEW actual \in Seq(Nat), NEW expected \in Seq(Nat)
      PROVE  ImagesAgree(actual, expected) <=>
               \/ actual = expected
               \/ \E wanted \in RecordSets(expected), there \in RecordSets(actual) :
                     wanted \subseteq there
  OBVIOUS
<1> DEFINE both == \E wanted \in RecordSets(expected), there \in RecordSets(actual) :
                     wanted \subseteq there
<1>2. both <=> \E ce \in Cuttings(expected), ca \in Cuttings(actual) :
                 Pieces(expected, ce) \subseteq Pieces(actual, ca)
  <2>1. ASSUME NEW data, NEW r
        PROVE  r \in RecordSets(data) <=> \E c \in Cuttings(data) : r = Pieces(data, c)
    BY DEF RecordSets
  <2>2. ASSUME both
        PROVE  \E ce \in Cuttings(expected), ca \in Cuttings(actual) :
                  Pieces(expected, ce) \subseteq Pieces(actual, ca)
    <3>1. PICK wanted \in RecordSets(expected), there \in RecordSets(actual) :
             wanted \subseteq there
      BY <2>2
    <3>2. PICK ce \in Cuttings(expected) : wanted = Pieces(expected, ce)
      BY <2>1
    <3>3. PICK ca \in Cuttings(actual) : there = Pieces(actual, ca)
      BY <2>1
    <3> QED
      BY <3>1, <3>2, <3>3, Zenon
  <2>3. ASSUME NEW ce \in Cuttings(expected), NEW ca \in Cuttings(actual),
               Pieces(expected, ce) \subseteq Pieces(actual, ca)
        PROVE  both
    <3>1. /\ Pieces(expected, ce) \in RecordSets(expected)
          /\ Pieces(actual, ca) \in RecordSets(actual)
      BY <2>1
    <3> QED
      BY <2>3, <3>1, Zenon
  <2> QED
    BY <2>2, <2>3
<1> HIDE DEF both
<1>3. CASE ImageIsValid(expected) /\ ImageIsValid(actual)
  <2>1. ImagesAgree(actual, expected) <=> both
    BY <1>2, <1>3, ContainsCuts DEF ImagesAgree
  <2>2. actual = expected => both
    BY <1>2, <1>3, ValidCuts
  <2> QED
    BY <2>1, <2>2 DEF both
<1>4. CASE ~(ImageIsValid(expected) /\ ImageIsValid(actual))
  <2>1. ImagesAgree(actual, expected) <=> actual = expected
    BY <1>4 DEF ImagesAgree
  <2>2. ~both
    BY <1>2, <1>4, ValidCuts
  <2> QED
    BY <2>1, <2>2 DEF both
<1> QED
  BY <1>3, <1>4

=============================================================================
