---------------------------- MODULE DataStorage ----------------------------
(***************************************************************************)
(* Comparing Data Storage images (src/master_isdu.c).  An image is a        *)
(* sequence of records: index (two octets), subindex, length, then as many  *)
(* octets of value.  The code walks through the octets with a cursor; pos   *)
(* is the number of octets behind it.                                       *)
(***************************************************************************)
EXTENDS Naturals, Sequences, FiniteSetsExt

HeaderLen == 4        \* IOLINK_MASTER_DS_RECORD_HEADER_LEN

\* ds_next_record: there is a whole record at pos; the record; what follows.
HasRecord(data, pos) ==
    /\ pos + HeaderLen <= Len(data)
    /\ data[pos + HeaderLen] <= Len(data) - pos - HeaderLen

NextPos(data, pos) == pos + HeaderLen + data[pos + HeaderLen]
RecordAt(data, pos) == SubSeq(data, pos + 1, NextPos(data, pos))

\* ds_image_is_valid.
ImageIsValid(data) ==
    LET valid[pos \in 0..Len(data)] ==
          \/ pos = Len(data)
          \/ HasRecord(data, pos) /\ valid[NextPos(data, pos)]
    IN  valid[0]

\* fault: the records have to come in the same order.
FindsRecordFirst(actual, record) ==
    /\ HasRecord(actual, 0)
    /\ RecordAt(actual, 0) = record

\* The inner and the outer loop of ds_image_contains_records.
FindsRecord(actual, record) ==
    LET finds[pos \in 0..Len(actual)] ==
          /\ HasRecord(actual, pos)
          /\ RecordAt(actual, pos) = record \/ finds[NextPos(actual, pos)]
    IN  finds[0]

ImageContainsRecords(actual, expected) ==
    LET contains[pos \in 0..Len(expected)] ==
          \/ pos = Len(expected)
          \/ /\ HasRecord(expected, pos)
             /\ FindsRecord(actual, RecordAt(expected, pos))
             /\ contains[NextPos(expected, pos)]
    IN  contains[0]

\* The comparison of verify_data_storage: by records when both images parse,
\* otherwise octet by octet.
ImagesAgree(actual, expected) ==
    IF ImageIsValid(expected) /\ ImageIsValid(actual)
    THEN ImageContainsRecords(actual, expected)
    ELSE actual = expected

-----------------------------------------------------------------------------
(* What the loops are to compute, without a cursor: an image is valid iff   *)
(* it can be cut into pieces each of which is a record.                     *)

IsRecord(s) == Len(s) >= HeaderLen /\ Len(s) = HeaderLen + s[HeaderLen]

Pieces(data, cuts) ==
    LET ends == cuts \cup {Len(data)}
        starts == {0} \cup cuts
    IN  {SubSeq(data, p[1] + 1, p[2]) :
            p \in {q \in starts \X ends :
                     q[1] < q[2] /\ \A c \in cuts : ~(q[1] < c /\ c < q[2])}}

Cuttings(data) ==
    {cuts \in UNION {kSubset(n, 1..(Len(data) - 1)) :
                        n \in 0..(Len(data) \div HeaderLen)} :
        \A piece \in Pieces(data, cuts) : IsRecord(piece)}

\* The records of a valid image, as the only element of the set.
RecordSets(data) == {Pieces(data, cuts) : cuts \in Cuttings(data)}

=============================================================================
