-------------------------- MODULE MCCommissioning --------------------------
(***************************************************************************)
(* Values for Commissioning: an ordinary parameter, the Data Storage, which *)
(* the device may reorder, extend or spoil, and Direct Parameter page 1 at  *)
(* the boundaries of its fields.                                            *)
(***************************************************************************)
EXTENDS Commissioning, TLC

Parameter == <<64>>
MCStorage == <<0, 3>>
MCSystemCommand == <<2>>
MCDirect == <<0, 0>>
MCParameters == {Parameter, MCStorage, MCDirect}

\* A usual page; every MinCycleTime octet; every capability with descriptors
\* of either unit, reserved or not, with the SIO bit or not; a short page.
Usual == <<23, 1, 17, 0, 0, 1>>
Descriptors == {0, 1, 8, 9, 16, 17, 72, 128, 129, 130, 159}
MCPages ==
    {[Usual EXCEPT ![1] = n] : n \in 0..255}
    \cup {[Usual EXCEPT ![2] = cap, ![4] = d] : cap \in 0..15, d \in Descriptors}
    \cup {[Usual EXCEPT ![2] = cap, ![5] = d] : cap \in 0..15, d \in Descriptors}
    \cup {[Usual EXCEPT ![3] = r, ![6] = id] : r \in 15..18, id \in 1..2}
    \cup {SubSeq(Usual, 1, 5)}
MCBlockPages == {Usual}

MCStores ==
    {(Parameter :> <<1>>) @@ (MCStorage :> <<>>) @@ (MCDirect :> page) :
        page \in MCPages}

MCConfigs ==
    {[type |-> "TYPE_1_2", min_cycle_time |-> 23, pd_in_len |-> 0,
      pd_out_len |-> 0, inspection |-> TRUE, expected_id |-> 1]}

RecordA == <<0, 1, 0, 1, 7>>
RecordB == <<0, 2, 0, 0>>
MCBlockSet == {<<Parameter, <<2>>>>, <<MCStorage, RecordA \o RecordB>>}
MCWrites == {<<Parameter, <<1>>>>, <<MCStorage, RecordB>>}

\* A parameter may be clamped; Data Storage may be reordered, lose a record,
\* gain one, be cut off inside a record, or not be one at all.
MCKept(object, data) ==
    IF object = Parameter THEN {data, <<1>>}
    ELSE {data, RecordB \o RecordA, RecordB, RecordB \o RecordB \o RecordA,
          RecordB \o SubSeq(RecordA, 1, 4), <<1>>}

=============================================================================
